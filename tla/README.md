# Verification of Nexero

Nexero is a small multi-tenant ERP: a NestJS server over PostgreSQL (through
Prisma), a React client, Stripe for subscriptions and an adapter to the Romanian
tax authority (ANAF). This directory models the program in TLA+, checks the
models with TLC on small instances and proves their safety properties with TLAPS
for all sizes. Paths below are relative to the repository (`src/...` is the
server, `web/src/...` the client).

## 1. Inventory

The server keeps no state in memory between requests: all state is rows in
PostgreSQL, and everything hard comes from requests that interleave between
two statements, from handlers that die between two statements, and from Stripe,
which delivers in any order and more than once. In the client it comes from
answers that arrive late, or for a page, a search or a login that is gone.

| Component | State | Operations | What makes it hard | What must hold | Module |
|---|---|---|---|---|---|
| Invoicing engine (`modules/invoicing/invoices`, `invoice-series`) | `invoice_series` with its counter, `invoices`, `invoice_lines`, `invoice_audit_log` | createDraft, createCreditNote, issue; create and remove a series | number allocation under a row lock, reads made before the transaction, sum of credit notes, issue in two transactions with a transmission in between | numbers without gap or repetition, references to live rows, credit notes within the original, one transmission and one log entry per issued invoice | `Invoicing` |
| Stripe webhook (`payments`) | `tenant_modules` (entitlements), `processed_webhook_events` | handleEvent: checkout, payment failed or succeeded, subscription deleted | duplicates, reordering, concurrent deliveries, lost responses, swallowed constraint errors | effect once, nothing lost silently, newer state wins | `StripeWebhook` |
| User administration (`users`) | `users`, `user_tenant_access`, `user_module_roles` | create, update, resetPassword; assign, list and revoke module roles | concurrent demotion of the last owners; an access activated elsewhere while a password is reset; serialization failures | a tenant keeps an active owner; a password is set by the only firm of its user; roles belong to members | `UserAccess` (owners), `Gate` (the rest) |
| Authentication, ModuleGuard, RBAC (`auth`, `entitlements`, `rbac`) | tokens at the client | login, switch of the tenant, four guards in a row | tokens outlive accesses and roles; each guard reads at another time | a handler runs only for a live user, access, module and role | `Gate` |
| CRM and products (`modules/crm`, `modules/invoicing/products`) | companies with teams, contacts, deals, tasks, notes, products | create, update, remove, with checks of links, members and tax numbers | link checked, then deleted; sets replaced concurrently; foreign keys on delete | stored links live and in the same tenant; a replaced set is one request's, but for a `PATCH` without a column | `Crm` |
| Code sequence (`common`) | `code_sequences` | next | first allocation, failed insert after allocation | codes never repeat (gaps allowed) | `Crm` |
| ANAF adapter (`integrations/anaf`) | none | validateCui (5 s limit), submitEInvoice (stub) | unavailable registry against invalid number | a confirmed number keeps the status it was confirmed with | `Crm`, `Invoicing` |
| Web: list hook and pages (`web/src/hooks`, `web/src/pages`) | search, page, dialogs, requests under way | load, search, page, edit, delete, star | late and reordered answers, dialogs closed while they save | the list belongs to the newest request, and shows what was saved | `ListPage`, `WebPages` |
| Web: new invoice (`web/src/pages/NewInvoicePage.tsx`) | lists, quick creators, the draft | create, issue, start over | double submission, lost answers | one draft for one form | `NewInvoicePage` |
| Web: session (`web/src/auth`, `LoginPage`, `App`) | token and name of the firm, in memory and in localStorage | login, logout, /auth/me, reload, other tabs | an answer for the previous token | the header names the firm the requests are made for | `WebClient` |
| Tax resolution, amounts (`resolveTaxCode`, `computeLineAmounts`) | `tax_codes` | rate by category and date, decimal amounts | validity at a date, rounding | one valid rate or an error | outcome only, in `Invoicing` |
| Component library (`web/src/components`) | presentation | - | - | - | not modelled |
| Customer portal, admin panel, AI add-on, SAF-T export | - | only specified in `docs/` | - | - | no code |

Interactions. A request passes JwtAuthGuard, ModuleGuard, the role guards and
then its handler; guards read what the webhook and the user administration
write. The invoicing engine reads companies and products, which CRM and Products
delete; the database's foreign keys arbitrate. Issue calls the ANAF adapter, and
so does every write of a company with a tax number. Every create of a company,
contact, deal or product takes a code from the code sequence. The client calls
the API over HTTP, several requests at a time.

`PROJECT.json` lists every component with its status, and every hazard at the
line where it bites.

## 2. Plan

Done, in this order: `Invoicing` with its abstract specification
`InvoiceLedger`; `StripeWebhook` with its abstract specification
`EntitlementRegister`; `UserAccess`; `Crm`; `Gate`; `WebPages`,
`ListPage`, `NewInvoicePage`, and `WebClient`, which composes the three and adds
the session. Each part has a module with its inductive invariant and one to
three modules of proofs.

Left, in the order of what it would add:

1. Amounts with two decimals and the choice of a rate at a date, as pure
   operators against a reference definition.
2. `Gate` with the rows of `StripeWebhook` in place of its `SetStatus`.

## 3. How the models are built

**One action per statement.** A request (or webhook delivery) is a process; each
statement it sends, or each autocommitted call, is one action. Variables named
after tables hold the *committed* rows. What an open transaction has written
lives in the process's record and appears, all of it, in its `Commit`. This is
READ COMMITTED, the default, which every service but UsersService uses: a
statement sees the rows committed when it starts. Locks that outlive a statement are modelled where the code
relies on them: the row lock of `UPDATE invoice_series`, the key-share locks an
insert takes on the rows its foreign keys name, row locks and uncommitted
unique-key entries of the webhook. A statement that would block is disabled
until the lock is gone. Constraints (unique keys, foreign keys) are guards of
the inserting action, with an action of its own for the violation.

**Faults.** `Crash` ends a handler at any step: a process crash, a lost
connection, a statement error, or the 5 s limit Prisma sets on a transaction.
An open transaction is rolled back, what was committed stays, locks are freed.
For a delivery it is also the lost response. `Faults = FALSE` turns it off.

### 3.1 Invoicing

| Module | Content |
|---|---|
| `Invoicing` | state and actions of InvoicesService and InvoiceSeriesService, plus the deletions of companies and products that race them |
| `InvoiceLedger` | abstract specification: one append-only book per series code |
| `InvoicingInductive` | the invariants strengthened until they are inductive |
| `InvoicingProofs` | numbering and type correctness |
| `InvoicingDocumentProofs` | transmission, log, references, and the cap of credit notes |
| `InvoicingRefinementProofs` | every step is a step of the ledger or a stutter |
| `MCInvoicing` | instances for TLC, symmetry |

`series`, `invoices`, `audit`, `submissions`, `companies`, `products` are the
rows (`audit` counts log rows, `submissions` the calls of `submitEInvoice`);
`seriesLock` is the row lock; `job[r]` is what handler `r` has read and written.

| Code (`invoices.service.ts` unless said otherwise) | Actions |
|---|---|
| DTOs of invoices, lines, credit notes and series | `CreateInvoiceDto`, `CreateInvoiceLineDto`, `CreateCreditNoteDto`, `CreateInvoiceSeriesDto`: what the actions draw from |
| `createDraft`: company lookup | `BeginDraft` |
| `createCreditNote`: original lookup, inherited cap | `BeginCreditNote` |
| `createDraftInvoice`: series by code, outside the transaction | `FindSeries`, `SeriesNotFound` |
| loop over the lines, `resolveTaxCode` | `ResolveLines`, `RejectLines` |
| cap: aggregate of credit notes | `CheckCap`, `RejectCap` |
| `invoiceSeries.update` with increment | `AllocateNumber`, `SeriesGone` |
| `invoice.create` with its lines | `InsertInvoice`, `InsertRejected` |
| audit row, commit | `Commit` |
| `issue`: reads and checks | `BeginIssue` |
| `issue`: updateMany with status in WHERE | `CasIssue`, `CasLost` |
| `issue`: `anaf.submitEInvoice` | `Submit` |
| `issue`: second transaction | `FinishIssue` |
| `invoice-series.service.ts` create, remove | `CreateSeries`, `RemoveSeries` |
| `companies.service.ts`, `products.service.ts` remove | `RemoveCompany`, `RemoveProduct` |

Abstractions. One tenant, because every query filters by tenant and the tables
of two tenants never meet. The year in `invoiceNo` is left out, because the
counter never restarts: series code and number identify the text. One product
stands for the lines and one natural number for the total; the sum of the lines
is kept beside it because `issue` compares the two. Whether a valid tax rate
exists is nondeterministic (`RejectLines`). That a company with team members
cannot be removed is left to `Crm`: here it is one behaviour more, so safety is
unaffected. A draft's key is reserved when the
request starts, so that the finite pool does not run out in mid-handler. There
is no operation that edits or deletes an invoice in the code.

Bounds: the finite sets of keys; nothing else is cut off. Three invoices are
what an original and two overlapping credit notes need (also a note on a note);
two series keys under one code are what delete-and-create-again needs; two
requests are what each race of the hazards needs. Two series that are live at
the same time need two codes, which the instances do not have: the steps of one
series read and write nothing of another, and the theorems hold for any number
of codes.

`CHECK_DEADLOCK FALSE` is set everywhere: when the keys of the instance are used
up and nobody calls, the server rightly does nothing. That no *request* gets
stuck is what `EveryRequestEnds` checks.

### 3.2 Stripe webhook

| Module | Content |
|---|---|
| `StripeWebhook` | handleEvent statement by statement, deliveries and retries |
| `EntitlementRegister` | abstract specification: events take effect one at a time |
| `StripeWebhookInductive` | the invariants behind the proofs |
| `StripeWebhookProofs` | the proofs |
| `MCStripeWebhook` | instances for TLC |

`event` says what each event id means (fixed in the initial state, all
combinations), `entitlements` and `processed` are the two tables, `acked` the
events answered with 200, `delivery[d]` a request in progress; `applied` is a
history variable counting committed effects per event.

| Code (`stripe-webhook.service.ts` unless said otherwise) | Actions |
|---|---|
| `stripe-webhook.controller.ts` | `Deliver`, `Respond` |
| `handleEvent`: insert of the id | `RecordEvent`, `AlreadyProcessed` |
| `handleCheckoutSessionCompleted`: missing metadata | `IncompleteMetadata` |
| - updateMany | `Reactivate`, `ReactivateRejected`, `NothingToUpdate` |
| - create and its catch | `Create`, `CreateRejected` |
| - a foreign key of either (unknown tenant, module or plan) | `UnknownReference` |
| `updateStatusBySubscription` and its callers | `UpdateStatus`, `StatusUnmatched` |
| `applyEvent`, default | `IgnoreOther` |
| end of the transaction | `Commit` |

Abstractions. A *slot* is a tenant with a module. The metadata of a checkout is
complete, missing, or names something that does not exist: a tenant or a module
(no slot) or a plan (a slot that exists). Missing metadata throws before any
statement, and so does an id that is no UUID at the first one. An unknown name
gets as far as a foreign key (`UnknownReference`), which PostgreSQL checks after
the unique keys: a conflict with those comes first and is swallowed, so such a
checkout can be answered with 200. Beyond whether it exists the plan is left
out: it travels with the slot's row and nothing reads it. Signature check and rate limit refuse a request before the handler and
are left out. The step in which PostgreSQL refuses the statements after a failed
insert is merged with the answer: the code sends none, and its COMMIT is then a
rollback, so `CreateRejected` records nothing. A row an UPDATE waits for is
evaluated again when the lock is gone, as PostgreSQL does; a row that starts to
match only while it waits is treated as matching. Rows without a webhook write
are trial rows, which provisioning (the seed) makes.

Bounds: two slots, two subscriptions and two events at two times, all
combinations, give every pairwise race; the run with fairness has one
subscription, and begins with a slot on trial beside one without a row.

### 3.3 User access

| Module | Content |
|---|---|
| `UserAccess` | create and update of UsersService over the access rows of one tenant |
| `UserAccessInductive` | the inductive invariant |
| `UserAccessProofs` | the proofs |
| `MCUserAccess` | instance for TLC |

`access[u]` is the committed row of user `u` in `user_tenant_access`, or
`NoAccess`; `job[r]` is what request `r` knows: caller, target and body, then the
snapshot of its transaction and the transactions that snapshot includes
(`seen`).

| Code (`users.service.ts` unless said otherwise) | Actions |
|---|---|
| `rbac/global-role.guard.ts`, `rbac.service.ts` getGlobalRole | `Receive` |
| `create` | `Create` |
| `update`: reads and checks | `Begin`, `Refuse` |
| `update`: updateMany | `Write` |
| `update`: end of the transaction | `Commit` |
| `update`: catch of P2034, dying handler | `Rollback` |

`update` is the only SERIALIZABLE transaction of these rows, so it is not
modelled like the READ COMMITTED ones above. All reads see the snapshot, hence
one action. The write waits for the lock of its row and fails when the row was
changed since the snapshot. The commit succeeds only if the reads and writes of
the committed updates have a serial order (`Precedes`, `Serializable`), which is
what the isolation level promises; PostgreSQL may fail more transactions than
that, which is `Rollback`. The count of owners reads every row of the tenant:
it scans the index on `tenant_id`, and a predicate read is in conflict with
whatever is written in its range. `create` runs at the default level, takes no
part in that order, and adds a row that is never an owner's.

Abstractions. One tenant. The account itself (name, password) is left out: no
code deactivates it. A body with only `fullName` writes no access row and is
left out.

Bounds: each request is made once, so an instance has as many updates as it has
requests, and stops when they have ended (`CHECK_DEADLOCK FALSE`). Three updates
of two users are two that race and a third that has committed, is concurrent
with both, or makes the second owner.

### 3.4 Gate

| Module | Content |
|---|---|
| `Gate` | the guards, the handlers that give out tokens, and the handlers that change what the guards read |
| `GateInductive` | the inductive invariant |
| `GateProofs` | the proofs |
| `MCGate` | instance for TLC |

`access`, `moduleRoles`, `entitlement` are tables; `enabled` and `password` are
columns of `users`, a password being told from another by the firm whose
administrator set it; `tokens` are the tokens issued and not expired; `job[j]`
is a request and how far it has come. `Routes` lists every route of the
controllers with what its decorators ask for.

| Code | Actions |
|---|---|
| `auth/jwt-auth.guard.ts` | `JwtAuthGuard` |
| `entitlements/module.guard.ts` | `ModuleGuard` |
| `rbac/global-role.guard.ts`, `rbac/module-role.guard.ts`, `rbac.service.ts` | `GlobalRoleGuard`, `ModuleRoleGuard` |
| rate limits of login and switchTenant | `Throttle` |
| `auth.service.ts` login, switchTenant | `LoginAccount`, `LoginFirms`, `SwitchTenant` |
| `users.service.ts` findOne before the module roles | `FindOne` |
| - assignModuleRole, listModuleRoles, revokeModuleRole | `AssignModuleRole`, `ListModuleRoles`, `RevokeModuleRole` |
| - update, resetPassword (both SERIALIZABLE) | `UpdateBegin`, `ResetBegin`, `Write`, `UpdateCommit`, `ResetCommit`, `Rollback` |
| every other handler | `Handle` |
| webhook, end of a trial, support, expiry of a token | `SetStatus`, `TrialEnds`, `Disable`, `Expire` |

Each query of each guard is a step. A serializable transaction is modelled as in
3.3, but over items: `<<user, firm>>` is a row of `user_tenant_access`,
`<<user, Nil>>` one of `users`. The reads with which `update` builds its answer
belong to the transaction, and matter: `<<user, Nil>>` is among them.

`held` is a history variable. It collects, from the arrival of a request on,
which of its route's demands have been true at some time. It states what the
guards are for without saying how they read.

Abstractions. What the other handlers do is the matter of the other modules. The
module code of a row of module roles does not enter the decision, because
`ModuleRoleGuard` compares roles only; their names carry the module.

Bounds: two firms, three accounts (an owner of both, a worker of one who is
suspended in the other, one without access) and three requests, each made once,
in eleven scenarios: a reset against an activation and a login, against a rename;
work against a revocation; a switch of the firm against both; and so on. The
statuses of two modules, an account and a token change meanwhile. 117,628
states.

### 3.5 CRM, products, codes, tax numbers

| Module | Content |
|---|---|
| `Crm` | the services of companies, contacts, deals, tasks, notes and products, with the code sequence and the ANAF adapter |
| `CrmInductive` | the inductive invariant |
| `CrmProofs` | the proofs |
| `MCCrm` | instance for TLC |

`row` holds one record for every id of every kind; `nextValue` is
`code_sequences`; `access` is `user_tenant_access`; `job[j]` is a request: its
body, and how many of its checks (`ChecksOf`, in the order of the code) it has
passed. All operations have one shape, checks, code, write, reread, and any
other request may run between two of these.

| Code | Actions |
|---|---|
| controllers and DTOs | `Start` (`Accepted`) |
| assertLinksBelongToTenant and its likes, a query per link | `CheckLink` |
| assertUsersBelongToTenant | `AssertUsersBelongToTenant` |
| resolveTaxId, `anaf.service.ts` validateCui | `ResolveTaxId` (`ValidateCui`) |
| `code-sequence.service.ts` | `NextFormatted` |
| `create` of each service | `CreateCompany`, `CreateContact`, `CreateDeal`, `CreateTask`, `CreateNote`, `CreateProduct` |
| `update` of contacts, deals, products | `UpdateContact`, `UpdateDeal`, `UpdateProduct` |
| `update` of companies, tasks, notes: transaction | `UpdateCompany`, `UpdateTask`, `UpdateNote` (first statement, `UpdateColumns`), `DeleteMembers`, `MembersDeleted`, `CommitMembers` |
| `findOne` at the end of an update | `FindOne` |
| `remove` of each service | `RemoveCompany`, `RemoveContact`, `RemoveDeal`, `RemoveTask`, `RemoveNote`, `RemoveProduct` |
| PostgreSQL ends one of two transactions that wait for each other | `Deadlock` |
| access rows change, an invoice names a company and a product | `SetAccess`, `CreateInvoice` |

Foreign keys act inside the statement that meets them: `SET NULL` for the links
of the CRM, `RESTRICT` for the columns of invoices and for members. The
transaction of a `PATCH` that sets a column (`columns`) holds the lock of its
row, and shares of the locks of the rows it links to, until it commits. One with
member ids only (`NoColumn`) sets none: the tables have no `@updatedAt`, and for
an `updateMany` without data Prisma counts the rows and issues no `UPDATE`. It
takes no lock, runs beside any other replacement of the same members, and meets
it only where both delete the same member row (`MembersDeleted`) or add it
(`CommitMembers`), where a `DELETE` that waited does not see rows added since.
`swap` has what the `deleteMany` of each replacement found and, as history,
whether another replacement ran beside it without a lock between them.

Abstractions. Columns that nothing compares are left out, but for whether a body
has any. A contact's and a note's text are such columns; the tax number, the VAT
status, whether ANAF confirmed it and whether the client chose it are kept.
There is no crash action: outside a transaction a request that dies leaves what
a request that does nothing more leaves, and no step is ever forced; inside one,
the rollback leaves what there was before it began.

Bounds: each behaviour is about one of seven sets of rows (`MCCasts`), chosen so
that each link, foreign key, member set, code and tax number meets the requests
that could break it, with two requests at a time of two firms and at most two
codes in a sequence. Requests follow each other without end, so deadlock is
checked. 173,865 states; the two requests are interchangeable.

### 3.6 Web client

| Module | Content |
|---|---|
| `WebPages` | the pages as data: who uses the list hook, what can be written, how each field of each form is sent |
| `ListPage` | one list page: the hook or the plain reload, both dialogs, the requests under way |
| `NewInvoicePage` | the page that makes an invoice, with its quick creators |
| `WebClient` | one tab: the session around the page that is mounted |
| `WebClientInductive` | the inductive invariant of pages, session and form |
| `WebClientProofs` | the proofs |
| `MCWeb` | instances for TLC |

A handler runs to its `await` in one step; an answer, a timer and the user come
in any order, and each request may fail before or after it was carried out. In
`ListPage`, `table` are the rows on the server (only the field that is observed),
`clock` numbers its states, and a load carries the number of the state it read.

| Code | Actions |
|---|---|
| `hooks/use-list-page.ts`, `list-pagination.tsx` | `Reload`, `Loaded`, `Type`, `Debounced`, `TurnPage`, `ResizePage` |
| the tabs of `ContactsPage.tsx` | `ChooseTab` |
| dialogs of the pages in `pages/`, `pages/crm/` | `Create`, `Edit`, `Fill`, `Cancel`, `Submit`, `Saved`, `SaveFailed` |
| ConfirmDialog and its use | `AskRemove`, `Dismiss`, `Confirm`, `Removed`, `RemoveFailed` |
| the star of `NotesPage.tsx` | `ToggleFavorite`, `Toggled`, `ToggleFailed` |
| the server, other users | `ServeLoad`, `ServeSave`, `ServeRemove`, `ServeToggle`, `OthersWrite` |
| `NewInvoicePage.tsx` | `ListsLoaded`, `ListsFailed`, `ChangeLines`, `OpenOrCancel`, `Choose`, `QuickCreate`, `QuickCreated`, `QuickFailed`, `SubmitInvoice`, `InvoiceCreated`, `CreateFailed`, `IssueInvoice`, `InvoiceIssued`, `IssueFailed`, `StartOver` |
| `auth/AuthContext.tsx`, `LoginPage.tsx`, `RequireAuth.tsx` | `Login`, `LoggedIn`, `LoginFailed`, `Logout`, `Named`, `NotNamed`, `LoadApplication` |
| localStorage, shared with other tabs | `OtherTab` |
| `App.tsx` | `GoToNewInvoice`, `GoToInvoices` |

Abstractions. Of a page one field is observed at a time; a value is empty or
not. What a dialog can put into it, and so what the tables can hold, depends on
its input (`Storable`): a required input and a choice are never submitted empty.
A form for a new row begins empty but for the fields in `prefilled`. Of the
texts typed into a search there are two, the empty one and one that finds the
rows in `Matching`. The tabs of contacts pick rows twice, as the page does: from
the whole list for the pager (`Filtered`), and from the hook's page for the table
(`RowsShown`). A contact is a lead if it has no company; when another field is
observed, `Leads` says which are. The tabs and columns of deals, tasks and notes
pick from an unpaged list, and are presentation: every listed row may be acted
on. A token is told from another by its firm.

Bounds: two rows, three loads and two writes while a page is mounted, of which
standing on a tab other than the first uses up one; two invoices of two lines;
two firms. Other tabs, reloads of the application and the
answer to `/auth/me` come while the landing page, or none with a dialog, is
shown; the pages with dialogs are entered by their address. Between a page and
the session there is only the unmounting, which is kept. `web` observes
`companyId` of the contacts (hook and tabs, which depend on that very field; sent
as null when empty), `content` of the notes (no hook, star) and the list of
invoices: 1,361,301 states. `web_stale_search` observes products.

## 4. Runs

| Run | Question | Instance |
|---|---|---|
| `inv_concurrent` | Do numbering, references and transmission survive interleaving, crashes and deletions? Are the inductive invariants true? Does the engine implement the ledger? | 2 requests, 3 invoices, 2 series keys, 1 code, crashes |
| `inv_live` | Does every request end and every issued invoice get transmitted and logged? Do credit notes stay within their original when those of one original do not overlap? | 2 requests, 3 invoices, amounts 1 and 2, fair, no crashes |
| `inv_cap_race` | violated: the cap with overlapping credit notes | 2 requests, 3 invoices |
| `inv_audit_crash` | violated: log entry of an issued invoice after a crash | 1 request |
| `webhook_concurrent` | Once-only, nothing lost, explained, ordered, under concurrency and crashes? Does the webhook implement the register? | 2 deliveries, 2 events, 2 slots, 2 subscriptions |
| `webhook_live` | Is every attributable event finally acknowledged? Is an acknowledged checkout in force when the checkouts of one slot do not overlap? | 2 deliveries, 2 events, 2 slots, 1 subscription, fair, no faults |
| `webhook_first_race` | violated: an acknowledged checkout is in force, with overlap | 2 deliveries |
| `users_owners` | Does the tenant keep an active owner, and is no update lost, whatever updates run together? | 3 requests, 2 users, 2 roles, every initial table |
| `gate` | Who gets into a handler, for which firm, and whose password may be reset, while accesses, roles, modules and accounts change? | 3 requests in 11 scenarios, 2 firms |
| `crm` | Do links, codes, members and VAT statuses hold when checks, writes and deletions interleave? | 2 requests, 7 sets of rows, 2 firms |
| `web` | Does the screen follow the server, and the header the session, however late answers come? | see 3.6 |
| `web_stale_search` | violated: the list holds what the search box asks for | products page, 3 loads, 1 write |

**Properties.** `GapFreeNumbering` and `UniqueInvoiceNo` are the legal
requirement of `docs/invoicing-spec.md`: the counter and the invoices of a
series always agree, whoever is in the middle of what. `ReferencesLive`: a row
read before the transaction may be deleted before the commit, and the foreign
keys must catch it. `TransmittedOnce`: of two clicks on issue, one wins.
`ImplementsLedger` says all of this as one: seen through `Book`, every
step appends one document, marks one issued or transmitted, or changes nothing.

`AppliedOnce` and `StateIsExplained` tie `processed_webhook_events` to the
entitlements in both directions; `ImplementsRegister` says that seen from the
table a delivery is one step, the effect of its event on the row as it is then;
`UnattributedRefused` says which paid checkouts stay visible as failed: those
without metadata always, those that name something unknown unless a unique key
was in their way; `NeverRegresses` is the ordering guard; `EventuallyAcked` says that no
delivery waits and no event is retried for ever.

`TenantHasOwner` is the rule of `docs/data-model.md` that a tenant is never left
without an active owner, under concurrent demotions; `NoLostUpdate` says that of
two successful updates of one user, one was made in view of the other.

`EntitledSinceArrival`: what was revoked before a request came never lets it in,
whatever its token is worth and whatever rows are left over. What is revoked
between a guard and the handler does; that is the reach of four guards that read
one after the other, and the property says where it ends. `RunsForOwnFirm`: a
token without a firm opens no handler of one. `RolesOfMembers`: of a role of a
module, its holder has an access row. `ResetTouchesOneFirm`: an administrator
resets the password of users who may enter no other firm at that moment.

`LinksLive`, `MembersOfTheFirm`: what was checked in one statement is still so
in the row that another one wrote. `CodesUnique`: also for codes that are taken
and not stored yet. `VatFollowsRegistry`: the status of one answer never meets
the number of another (an update during an outage keeps the status of the old
number, the model marks that row as not confirmed, and the property excepts it).
`TeamReplacedAsSet`: of two replacements that set a column, one leaves its set,
whatever else runs. A replacement without a column takes no lock, and the two
sets may mix: the model has it, and the property says that this is the only way.
`TenantIsolation`: rows change by requests of their own firm, cascades included.

`NeverBackInTime`, `OwnWritesShown`, `SavedIsShown`: late answers of earlier
searches and reloads do not replace later ones, and what the user saved is on
the screen when nothing is under way. `PageShowsRows`: on the pages of the hook
a table is not empty while the list has rows. Except under the tabs leads and
pipeline of the contacts, and there it is false of the code: the hook cuts the
page before the tab picks from it, and the pager counts what the tab picked, so
that ten contacts with a company and then one lead show an empty table with
"next" disabled. `use-list-page.ts` promises it for its own pages only.
`OneSaveAtATime`, `OneDraftPerForm`: a button pressed twice, a dialog closed and
opened again. `HeaderNamesTheFirm`: no name that belongs to an earlier token.

**Fairness.** `FairSpec` (`Fairness` of the webhook) asks strong fairness of the
steps of each running handler, none of the calls that start one. Node runs every
handler on, and PostgreSQL queues the waiters of a lock, so a waiting statement
is not overtaken for ever: strong, because the statement is disabled whenever
another request holds the lock. For the webhook also of the delivery of each
event that is not acknowledged: Stripe retries until it gets a 200. The liveness
runs have no faults, because after a crash the code resumes nothing (for issue,
that is a finding).

**Where transactions do not overlap.** `CreditNotesWithinOriginal` and
`CheckoutReflected` are false of the code (`inv_cap_race`, `webhook_first_race`).
`CapWhereApart` and `CheckoutWhereApart` say that one overlap is the reason, and
nothing else: they state the same of every behaviour in which two credit notes
of *one* original are never both between the check of the cap and the commit
(`CapChecksApart`), or two checkouts of *one* slot never both in a transaction
(`CheckoutsApart`). Each is what one row lock more in the code would give; all
other requests interleave as before, and in the theorems crash as before.
`CheckoutWhereApart` also asks that Stripe gives the checkouts of different slots
subscriptions of their own (`SubscriptionsOwned`), because the code answers a
conflict on that column with 200.

`CHECK_DEADLOCK FALSE` stands where an instance may come to its end: keys,
requests or writes are used up. In `crm` it never does.

**Findings** (quoted in `PROJECT.json`):

1. `inv_cap_race`: two overlapping credit notes together exceed their original,
   though the comment in `createDraftInvoice` and the spec say the check in the
   same transaction prevents it. READ COMMITTED does not.
2. `inv_audit_crash`: a handler that dies after the transition leaves an issued
   invoice that has no transmission status and no audit row, and cannot be
   issued again.
3. `webhook_first_race`: of two concurrent first checkouts, the one that inserts
   second is dropped as stale even when it is the newer one.
4. `web_stale_search`: a dialog that was cancelled while it saves calls, when the
   answer comes, the `reload` of the rendering it was submitted in. With another
   search typed meanwhile, the list of the old text gets the newest number and
   stays.

Seen on the way, part of the models, and listed as hazards without a property:
the document type of a series is read by nothing; a status event that comes
before its checkout is recorded without effect; companies, tasks and notes with
members cannot be deleted; a body of ANAF's that cannot be read fails the save;
pages without the hook take answers in any order; the answer of an issue may
replace a form begun since; a user of several firms gets no page to choose one.

## 5. Proofs

All theorems hold for every value of the constants that satisfies the
assumptions of the module: amounts and times are naturals, `None` (`Nil`,
`Keep`) is none of the keys, `Faults` is a Boolean, the set of roles contains
owner and admin, the requests of `UserAccess` and `Gate` and the users of `Crm`
are finitely many. A mounted page may send at least one load, and its rows are
`1 .. Size`. Nothing else is assumed finite. The bounds of the instances
(`Scenarios`, `Worlds`, `Changes`, `Casts`, `Requests`) are constants too: the
theorems hold for any.

| Theorem | Statement |
|---|---|
| `InvoicingProofs!NumberingInvariant` | `Spec => []NumberingInv` |
| `InvoicingProofs!TypeCorrect` | `Spec => []TypeOK` |
| `InvoicingProofs!GapFree` | `Spec => []GapFreeNumbering` |
| `InvoicingProofs!UniqueNumbers` | `Spec => []UniqueInvoiceNo` |
| `InvoicingDocumentProofs!AtMostOneTransmission` | `Spec => []TransmittedOnce` |
| `InvoicingDocumentProofs!LiveReferences` | `Spec => []ReferencesLive` |
| `InvoicingDocumentProofs!InvoicingInvariant` | `Spec => []InvoicingInv` |
| `InvoicingDocumentProofs!IssueIsLogged` | `Spec => []IssuedIsLogged`, if `Faults = FALSE` |
| `InvoicingDocumentProofs!CapInvariant` | `Spec /\ []CapChecksApart => []CapInv` |
| `InvoicingDocumentProofs!CapKept` | `Spec => CapWhereApart` |
| `InvoicingRefinementProofs!LedgerImplemented` | `Spec => ImplementsLedger` |
| `StripeWebhookProofs!EffectOnce` | `Spec => []AppliedOnce` |
| `StripeWebhookProofs!NoSilentLoss` | `Spec => []UnattributedRefused` |
| `StripeWebhookProofs!Explained` | `Spec => []StateIsExplained` |
| `StripeWebhookProofs!Ordered` | `Spec => NeverRegresses` |
| `StripeWebhookProofs!RegisterImplemented` | `Spec => ImplementsRegister` |
| `StripeWebhookProofs!WebhookInvariant` | `Spec => []WebhookInv` |
| `StripeWebhookProofs!ReflectedInvariant` | `Spec /\ SubscriptionsOwned /\ []CheckoutsApart => []ReflectedInv` |
| `StripeWebhookProofs!CheckoutInForce` | `Spec => CheckoutWhereApart` |
| `UserAccessProofs!UserTypes` | `Spec => []TypeOK` |
| `UserAccessProofs!OwnerRemains` | `Spec => []TenantHasOwner` |
| `UserAccessProofs!UpdatesSeen` | `Spec => []NoLostUpdate` |
| `UserAccessProofs!OwnerInvariant` | `Spec => []OwnerInv` |
| `GateProofs!GateInvariant` | `Spec => []GateInv` |
| `GateProofs!Entitled` | `Spec => []EntitledSinceArrival` |
| `GateProofs!OwnFirm` | `Spec => []RunsForOwnFirm` |
| `GateProofs!MembersHoldRoles` | `Spec => []RolesOfMembers` |
| `GateProofs!ResetsOneFirm` | `Spec => ResetTouchesOneFirm` |
| `CrmProofs!CrmInvariant` | `Spec => []CrmInv` |
| `CrmProofs!LinksStayLive` | `Spec => []LinksLive` |
| `CrmProofs!CodesStayUnique` | `Spec => []CodesUnique` |
| `CrmProofs!MembersBelong` | `Spec => []MembersOfTheFirm` |
| `CrmProofs!VatStatusFollows` | `Spec => []VatFollowsRegistry` |
| `CrmProofs!TeamsReplaced` | `Spec => TeamReplacedAsSet` |
| `CrmProofs!TenantsApart` | `Spec => TenantIsolation` |
| `WebClientProofs!WebClientInvariant` | `Spec => []WebInv` |
| `WebClientProofs!WebClientTyped` | `Spec => []TypeOK` |
| `WebClientProofs!ListNeverBackInTime` | `Spec => NeverBackInTime` |
| `WebClientProofs!OwnWritesAreShown` | `Spec => []OwnWritesShown` |
| `WebClientProofs!SavedFieldIsShown` | `Spec => []SavedIsShown` |
| `WebClientProofs!CurrentPageShowsRows` | `Spec => []PageShowsRows` |
| `WebClientProofs!FormSavesOnce` | `Spec => []OneSaveAtATime` |
| `WebClientProofs!HeaderIsTheFirm` | `Spec => []HeaderNamesTheFirm` |
| `WebClientProofs!FormMakesOneDraft` | `Spec => []OneDraftPerForm` |

Each proof has the same outline: `Init => Inv`, one step per action for
`Inv /\ [Next]_vars => Inv'` with a lemma on the effect of the actions that
change several variables, and a last step by temporal logic. `CrmProofs` first
sorts the thirty actions into a few outcomes (`StepOutcome`): a request moves on,
takes a code, stores, rewrites, locks, commits or removes a row.

**Invoicing.** `GapFreeNumbering` speaks of committed rows only; that the next
commit keeps it depends on what the committing request knows: that its number is
the counter's value. `NumberingInv` adds exactly that. `LockedByAllocator`: from
`AllocateNumber` to `Commit` a request holds its series' lock and its number is
the committed counter. `HolderAllocates`: every lock belongs to such a request.
`KeysReserved`: two requests never prepare the same row. `SeriesFound`: the
series read before the transaction still has the code asked for, if it still
exists, which is what makes `UniqueInvoiceNo` survive delete-and-create-again.
`ReferencesInv` adds that an insert holds what it refers to; `TransmissionInv`
that whoever has won the transition of an invoice and not finished is alone
(`IssuerAlone`). `DraftsUnissued` says that a row in the making is a draft.

**Log and cap.** If no handler dies, whoever issued an invoice that is not
logged is still at it, which `LoggedStep` carries through each action. For the
cap, `CapStillHolds` says of a note between check and commit that the committed
notes and its own amount still fit; only the commit of another note of the same
original could make that false, and `CapChecksApart` excludes it. The sum itself
is a fold over a set of rows. The proof reads it as the number of units of all
notes, pairs of a row and a number up to its amount (`SumIsUnits`, by a least
counterexample over the size of the set), so that adding a row adds its amount
(`SumAfterCommit`). It needs the rows to be finitely many (`RowsFinite`), which
they are: each commit adds one.

**Ledger.** `InvoicingRefinementProofs` reads the books through the rows: each
committed invoice is the document at its number in the book of its code, and
the book holds nothing else (`BookInv`). A commit then appends one draft,
because its number is the committed counter (`LockedByAllocator`) and its row is
a draft (`DraftsUnissued`). Winning the transition (`CasIssues`) and submitting
(`SubmitTransmits`) rewrite one document, deleting a series closes its book,
and every other step leaves all books as they are (`SameBooks`).

**Webhook.** The invariant keeps, for every open transaction, that its id is
recorded by nobody else (`IdsExclusive`), that its row is locked
(`RowsExclusive`) and that the row it is going to write is the effect of its
event on the committed one (`RowsFollowEvents`). What explains a 200 for a
checkout that names something unknown stays true once it is: a row that an
insert met was written by a webhook (`CreatesAfterWebhook`), and a subscription
in a row came with a recorded checkout (`SubsBrought`).

**Register.** A commit writes a row that was computed some steps before. That it
is the effect on the row as it is at the commit follows from `RowsFollowEvents`
and `WrittenSubs`, because the row is locked meanwhile. `SubsUnique` carries the
unique key on the subscription over to rows under way: whoever writes a
subscription has waited for those who were giving it up or taking it
(`WrittenSub`, `KeptSub`). `IdsExclusive` makes the event a new one, and
`CheckoutsWrite` excludes that a checkout is recorded without effect.

**Acknowledged checkouts.** A row that is as new as a checkout stays so, because
only a newer event writes it (`StaysReflected`). What has to be shown is that an
answer is given only then. `AnswersReflected` says so of each way to a 200: an
event that is recorded, a commit, and an insert that fails. The last one is where
the code guesses, and where the two hypotheses enter: between the update that
found nothing and the insert, no other checkout of the slot can have made the row
(`CheckoutsApart`), and no other slot holds the subscription (`NoConflict`, from
`SubsExplained` and `SubscriptionsOwned`).

**Owners.** An update that takes an owner away has counted another one in its
snapshot (`OthersCounted`). If that one is gone at the commit, a transaction took
it away that committed since and counted owners too (`OwnersLostUnseen`).
Neither has seen the other and each has read what the other overwrites, so that
they have no serial order and the later one does not commit (`CountersConflict`,
`NoMutualOverwrite`). The row that is updated is still the one that was read
(`TargetsKnown`, `WrittenLocked`), which also gives `UpdatesSeen`.

**Gate.** `HeldInv`: from the guard on that checks a demand, the demand is in
`held`, because the guard's step is a moment at which it is true. `TokenInv`: a
token names a firm where its user has a row, and access rows are never deleted,
so that a request keeps the firm it came for. The argument of `ResetsOneFirm` is
`ResetInv`: whoever activates another access while a reset runs commits unseen
by it, having read the row of `users` that the reset is going to write (in the
reads that build the answer), while the reset has read the access row that was
written. They have no serial order, and the reset does not commit.

**CRM.** `CrmInv` says what the checks of a request still guarantee when it
writes. That a row was live may be over by then; what stays true is that the id
named was one of the caller's firm and of the right kind (`VettedBy`), because
ids are not reused and rows never change firm, and that access rows are not
deleted. The rest is the foreign key's: the write finds the row live or fails.
`TransactionInv` is about the transaction that replaces members. One that sets a
column owns its row, and neither it nor the rows it links to can be deleted under
it. Two that are on one row at the same time are not both of this kind, and then
know of each other (`beside`); without such a neighbour the members that the
`deleteMany` found are still all that are stored, hence `TeamsReplaced`. `CodesBehind` keeps the counters
ahead of every code, stored or on its way, which is why a failed insert leaves a
gap and not a duplicate.

**Web client.** `LoadsNumbered` and `NewestIsNewer` say what the number of a
request is worth: the load with the last number was sent after the last
acknowledged write and, once served, is not older than what is shown;
`NewestAwaited` adds that it is still coming, has failed, or has been shown. The
properties of the list follow. `UpToDate` is for `SavedIsShown`: whatever
carries the present state of the table agrees with it. `SaveIsKnown` ties the
save under way to the form's flag, also while the dialog is closed, and
`DraftInv` the creation under way to the button of the invoice form.
`PageNotEmpty` counts: with `n` rows on pages of `size`, the last page has one
(`RankTaken`); the tabs can only lower the count of the pager (`FilteredCounted`),
so that no button leads beyond the hook's last page. `SessionInv` says that a tab that is alone keeps names of its own
token only. The actions are sorted first (user, timer, server, others, answers),
and one lemma per kind carries the invariant.

**Only model-checked.** Liveness (`EveryRequestEnds`, `IssuedGetsTransmitted`,
`EventuallyAcked`): fairness and ENABLED are out of the prover's reach. Every
other property of a passing run is a theorem. The properties of the violation
runs are false as the code stands.

## 6. Not modelled

- `web/src/components`: presentation; the dialogs and lists it draws are driven
  by the state that `ListPage` and `NewInvoicePage` have.
- Decimal amounts, the choice of a tax rate at a date: `Invoicing` knows whether
  a line resolves, and one total. Lines are rounded before they are summed, so
  that the total that `issue` compares cannot differ by a rounding.
- Contents of columns nothing compares, wording of errors, logging, formats of
  codes, validation by DTOs beyond what decides a branch.
- Customer portal, platform administration, AI add-on, SAF-T export: they exist
  only as documents. `usage_events` and plan prices have no writer in the code.
- Seed and deployment, except for the roles, modules and first rows the
  initial states of `UserAccess` and `Gate` take from the seed.
