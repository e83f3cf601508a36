------------------------------ MODULE Invoicing ------------------------------
(***************************************************************************)
(* The invoicing engine: InvoicesService and InvoiceSeriesService of one   *)
(* tenant over PostgreSQL at READ COMMITTED.                               *)
(*                                                                         *)
(* A request is a process that runs one HTTP handler.  Each database       *)
(* statement (or autocommitted call) of the handler is one action, so the  *)
(* statements of different requests interleave as the isolation level      *)
(* allows.  The rows below are the COMMITTED rows: what a transaction has  *)
(* written but not yet committed lives in its request's job, and becomes   *)
(* visible in its commit step.  Row locks that outlive a statement are     *)
(* explicit (seriesLock) or derived from the jobs (KeyShared).             *)
(***************************************************************************)
EXTENDS Naturals, FiniteSets, FiniteSetsExt

CONSTANTS
  Requests,     \* handler activations; an idle one may serve the next call
  InvoiceIds,   \* primary keys the database may generate for invoices
  SeriesIds,    \* primary keys the database may generate for series
  Codes,        \* series codes typed by the administrator
  DocTypes,     \* documentType values of a series
  Companies,    \* company rows present at the start
  Products,     \* product rows present at the start
  Amounts,      \* what the lines of a request may add up to
  Faults,       \* may a handler die between two of its steps?
  None          \* SQL NULL, and "no holder" of a lock

ASSUME AmountsAssumption == Amounts \subseteq Nat
ASSUME FaultsAssumption == Faults \in BOOLEAN
ASSUME NoneAssumption ==
  /\ None \notin InvoiceIds
  /\ None \notin SeriesIds
  /\ None \notin Products
  /\ None \notin Requests

VARIABLES
  series,       \* invoice_series: SeriesIds -> row, or why there is none
  seriesLock,   \* holder of the row lock taken by UPDATE invoice_series
  invoices,     \* invoices together with their lines
  audit,        \* invoice_audit_log: number of rows per invoice and action
  submissions,  \* calls of AnafService.submitEInvoice per invoice
  companies,    \* live company rows
  products,     \* live product rows
  job           \* what each request is doing

vars == <<series, seriesLock, invoices, audit, submissions, companies,
          products, job>>

-----------------------------------------------------------------------------
(* Rows *)

UnusedSeries == [state |-> "unused"]     \* this key was never generated
DeletedSeries == [state |-> "deleted"]   \* keys are UUIDs: never reused
SeriesRow == [state: {"live"}, code: Codes, docType: DocTypes,
              nextNumber: Nat \ {0}]

NoInvoice == [status |-> "none"]
InvoiceRow == [status: {"draft", "issued"},
               type: {"Normal", "CreditNote"},
               code: Codes,                  \* invoiceNo is code + number
               number: Nat,
               series: SeriesIds \cup {None},
               company: Companies,
               product: Products \cup {None},
               amount: Amounts,              \* invoiceAmount
               linesTotal: Amounts,              \* sum of lineAmount + taxAmount
               reversed: InvoiceIds \cup {None},
               eInvoice: {None, "pending"}]

(* The steps of a handler that are still ahead; a job without one is idle. *)
BeforeInsert == {"series", "lines", "cap", "number"}
HoldsLock == {"insert", "commit"}
DraftSteps == BeforeInsert \cup HoldsLock
IssueSteps == {"cas", "submit", "finish"}

Idle == [step |-> "idle"]
DraftJob == [step: DraftSteps, id: InvoiceIds, cap: Nat, doc: InvoiceRow]
IssueJob == [step: IssueSteps, id: InvoiceIds]

Exists(i) == invoices[i].status # "none"
Live(s) == series[s].state = "live"
Drafting(r) == job[r].step \in DraftSteps

(* Bound: an id is reserved when its request starts, so that the finite    *)
(* pool never runs out in the middle of a handler.                         *)
FreeIds == {i \in InvoiceIds : /\ ~Exists(i)
                               /\ \A r \in Requests : Drafting(r) => job[r].id # i}

(* PostgreSQL: an inserted row holds FOR KEY SHARE locks on the rows its   *)
(* foreign keys name until its transaction ends.                           *)
KeyShared(field, key) ==
  \E r \in Requests : job[r].step = "commit" /\ job[r].doc[field] = key

Referenced(field, key) == \E i \in InvoiceIds : Exists(i) /\ invoices[i][field] = key

Goto(r, step) == job' = [job EXCEPT ![r].step = step]
Finish(r) == job' = [job EXCEPT ![r] = Idle]
Unlock(r) == seriesLock' = [s \in SeriesIds |->
                              IF seriesLock[s] = r THEN None ELSE seriesLock[s]]

tables == <<series, invoices, audit, submissions, companies, products>>

-----------------------------------------------------------------------------
(* createDraft and createCreditNote: the reads before the transaction *)

(* The bodies that pass the validation.  One line stands for the lines of  *)
(* a document together: at least one, none with a quantity or a price      *)
(* below zero; only what the tables keep and the properties ask for is     *)
(* there.  Whether the codes and the keys name rows is not validated.      *)
CreateInvoiceLineDto == [productId: Products \cup {None}, total: Amounts]
CreateInvoiceDto == [seriesCode: Codes, companyId: Companies,
                     lines: CreateInvoiceLineDto]
CreateCreditNoteDto == [seriesCode: Codes, lines: CreateInvoiceLineDto]

NewDoc(type, code, c, p, a, original) ==
  [status |-> "draft", type |-> type, code |-> code, number |-> 0,
   series |-> None, company |-> c, product |-> p, amount |-> a,
   linesTotal |-> a, reversed |-> original, eInvoice |-> None]

(* createDraft: the company is looked up on its own, before anything else. *)
BeginDraft(r) ==
  /\ job[r] = Idle
  /\ \E i \in FreeIds, dto \in CreateInvoiceDto :
       /\ dto.companyId \in companies
       /\ job' = [job EXCEPT ![r] =
                    [step |-> "series", id |-> i, cap |-> 0,
                     doc |-> NewDoc("Normal", dto.seriesCode, dto.companyId,
                                    dto.lines.productId, dto.lines.total, None)]]
  /\ UNCHANGED <<tables, seriesLock>>

(* createCreditNote: the original must not be a draft; its company and     *)
(* its amount (the cap) are inherited.                                     *)
BeginCreditNote(r) ==
  /\ job[r] = Idle
  /\ \E original \in InvoiceIds :
       /\ Exists(original)
       /\ invoices[original].status # "draft"
       /\ \E i \in FreeIds, dto \in CreateCreditNoteDto :
            job' = [job EXCEPT ![r] =
                      [step |-> "series", id |-> i,
                       cap |-> invoices[original].amount,
                       doc |-> NewDoc("CreditNote", dto.seriesCode,
                                      invoices[original].company,
                                      dto.lines.productId, dto.lines.total,
                                      original)]]
  /\ UNCHANGED <<tables, seriesLock>>

(* createDraftInvoice: the series is found by code, still outside the      *)
(* transaction.                                                            *)
FindSeries(r) ==
  /\ job[r].step = "series"
  /\ \E s \in SeriesIds :
       /\ Live(s)
       /\ series[s].code = job[r].doc.code
       /\ job' = [job EXCEPT ![r].step = "lines", ![r].doc.series = s]
  /\ UNCHANGED <<tables, seriesLock>>

SeriesNotFound(r) ==
  /\ job[r].step = "series"
  /\ ~\E s \in SeriesIds : Live(s) /\ series[s].code = job[r].doc.code
  /\ Finish(r)
  /\ UNCHANGED <<tables, seriesLock>>

-----------------------------------------------------------------------------
(* createDraftInvoice: the transaction, statement by statement *)

(* Whether the lines resolve depends on data left out here: a line finds   *)
(* its rate by a tax code of its own, also when its product is deleted by  *)
(* now, or by the category of its product.                                 *)
ResolveLines(r) ==
  /\ job[r].step = "lines"
  /\ Goto(r, IF job[r].doc.reversed # None THEN "cap" ELSE "number")
  /\ UNCHANGED <<tables, seriesLock>>

(* No product to resolve from, or no rate valid on the date.               *)
RejectLines(r) ==
  /\ job[r].step = "lines"
  /\ Finish(r)
  /\ UNCHANGED <<tables, seriesLock>>

CreditNotesOf(original) ==
  {i \in InvoiceIds : /\ Exists(i)
                      /\ invoices[i].type = "CreditNote"
                      /\ invoices[i].reversed = original}

Credited(original) ==
  MapThenSumSet(LAMBDA i : invoices[i].amount, CreditNotesOf(original))

(* Mutant of CheckCap: the limit is compared with this note alone. *)
CheckCapOfThisNote(r) ==
  /\ job[r].step = "cap"
  /\ job[r].doc.amount <= job[r].cap
  /\ Goto(r, "number")
  /\ UNCHANGED <<tables, seriesLock>>

(* The aggregate reads the committed credit notes; nothing is locked.      *)
CheckCap(r) ==
  /\ job[r].step = "cap"
  /\ Credited(job[r].doc.reversed) + job[r].doc.amount <= job[r].cap
  /\ Goto(r, "number")
  /\ UNCHANGED <<tables, seriesLock>>

RejectCap(r) ==
  /\ job[r].step = "cap"
  /\ Credited(job[r].doc.reversed) + job[r].doc.amount > job[r].cap
  /\ Finish(r)
  /\ UNCHANGED <<tables, seriesLock>>

(* Mutant of AllocateNumber: the number is read without the row's lock. *)
AllocateNumberUnlocked(r) ==
  /\ job[r].step = "number"
  /\ LET s == job[r].doc.series
     IN  /\ Live(s)
         /\ job' = [job EXCEPT ![r].step = "insert",
                               ![r].doc.number = series[s].nextNumber]
  /\ UNCHANGED <<tables, seriesLock>>

(* UPDATE invoice_series SET next_number = next_number + 1 waits for the   *)
(* row lock, then works on the newest committed row; the increment itself  *)
(* becomes visible in Commit.                                              *)
AllocateNumber(r) ==
  /\ job[r].step = "number"
  /\ LET s == job[r].doc.series
     IN  /\ seriesLock[s] = None
         /\ Live(s)
         /\ seriesLock' = [seriesLock EXCEPT ![s] = r]
         /\ job' = [job EXCEPT ![r].step = "insert",
                               ![r].doc.number = series[s].nextNumber]
  /\ UNCHANGED tables

(* The series was deleted after FindSeries: the update finds no row.       *)
SeriesGone(r) ==
  /\ job[r].step = "number"
  /\ ~Live(job[r].doc.series)
  /\ Finish(r)
  /\ UNCHANGED <<tables, seriesLock>>

(* What the foreign keys and the unique key on the number accept.          *)
Insertable(doc) ==
  /\ doc.company \in companies
  /\ doc.product \in products \cup {None}
  /\ ~\E i \in InvoiceIds : /\ Exists(i)
                            /\ invoices[i].series = doc.series
                            /\ invoices[i].number = doc.number

InsertInvoice(r) ==
  /\ job[r].step = "insert"
  /\ Insertable(job[r].doc)
  /\ Goto(r, "commit")
  /\ UNCHANGED <<tables, seriesLock>>

(* The constraint aborts the transaction; its lock and increment go away.  *)
InsertRejected(r) ==
  /\ job[r].step = "insert"
  /\ ~Insertable(job[r].doc)
  /\ Unlock(r)
  /\ Finish(r)
  /\ UNCHANGED tables

(* Mutant of Commit: the lock outlives the transaction. *)
CommitKeepingLock(r) ==
  /\ job[r].step = "commit"
  /\ LET doc == job[r].doc
     IN  /\ series' = [series EXCEPT ![doc.series].nextNumber = @ + 1]
         /\ invoices' = [invoices EXCEPT ![job[r].id] = doc]
         /\ audit' = [audit EXCEPT ![job[r].id].created = @ + 1]
  /\ Finish(r)
  /\ UNCHANGED <<submissions, companies, products, seriesLock>>

(* The audit row is inserted and the transaction commits: the increment,   *)
(* the invoice with its lines and the audit row appear together.           *)
Commit(r) ==
  /\ job[r].step = "commit"
  /\ LET doc == job[r].doc
     IN  /\ series' = [series EXCEPT ![doc.series].nextNumber = @ + 1]
         /\ invoices' = [invoices EXCEPT ![job[r].id] = doc]
         /\ audit' = [audit EXCEPT ![job[r].id].created = @ + 1]
  /\ Unlock(r)
  /\ Finish(r)
  /\ UNCHANGED <<submissions, companies, products>>

-----------------------------------------------------------------------------
(* issue *)

(* Mutant of BeginIssue: transmits before the status transition is won. *)
SubmitBeforeCas(r) ==
  /\ job[r] = Idle
  /\ \E i \in InvoiceIds :
       /\ Exists(i)
       /\ invoices[i].status = "draft"
       /\ submissions' = [submissions EXCEPT ![i] = @ + 1]
       /\ job' = [job EXCEPT ![r] = [step |-> "cas", id |-> i]]
  /\ UNCHANGED <<series, seriesLock, invoices, audit, companies, products>>

BeginIssue(r) ==
  /\ job[r] = Idle
  /\ \E i \in InvoiceIds :
       /\ Exists(i)
       /\ invoices[i].status = "draft"
       /\ invoices[i].linesTotal = invoices[i].amount
       /\ job' = [job EXCEPT ![r] = [step |-> "cas", id |-> i]]
  /\ UNCHANGED <<tables, seriesLock>>

(* Mutant of CasIssue: the status is not part of the WHERE clause. *)
IssueUnconditionally(r) ==
  /\ job[r].step = "cas"
  /\ invoices' = [invoices EXCEPT ![job[r].id].status = "issued"]
  /\ Goto(r, "submit")
  /\ UNCHANGED <<series, seriesLock, audit, submissions, companies, products>>

(* updateMany with status = 'draft' in the WHERE clause, autocommitted.    *)
CasIssue(r) ==
  /\ job[r].step = "cas"
  /\ invoices[job[r].id].status = "draft"
  /\ invoices' = [invoices EXCEPT ![job[r].id].status = "issued"]
  /\ Goto(r, "submit")
  /\ UNCHANGED <<series, seriesLock, audit, submissions, companies, products>>

CasLost(r) ==
  /\ job[r].step = "cas"
  /\ invoices[job[r].id].status # "draft"
  /\ Finish(r)
  /\ UNCHANGED <<tables, seriesLock>>

(* Mutant of Submit: the handler returns without the second transaction. *)
SubmitOnly(r) ==
  /\ job[r].step = "submit"
  /\ submissions' = [submissions EXCEPT ![job[r].id] = @ + 1]
  /\ Finish(r)
  /\ UNCHANGED <<series, seriesLock, invoices, audit, companies, products>>

Submit(r) ==
  /\ job[r].step = "submit"
  /\ submissions' = [submissions EXCEPT ![job[r].id] = @ + 1]
  /\ Goto(r, "finish")
  /\ UNCHANGED <<series, seriesLock, invoices, audit, companies, products>>

(* Mutant of FinishIssue: the e-invoice status is written, the log is not. *)
FinishIssueUnlogged(r) ==
  /\ job[r].step = "finish"
  /\ invoices' = [invoices EXCEPT ![job[r].id].eInvoice = "pending"]
  /\ Finish(r)
  /\ UNCHANGED <<series, seriesLock, audit, submissions, companies, products>>

(* The second transaction of issue; it takes no lock another step awaits.  *)
FinishIssue(r) ==
  /\ job[r].step = "finish"
  /\ invoices' = [invoices EXCEPT ![job[r].id].eInvoice = "pending"]
  /\ audit' = [audit EXCEPT ![job[r].id].issued = @ + 1]
  /\ Finish(r)
  /\ UNCHANGED <<series, seriesLock, submissions, companies, products>>

-----------------------------------------------------------------------------
(* A handler that dies: process crash, lost connection, statement error or *)
(* the 5 s limit of an interactive transaction.  Its open transaction, if  *)
(* any, is rolled back; what it committed before stays.                    *)

(* Mutant of Crash: the lock of the lost connection is never released. *)
CrashKeepingLock(r) ==
  /\ Faults
  /\ job[r] # Idle
  /\ Finish(r)
  /\ UNCHANGED <<tables, seriesLock>>

Crash(r) ==
  /\ Faults
  /\ job[r] # Idle
  /\ Unlock(r)
  /\ Finish(r)
  /\ UNCHANGED tables

-----------------------------------------------------------------------------
(* Single-statement handlers.  A DELETE waits for the locks on its row.    *)

CreateInvoiceSeriesDto == [seriesCode: Codes, documentType: DocTypes]

CreateSeries ==
  /\ \E s \in SeriesIds, dto \in CreateInvoiceSeriesDto :
       /\ series[s] = UnusedSeries
       /\ ~\E t \in SeriesIds : Live(t) /\ series[t].code = dto.seriesCode
       /\ series' = [series EXCEPT ![s] =
                       [state |-> "live", code |-> dto.seriesCode,
                        docType |-> dto.documentType, nextNumber |-> 1]]
  /\ UNCHANGED <<seriesLock, invoices, audit, submissions, companies,
                 products, job>>

(* Mutant of RemoveSeries: the foreign key of the invoices cascades. *)
RemoveUsedSeries(s) ==
  /\ Live(s)
  /\ seriesLock[s] = None
  /\ series' = [series EXCEPT ![s] = DeletedSeries]
  /\ UNCHANGED <<seriesLock, invoices, audit, submissions, companies,
                 products, job>>

RemoveSeries(s) ==
  /\ Live(s)
  /\ seriesLock[s] = None
  /\ ~Referenced("series", s)
  /\ series' = [series EXCEPT ![s] = DeletedSeries]
  /\ UNCHANGED <<seriesLock, invoices, audit, submissions, companies,
                 products, job>>

(* Mutant of RemoveCompany: an uncommitted invoice does not hold it back. *)
RemoveCompanyAtOnce(c) ==
  /\ c \in companies
  /\ ~Referenced("company", c)
  /\ companies' = companies \ {c}
  /\ UNCHANGED <<series, seriesLock, invoices, audit, submissions, products,
                 job>>

RemoveCompany(c) ==
  /\ c \in companies
  /\ ~KeyShared("company", c)
  /\ ~Referenced("company", c)
  /\ companies' = companies \ {c}
  /\ UNCHANGED <<series, seriesLock, invoices, audit, submissions, products,
                 job>>

RemoveProduct(p) ==
  /\ p \in products
  /\ ~KeyShared("product", p)
  /\ ~Referenced("product", p)
  /\ products' = products \ {p}
  /\ UNCHANGED <<series, seriesLock, invoices, audit, submissions, companies,
                 job>>

-----------------------------------------------------------------------------
Init ==
  /\ series = [s \in SeriesIds |-> UnusedSeries]
  /\ seriesLock = [s \in SeriesIds |-> None]
  /\ invoices = [i \in InvoiceIds |-> NoInvoice]
  /\ audit = [i \in InvoiceIds |-> [created |-> 0, issued |-> 0]]
  /\ submissions = [i \in InvoiceIds |-> 0]
  /\ companies = Companies
  /\ products = Products
  /\ job = [r \in Requests |-> Idle]

(* What a handler that has started does next without being killed.         *)
Step(r) ==
  \/ FindSeries(r) \/ SeriesNotFound(r)
  \/ ResolveLines(r) \/ RejectLines(r)
  \/ CheckCap(r) \/ RejectCap(r)
  \/ AllocateNumber(r) \/ SeriesGone(r)
  \/ InsertInvoice(r) \/ InsertRejected(r)
  \/ Commit(r)
  \/ CasIssue(r) \/ CasLost(r)
  \/ Submit(r)
  \/ FinishIssue(r)

Next ==
  \/ \E r \in Requests : \/ BeginDraft(r) \/ BeginCreditNote(r) \/ BeginIssue(r)
                         \/ Step(r)
                         \/ Crash(r)
  \/ CreateSeries
  \/ \E s \in SeriesIds : RemoveSeries(s)
  \/ \E c \in Companies : RemoveCompany(c)
  \/ \E p \in Products : RemoveProduct(p)

Spec == Init /\ [][Next]_vars

(* Node runs every handler on, and PostgreSQL queues the waiters of a row  *)
(* lock, so that a statement whose lock is released again and again gets   *)
(* its turn: strong fairness for the steps of each request, none for the   *)
(* calls that start one.                                                   *)
FairSpec == Spec /\ \A r \in Requests : SF_vars(Step(r))

-----------------------------------------------------------------------------
(* Every row and every job has the shape the code gives it. *)
TypeOK ==
  /\ series \in [SeriesIds -> SeriesRow \cup {UnusedSeries, DeletedSeries}]
  /\ seriesLock \in [SeriesIds -> Requests \cup {None}]
  /\ invoices \in [InvoiceIds -> InvoiceRow \cup {NoInvoice}]
  /\ audit \in [InvoiceIds -> [created: Nat, issued: Nat]]
  /\ submissions \in [InvoiceIds -> Nat]
  /\ companies \subseteq Companies
  /\ products \subseteq Products
  /\ job \in [Requests -> {Idle} \cup DraftJob \cup IssueJob]

NumbersOn(s) ==
  {invoices[i].number : i \in {j \in InvoiceIds : /\ Exists(j)
                                                  /\ invoices[j].series = s}}

(* "Numerotare fara goluri": whatever requests ran at the same time, died  *)
(* or were rolled back, the committed invoices of a series carry exactly   *)
(* the numbers below its counter.                                          *)
GapFreeNumbering ==
  \A s \in SeriesIds : Live(s) => NumbersOn(s) = 1 .. (series[s].nextNumber - 1)

(* No two invoices of the tenant show the same invoiceNo.  The database's  *)
(* unique key includes the series, so a code that is freed and created     *)
(* again would escape it.                                                  *)
UniqueInvoiceNo ==
  \A i, j \in InvoiceIds :
    /\ Exists(i)
    /\ Exists(j)
    /\ <<invoices[i].code, invoices[i].number>> =
         <<invoices[j].code, invoices[j].number>>
    => i = j

(* A committed invoice never points at a deleted row, however long before  *)
(* its commit the row was read; a credit note reverses a document that was *)
(* issued, of the same company.                                            *)
ReferencesLive ==
  \A i \in InvoiceIds : Exists(i) =>
    LET row == invoices[i]
    IN  /\ row.series \in SeriesIds
        /\ Live(row.series)
        /\ series[row.series].code = row.code
        /\ row.company \in companies
        /\ row.product \in products \cup {None}
        /\ row.type = "CreditNote" =>
             /\ row.reversed \in InvoiceIds
             /\ row.reversed # i
             /\ invoices[row.reversed].status = "issued"
             /\ invoices[row.reversed].company = row.company

(* Two clicks on "issue", or a retry, never transmit an invoice twice nor  *)
(* log it twice; nothing is transmitted or logged before it is issued.     *)
TransmittedOnce ==
  \A i \in InvoiceIds :
    /\ audit[i].created = IF Exists(i) THEN 1 ELSE 0
    /\ audit[i].issued <= submissions[i]
    /\ submissions[i] <= IF invoices[i].status = "issued" THEN 1 ELSE 0

(* The credit notes of an invoice together never exceed it: what the       *)
(* comment in createDraftInvoice and docs/invoicing-spec.md promise.       *)
CreditNotesWithinOriginal ==
  \A i \in InvoiceIds : Exists(i) => Credited(i) <= invoices[i].amount

(* Once nobody is working on it, an issued invoice has its transmission    *)
(* status and its mandatory audit row.                                     *)
IssuedIsLogged ==
  \A i \in InvoiceIds :
    /\ invoices[i].status = "issued"
    /\ ~\E r \in Requests : job[r].step \in {"submit", "finish"} /\ job[r].id = i
    => invoices[i].eInvoice = "pending" /\ audit[i].issued = 1

(* No handler waits for ever: every lock it may wait for is given back.    *)
EveryRequestEnds ==
  \A r \in Requests : job[r] # Idle ~> job[r] = Idle

(* An invoice that became immutable reaches the transmission step.         *)
IssuedGetsTransmitted ==
  \A i \in InvoiceIds :
    invoices[i].status = "issued" ~> invoices[i].status = "issued" /\ invoices[i].eInvoice = "pending"

-----------------------------------------------------------------------------
(* The engine implements one append-only book of documents per series.     *)

SeriesOf(code) == CHOOSE s \in SeriesIds : Live(s) /\ series[s].code = code
OpenCodes == {code \in Codes : \E s \in SeriesIds : Live(s) /\ series[s].code = code}

Content(row) == [type |-> row.type, company |-> row.company,
                 product |-> row.product, amount |-> row.amount,
                 reversed |-> row.reversed]

Entry(s, n) ==
  LET i == CHOOSE j \in InvoiceIds : /\ Exists(j)
                                     /\ invoices[j].series = s
                                     /\ invoices[j].number = n
  IN  [content |-> Content(invoices[i]),
       issued |-> invoices[i].status = "issued",
       transmissions |-> submissions[i]]

Book == [code \in Codes |->
           IF code \in OpenCodes
           THEN [n \in 1 .. (series[SeriesOf(code)].nextNumber - 1) |->
                   Entry(SeriesOf(code), n)]
           ELSE <<>>]

Ledger == INSTANCE InvoiceLedger WITH
  Contents <- [type: {"Normal", "CreditNote"}, company: Companies,
               product: Products \cup {None}, amount: Amounts,
               reversed: InvoiceIds \cup {None}],
  open <- OpenCodes,
  book <- Book

(* Every step of the engine is one step of the ledger, or none: a number   *)
(* is entered once and for ever, its content never changes, it is issued   *)
(* and transmitted at most once, and a series in use is never closed.      *)
ImplementsLedger == Ledger!Spec

=============================================================================
