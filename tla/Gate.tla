-------------------------------- MODULE Gate --------------------------------
(***************************************************************************)
(* What happens to a request before and around its handler: the four       *)
(* global guards (src/src/auth, entitlements, rbac), which read the        *)
(* database one after the other, the handlers that hand out tokens, and    *)
(* the ones of UsersController that change what the guards read.           *)
(*                                                                         *)
(* Each query is a step of its own, and the requests run at the same time: *)
(* between the check of one guard and the next, or the handler, an access  *)
(* may be revoked, a role removed, a trial end.  PATCH /users/:id and the  *)
(* reset of a password are SERIALIZABLE transactions over the rows of      *)
(* several firms (see UserAccess for the owners of one firm).              *)
(***************************************************************************)
EXTENDS Naturals, FiniteSets

CONSTANTS
    User, Tenant, Job, Nil,
    Scenarios,   \* bound: which request each job makes, once
    Worlds,      \* bound: the tables there are at first
    Changes      \* bound: what others change meanwhile

VARIABLES
    enabled,      \* users.is_active
    password,     \* users.password_hash: the firm whose administrator set it
    access,       \* user_tenant_access
    moduleRoles,  \* user_module_roles
    entitlement,  \* tenant_modules
    tokens,       \* the tokens that were issued and have not expired
    job,          \* the requests
    held          \* history: what each request was entitled to since it came

tables == <<enabled, password, access, moduleRoles, entitlement>>
vars == <<tables, tokens, job, held>>

ModuleCode == {"crm", "invoicing"}
GlobalRole == {"owner", "admin", "accountant", "operator"}
CrmRole == {"crm:viewer", "crm:agent", "crm:admin"}
InvoicingRole == {"invoicing:viewer", "invoicing:issuer", "invoicing:approver",
                  "invoicing:admin"}
ModuleRole == CrmRole \cup InvoicingRole
Status == {"none", "trial", "ended", "active", "past_due", "canceled"}

Row == [role: GlobalRole, isActive: BOOLEAN]
NoRow == [role |-> Nil, isActive |-> FALSE]
Token == [sub: User, tenant: Tenant \cup {Nil}]

-----------------------------------------------------------------------------
(* The routes and what their decorators require.                           *)

Route(name, module, global, roles) ==
    [name |-> name, public |-> FALSE, preTenant |-> FALSE,
     module |-> module, global |-> global, roles |-> roles]
Writers == {"crm:agent", "crm:admin"}
Issuers == {"invoicing:issuer", "invoicing:admin"}

CompaniesRoutes ==
    {Route("createCompany", "crm", {}, Writers), Route("findCompanies", "crm", {}, CrmRole),
     Route("findCompany", "crm", {}, CrmRole), Route("updateCompany", "crm", {}, Writers),
     Route("removeCompany", "crm", {}, {"crm:admin"})}
ContactsRoutes ==
    {Route("createContact", "crm", {}, Writers), Route("findContacts", "crm", {}, CrmRole),
     Route("findContact", "crm", {}, CrmRole), Route("updateContact", "crm", {}, Writers),
     Route("removeContact", "crm", {}, Writers)}
DealsRoutes ==
    {Route("createDeal", "crm", {}, Writers), Route("findDeals", "crm", {}, CrmRole),
     Route("findDeal", "crm", {}, CrmRole), Route("updateDeal", "crm", {}, Writers),
     Route("removeDeal", "crm", {}, Writers)}
TasksRoutes ==
    {Route("createTask", "crm", {}, Writers), Route("findTasks", "crm", {}, CrmRole),
     Route("findTask", "crm", {}, CrmRole), Route("updateTask", "crm", {}, Writers),
     Route("removeTask", "crm", {}, Writers)}
NotesRoutes ==
    {Route("createNote", "crm", {}, Writers), Route("findNotes", "crm", {}, CrmRole),
     Route("findNote", "crm", {}, CrmRole), Route("updateNote", "crm", {}, Writers),
     Route("removeNote", "crm", {}, Writers)}
ProductsRoutes ==
    {Route("createProduct", "invoicing", {}, Issuers),
     Route("findProducts", "invoicing", {}, InvoicingRole),
     Route("findProduct", "invoicing", {}, InvoicingRole),
     Route("updateProduct", "invoicing", {}, Issuers),
     Route("removeProduct", "invoicing", {}, Issuers)}
InvoicesRoutes ==
    {Route("findInvoices", "invoicing", {}, InvoicingRole),
     Route("findInvoice", "invoicing", {}, InvoicingRole),
     Route("createInvoice", "invoicing", {}, Issuers),
     Route("issueInvoice", "invoicing", {}, Issuers),
     Route("createCreditNote", "invoicing", {}, {"invoicing:approver", "invoicing:admin"})}
SeriesRoutes ==
    {Route("createSeries", "invoicing", {}, {"invoicing:admin"}),
     Route("findSeries", "invoicing", {}, InvoicingRole),
     Route("removeSeries", "invoicing", {}, {"invoicing:admin"})}
UsersRoutes ==
    {Route(name, Nil, {"owner", "admin"}, {}) :
        name \in {"createUser", "findUsers", "findUser", "updateUser", "resetPassword",
                  "listModuleRoles", "assignModuleRole", "revokeModuleRole"}}
AuthRoutes ==
    {[Route("login", Nil, {}, {}) EXCEPT !.public = TRUE],
     [Route("switchTenant", Nil, {}, {}) EXCEPT !.preTenant = TRUE],
     Route("me", Nil, {}, {})}
PublicRoutes ==
    {[Route(name, Nil, {}, {}) EXCEPT !.public = TRUE] : name \in {"getHello", "stripe"}}

Routes == CompaniesRoutes \cup ContactsRoutes \cup DealsRoutes \cup TasksRoutes
          \cup NotesRoutes \cup ProductsRoutes \cup InvoicesRoutes \cup SeriesRoutes
          \cup UsersRoutes \cup AuthRoutes \cup PublicRoutes

(* What a request carries: its route and token, the user, firm, module and *)
(* role it names, the password it gives, the fields of UpdateUserDto.      *)
Call == [route: Routes, token: Token \cup {Nil}, target: User \cup {Nil},
         tenant: Tenant \cup {Nil}, module: ModuleCode \cup {Nil}, role: ModuleRole \cup {Nil},
         password: Tenant \cup {Nil}, newRole: GlobalRole \cup {Nil},
         isActive: BOOLEAN \cup {Nil}, fullName: BOOLEAN]

(* The bodies that pass validation.                                        *)
AssignModuleRoleDto(c) == c.target \in User /\ c.module # Nil /\ c.role # Nil
UpdateUserDto(c) == c.target \in User
ResetPasswordDto(c) == c.target \in User
SwitchTenantDto(c) == c.tenant \in Tenant
LoginDto(c) == c.target \in User /\ c.token = Nil
Valid(c) ==
    CASE c.route.name \in {"assignModuleRole", "revokeModuleRole"} -> AssignModuleRoleDto(c)
      [] c.route.name = "updateUser"      -> UpdateUserDto(c)
      [] c.route.name = "resetPassword"   -> ResetPasswordDto(c)
      [] c.route.name = "listModuleRoles" -> c.target \in User
      [] c.route.name = "switchTenant"    -> SwitchTenantDto(c)
      [] c.route.name = "login"           -> LoginDto(c)
      [] OTHER                            -> TRUE

ASSUME GateConstants ==
    /\ IsFiniteSet(Job)
    /\ Nil \notin User \cup Tenant \cup ModuleCode \cup ModuleRole \cup GlobalRole
    /\ Nil \notin BOOLEAN /\ Nil \notin Token
    /\ Scenarios \subseteq [Job -> Call]
    /\ \A s \in Scenarios : \A j \in Job : Valid(s[j])

(* At first, roles and tokens belong to users who have an access row.      *)
ASSUME WorldsAreSound ==
    \A w \in Worlds :
        /\ w.access \in [User -> [Tenant -> Row \cup {NoRow}]]
        /\ w.moduleRoles \subseteq User \X Tenant \X ModuleCode \X ModuleRole
        /\ w.entitlement \in [Tenant -> [ModuleCode -> Status]]
        /\ w.tokens \subseteq Token
        /\ \A x \in w.moduleRoles : w.access[x[1]][x[2]] # NoRow
        /\ \A k \in w.tokens : k.tenant # Nil => w.access[k.sub][k.tenant] # NoRow

ASSUME ChangesAreKnown ==
    \A x \in Changes :
        \/ x[1] = "status" /\ x[2] \in Tenant /\ x[3] \in ModuleCode /\ x[4] \in Status
        \/ x[1] = "trial" /\ x[2] \in Tenant /\ x[3] \in ModuleCode
        \/ x[1] = "disable" /\ x[2] \in User
        \/ x[1] = "expire"

-----------------------------------------------------------------------------
(* The queries of the guards.                                              *)

(* EntitlementsService.getActive: a trial counts until it ends.            *)
GetActive(t, m) == entitlement[t][m] \in {"active", "trial"}

(* RbacService.getGlobalRole: the role on this firm, of an active account  *)
(* with an active access.                                                  *)
GetGlobalRole(t, u) == IF access[u][t].isActive /\ enabled[u] THEN access[u][t].role ELSE Nil

(* Mutant of HasAnyModuleRole: the access to the firm is not asked for.    *)
HasAnyRoleLeft(t, u, roles) ==
    enabled[u] /\ \E m \in ModuleCode, r \in roles : <<u, t, m, r>> \in moduleRoles

(* RbacService.hasAnyModuleRole: one of the roles, on this firm, whatever  *)
(* module the row names; and the account and the access are active.        *)
HasAnyModuleRole(t, u, roles) ==
    /\ enabled[u] /\ access[u][t].isActive
    /\ \E m \in ModuleCode, r \in roles : <<u, t, m, r>> \in moduleRoles

Firms(u) == {t \in Tenant : access[u][t].isActive}

-----------------------------------------------------------------------------
(* The guards, in the order in which AppModule imports their modules.      *)

At(j, pc) == job[j].pc = pc
Named(j, name) == At(j, "handler") /\ job[j].call.route.name = name
GoTo(j, pc) == job' = [job EXCEPT ![j].pc = pc]
Reply(j, status) == job' = [job EXCEPT ![j].pc = "done", ![j].reply = status]

Arrive(j) ==
    /\ At(j, "waiting")
    /\ job[j].call.token # Nil => job[j].call.token \in tokens
    /\ GoTo(j, "jwt")
    /\ UNCHANGED <<tables, tokens>>

(* Mutant of JwtAuthGuard: a token without a firm opens every route.       *)
JwtAuthGuardAnyToken(j) ==
    LET c == job[j].call
    IN /\ At(j, "jwt")
       /\ IF c.route.public \/ c.token \in tokens THEN GoTo(j, "module") ELSE Reply(j, 401)
       /\ UNCHANGED <<tables, tokens>>

(* verifyAsync: the token was issued and has not expired.                  *)
JwtAuthGuard(j) ==
    LET c == job[j].call
    IN /\ At(j, "jwt")
       /\ IF c.route.public THEN GoTo(j, "module")
          ELSE IF c.token = Nil \/ c.token \notin tokens THEN Reply(j, 401)
          ELSE IF c.token.tenant = Nil /\ ~c.route.preTenant THEN Reply(j, 401)
          ELSE GoTo(j, "module")
       /\ UNCHANGED <<tables, tokens>>

ModuleGuard(j) ==
    LET c == job[j].call
    IN /\ At(j, "module")
       /\ IF c.route.module = Nil THEN GoTo(j, "global")
          ELSE IF GetActive(c.token.tenant, c.route.module) THEN GoTo(j, "global")
          ELSE Reply(j, 403)
       /\ UNCHANGED <<tables, tokens>>

GlobalRoleGuard(j) ==
    LET c == job[j].call
    IN /\ At(j, "global")
       /\ IF c.route.global = {} THEN GoTo(j, "role")
          ELSE IF GetGlobalRole(c.token.tenant, c.token.sub) \in c.route.global
               THEN GoTo(j, "role")
          ELSE Reply(j, 403)
       /\ UNCHANGED <<tables, tokens>>

ModuleRoleGuard(j) ==
    LET c == job[j].call
    IN /\ At(j, "role")
       /\ IF c.route.roles = {} THEN GoTo(j, "handler")
          ELSE IF HasAnyModuleRole(c.token.tenant, c.token.sub, c.route.roles)
               THEN GoTo(j, "handler")
          ELSE Reply(j, 403)
       /\ UNCHANGED <<tables, tokens>>

(* ThrottlerGuard, on the two routes that hand out tokens: too many calls. *)
Throttle(j) ==
    /\ Named(j, "login") \/ Named(j, "switchTenant")
    /\ Reply(j, 429)
    /\ UNCHANGED <<tables, tokens>>

-----------------------------------------------------------------------------
(* AuthController.                                                         *)

Issue(j, u, t) ==
    /\ tokens' = tokens \cup {[sub |-> u, tenant |-> t]}
    /\ Reply(j, 200)

(* login reads the account, compares the password with what it read ..     *)
LoginAccount(j) ==
    LET c == job[j].call
    IN /\ Named(j, "login")
       /\ IF enabled[c.target] /\ password[c.target] = c.password THEN GoTo(j, "firms")
          ELSE Reply(j, 401)
       /\ UNCHANGED <<tables, tokens>>

(* .. and then the firms the user may enter: with a single one, the token  *)
(* is for that firm, with several the user has to choose.                  *)
LoginFirms(j) ==
    LET u == job[j].call.target
    IN /\ At(j, "firms")
       /\ \/ Firms(u) = {} /\ Reply(j, 401) /\ UNCHANGED tokens
          \/ \E t \in Firms(u) : Firms(u) = {t} /\ Issue(j, u, t)
          \/ Cardinality(Firms(u)) > 1 /\ Issue(j, u, Nil)
       /\ UNCHANGED tables

SwitchTenant(j) ==
    LET c == job[j].call
    IN /\ Named(j, "switchTenant")
       /\ IF access[c.token.sub][c.tenant].isActive /\ enabled[c.token.sub]
          THEN Issue(j, c.token.sub, c.tenant)
          ELSE Reply(j, 403) /\ UNCHANGED tokens
       /\ UNCHANGED tables

-----------------------------------------------------------------------------
(* UsersController: roles of modules.                                      *)

(* Mutant of FindOne: the user is looked up in any firm.                   *)
FindAnyOne(j) ==
    /\ Named(j, "assignModuleRole") \/ Named(j, "listModuleRoles")
    /\ GoTo(j, "found")
    /\ UNCHANGED <<tables, tokens>>

(* findOne, before a role is assigned or the roles are listed.             *)
FindOne(j) ==
    LET c == job[j].call
    IN /\ Named(j, "assignModuleRole") \/ Named(j, "listModuleRoles")
       /\ IF access[c.target][c.token.tenant] = NoRow THEN Reply(j, 404)
          ELSE GoTo(j, "found")
       /\ UNCHANGED <<tables, tokens>>

(* The upsert; a module that does not exist is refused by the foreign key. *)
AssignModuleRole(j) ==
    LET c == job[j].call
    IN /\ At(j, "found") /\ c.route.name = "assignModuleRole"
       /\ moduleRoles' = moduleRoles \cup {<<c.target, c.token.tenant, c.module, c.role>>}
       /\ Reply(j, 201)
       /\ UNCHANGED <<enabled, password, access, entitlement, tokens>>

ListModuleRoles(j) ==
    /\ At(j, "found") /\ job[j].call.route.name = "listModuleRoles"
    /\ Reply(j, 200)
    /\ UNCHANGED <<tables, tokens>>

(* deleteMany; nothing is read before.                                     *)
RevokeModuleRole(j) ==
    LET c == job[j].call
        row == <<c.target, c.token.tenant, c.module, c.role>>
    IN /\ Named(j, "revokeModuleRole")
       /\ moduleRoles' = moduleRoles \ {row}
       /\ Reply(j, IF row \in moduleRoles THEN 200 ELSE 404)
       /\ UNCHANGED <<enabled, password, access, entitlement, tokens>>

-----------------------------------------------------------------------------
(* UsersController: the two SERIALIZABLE transactions.                     *)

Promotes(c) == c.newRole = "owner" /\ access[c.target][c.token.tenant].role # "owner"
LosesOwner(c) ==
    /\ access[c.target][c.token.tenant].role = "owner"
    /\ c.newRole \notin {Nil, "owner"} \/ c.isActive = FALSE
OtherActiveOwner(c) ==
    \E u \in User \ {c.target} : access[u][c.token.tenant] = [role |-> "owner", isActive |-> TRUE]
OtherActiveTenants(c) ==
    {t \in Tenant \ {c.token.tenant} : access[c.target][t].isActive}

(* Mutant of UpdateReads: without the reads that build the answer.         *)
UpdateReadsNoAnswer(c) ==
    {<<c.target, c.token.tenant>>}
    \cup (IF Promotes(c) THEN {<<c.token.sub, c.token.tenant>>} ELSE {})
    \cup (IF LosesOwner(c) THEN User \X {c.token.tenant} ELSE {})

(* What a transaction reads and writes: <<user, firm>> is a row of         *)
(* user_tenant_access, <<user, Nil>> a row of users.  The last reads of    *)
(* update, which build its answer, take part.                              *)
UpdateReads(c) ==
    {<<c.target, c.token.tenant>>, <<c.target, Nil>>}
    \cup (IF Promotes(c) THEN {<<c.token.sub, c.token.tenant>>} ELSE {})
    \cup (IF LosesOwner(c) THEN User \X {c.token.tenant} ELSE {})
UpdateWrites(c) ==
    (IF c.newRole # Nil \/ c.isActive # Nil THEN {<<c.target, c.token.tenant>>} ELSE {})
    \cup (IF c.fullName THEN {<<c.target, Nil>>} ELSE {})
ResetReads(c) == {c.target} \X Tenant
ResetWrites(c) == {<<c.target, Nil>>}

Committed == {p \in Job : job[p].committed}
Begin(j, reads, writes) ==
    job' = [job EXCEPT ![j].pc = "write", ![j].reads = reads, ![j].writes = writes,
                       ![j].seen = Committed]

(* update: its reads come first; what it refuses, it refuses on them.      *)
UpdateBegin(j) ==
    LET c == job[j].call
    IN /\ Named(j, "updateUser")
       /\ IF access[c.target][c.token.tenant] = NoRow THEN Reply(j, 404)
          ELSE IF Promotes(c) /\ access[c.token.sub][c.token.tenant].role # "owner"
               THEN Reply(j, 403)
          ELSE IF LosesOwner(c) /\ ~OtherActiveOwner(c) THEN Reply(j, 409)
          ELSE Begin(j, UpdateReads(c), UpdateWrites(c))
       /\ UNCHANGED <<tables, tokens>>

(* resetPassword: only of a user who may enter no other firm.              *)
ResetBegin(j) ==
    LET c == job[j].call
    IN /\ Named(j, "resetPassword")
       /\ IF access[c.target][c.token.tenant] = NoRow THEN Reply(j, 404)
          ELSE IF OtherActiveTenants(c) # {} THEN Reply(j, 403)
          ELSE Begin(j, ResetReads(c), ResetWrites(c))
       /\ UNCHANGED <<tables, tokens>>

(* A statement that writes waits for the row, and fails when the row was   *)
(* changed since the transaction began.                                    *)
Write(j) ==
    /\ At(j, "write")
    /\ \A p \in Job : At(p, "commit") => job[p].writes \cap job[j].writes = {}
    /\ \A p \in Committed \ job[j].seen : job[p].writes \cap job[j].writes = {}
    /\ GoTo(j, "commit")
    /\ UNCHANGED <<tables, tokens>>

(* The committed transactions and j, in some serial order: p comes before  *)
(* q when q has seen what p wrote, or p has not seen what q wrote.         *)
Precedes(p, q) ==
    \/ p \in job[q].seen /\ job[p].writes \cap (job[q].reads \cup job[q].writes) # {}
    \/ q \notin job[p].seen /\ job[p].reads \cap job[q].writes # {}
Serializable(txs) ==
    \E place \in [txs -> 1 .. Cardinality(txs)] :
        \A p, q \in txs : p # q /\ Precedes(p, q) => place[p] < place[q]

Commits(j) ==
    /\ At(j, "commit")
    /\ Serializable(Committed \cup {j})
    /\ job' = [job EXCEPT ![j].pc = "done", ![j].reply = 200, ![j].committed = TRUE]

UpdateCommit(j) ==
    LET c == job[j].call
    IN /\ Commits(j) /\ c.route.name = "updateUser"
       /\ access' = [access EXCEPT ![c.target][c.token.tenant] =
                       [role |-> IF c.newRole = Nil THEN @.role ELSE c.newRole,
                        isActive |-> IF c.isActive = Nil THEN @.isActive ELSE c.isActive]]
       /\ UNCHANGED <<enabled, password, moduleRoles, entitlement, tokens>>

ResetCommit(j) ==
    LET c == job[j].call
    IN /\ Commits(j) /\ c.route.name = "resetPassword"
       /\ password' = [password EXCEPT ![c.target] = c.token.tenant]
       /\ UNCHANGED <<enabled, access, moduleRoles, entitlement, tokens>>

(* P2034, which PostgreSQL may also answer where it need not.              *)
Rollback(j) ==
    /\ At(j, "write") \/ At(j, "commit")
    /\ Reply(j, 409)
    /\ UNCHANGED <<tables, tokens>>

-----------------------------------------------------------------------------
(* Every other handler is the matter of another module (Crm, Invoicing,    *)
(* UserAccess, StripeWebhook), or reads only.                              *)
Elsewhere == {r \in Routes : r.name \notin
    {"login", "switchTenant", "assignModuleRole", "listModuleRoles", "revokeModuleRole",
     "updateUser", "resetPassword"}}
Handle(j) ==
    /\ At(j, "handler") /\ job[j].call.route \in Elsewhere
    /\ Reply(j, 200)
    /\ UNCHANGED <<tables, tokens>>

(* Meanwhile: a payment event or the support sets the status of a module,  *)
(* a trial comes to its end, an account is disabled, a token expires.      *)
SetStatus(t, m, status) ==
    /\ entitlement' = [entitlement EXCEPT ![t][m] = status]
    /\ UNCHANGED <<enabled, password, access, moduleRoles, tokens, job>>
TrialEnds(t, m) ==
    /\ entitlement[t][m] = "trial"
    /\ entitlement' = [entitlement EXCEPT ![t][m] = "ended"]
    /\ UNCHANGED <<enabled, password, access, moduleRoles, tokens, job>>
Disable(u) ==
    /\ enabled' = [enabled EXCEPT ![u] = FALSE]
    /\ UNCHANGED <<password, access, moduleRoles, entitlement, tokens, job>>
Expire(k) ==
    /\ tokens' = tokens \ {k}
    /\ UNCHANGED <<tables, job>>

-----------------------------------------------------------------------------
(* History: the demands of its route that a request has met at some time   *)
(* since it came.  This says what the guards are for, not how they read.   *)

Demands(r) ==
    (IF r.module = Nil THEN {} ELSE {"module"})
    \cup (IF r.global = {} THEN {} ELSE {"global"})
    \cup (IF r.roles = {} THEN {} ELSE {"role"})
Present(c) ==
    c.token # Nil /\ c.token.tenant # Nil /\ enabled[c.token.sub]
    /\ access[c.token.sub][c.token.tenant].isActive
Meets(c, d) ==
    CASE d = "module" -> c.token # Nil /\ c.token.tenant # Nil /\ c.route.module # Nil
                         /\ entitlement[c.token.tenant][c.route.module] \in {"active", "trial"}
      [] d = "global" -> Present(c)
                         /\ access[c.token.sub][c.token.tenant].role \in c.route.global
      [] d = "role"   -> Present(c) /\ \E m \in ModuleCode, r \in c.route.roles :
                             <<c.token.sub, c.token.tenant, m, r>> \in moduleRoles
Met(c) == {d \in {"module", "global", "role"} : Meets(c, d)}
Witness == held' = [j \in Job |-> IF job'[j].pc = "waiting" THEN {}
                                  ELSE held[j] \cup Met(job[j].call)']

-----------------------------------------------------------------------------
Fresh(c) == [pc |-> "waiting", call |-> c, reply |-> 0, reads |-> {}, writes |-> {},
             seen |-> {}, committed |-> FALSE]

Init ==
    /\ \E s \in Scenarios : job = [j \in Job |-> Fresh(s[j])]
    /\ \E w \in Worlds :
         /\ access = w.access /\ moduleRoles = w.moduleRoles
         /\ entitlement = w.entitlement /\ tokens = w.tokens
    /\ enabled = [u \in User |-> TRUE]
    /\ password = [u \in User |-> Nil]
    /\ held = [j \in Job |-> {}]

Step ==
    \/ \E j \in Job :
         \/ Arrive(j) \/ JwtAuthGuard(j) \/ ModuleGuard(j) \/ GlobalRoleGuard(j)
         \/ ModuleRoleGuard(j) \/ Throttle(j)
         \/ LoginAccount(j) \/ LoginFirms(j) \/ SwitchTenant(j)
         \/ FindOne(j) \/ AssignModuleRole(j) \/ ListModuleRoles(j) \/ RevokeModuleRole(j)
         \/ UpdateBegin(j) \/ ResetBegin(j) \/ Write(j) \/ UpdateCommit(j)
         \/ ResetCommit(j) \/ Rollback(j) \/ Handle(j)
    \/ \E x \in Changes :
         \/ x[1] = "status" /\ SetStatus(x[2], x[3], x[4])
         \/ x[1] = "trial" /\ TrialEnds(x[2], x[3])
         \/ x[1] = "disable" /\ Disable(x[2])
         \/ x[1] = "expire" /\ Expire(x[2])

Next == Step /\ Witness
Spec == Init /\ [][Next]_vars

-----------------------------------------------------------------------------
(* Properties.                                                             *)

Pc == {"waiting", "jwt", "module", "global", "role", "handler", "firms", "found", "write",
       "commit", "done"}
Items == User \X (Tenant \cup {Nil})

(* Tables, tokens and requests keep their types.                           *)
TypeOK ==
    /\ enabled \in [User -> BOOLEAN] /\ password \in [User -> Tenant \cup {Nil}]
    /\ access \in [User -> [Tenant -> Row \cup {NoRow}]]
    /\ moduleRoles \subseteq User \X Tenant \X ModuleCode \X ModuleRole
    /\ entitlement \in [Tenant -> [ModuleCode -> Status]]
    /\ tokens \subseteq Token
    /\ job \in [Job -> [pc: Pc, call: Call, reply: {0, 200, 201, 401, 403, 404, 409, 429},
                        reads: SUBSET Items, writes: SUBSET Items, seen: SUBSET Job,
                        committed: BOOLEAN]]
    /\ held \in [Job -> SUBSET {"module", "global", "role"}]

InHandler(j) == job[j].pc \in {"handler", "firms", "found", "write", "commit"}
OfAFirm(r) == ~r.public /\ ~r.preTenant

(* A request whose handler runs was entitled to all its route demands --   *)
(* the module active for the firm, the role, an active account with an     *)
(* active access to the firm -- at some time after it arrived: what was    *)
(* revoked before the request came never lets it in, whatever the age of   *)
(* its token and the rows left behind (RbacService, "citire live").        *)
EntitledSinceArrival ==
    \A j \in Job : InHandler(j) => Demands(job[j].call.route) \subseteq held[j]

(* A handler that works on a firm runs for a firm of which its caller has, *)
(* or had, an access row; a token without a firm opens none of them.       *)
RunsForOwnFirm ==
    \A j \in Job : InHandler(j) /\ OfAFirm(job[j].call.route) =>
        /\ job[j].call.token # Nil /\ job[j].call.token.tenant # Nil
        /\ access[job[j].call.token.sub][job[j].call.token.tenant] # NoRow

(* A role of a module is only held by users who have an access row of the  *)
(* firm it counts for (assignModuleRole looks before it writes).           *)
RolesOfMembers == \A x \in moduleRoles : access[x[1]][x[2]] # NoRow

(* The password of a user is set by the administrator of a firm only when  *)
(* the user may enter no other firm at that moment: an access to another   *)
(* firm that is activated at the same time makes one of the two fail       *)
(* (resetPassword, "TOCTOU").                                              *)
ResetTouchesOneFirm ==
    [][\A u \in User : password'[u] # password[u] =>
          \A t \in Tenant : t # password'[u] => ~access[u][t].isActive /\ ~access'[u][t].isActive]_vars
=============================================================================
