----------------------------- MODULE GateProofs -----------------------------
(***************************************************************************)
(* Gate keeps its invariant, and a reset touches one firm only, for every  *)
(* number of users, firms and requests, whatever the requests ask and      *)
(* whatever changes meanwhile.                                             *)
(***************************************************************************)
EXTENDS GateInductive, FiniteSetTheorems, TLAPS

Replies == {0, 200, 201, 401, 403, 404, 409, 429}
JobType == [pc: Pc, call: Call, reply: Replies, reads: SUBSET Items,
            writes: SUBSET Items, seen: SUBSET Job, committed: BOOLEAN]

-----------------------------------------------------------------------------
(* What the decorators of the routes have in common: only the routes that  *)
(* need no token, or one without a firm, demand nothing of a firm.         *)
LEMMA RouteFacts ==
    ASSUME NEW r \in Routes
    PROVE  /\ r.module \in ModuleCode \cup {Nil}
           /\ r.global \subseteq GlobalRole /\ r.roles \subseteq ModuleRole
           /\ ~OfAFirm(r) => r.module = Nil /\ r.global = {} /\ r.roles = {}
           /\ r.name \in {"updateUser", "resetPassword", "assignModuleRole",
                          "listModuleRoles", "revokeModuleRole"} => OfAFirm(r)
           /\ r.name = "switchTenant" => ~r.public
  <1> DEFINE Good(x) ==
        /\ x.module \in ModuleCode \cup {Nil}
        /\ x.global \subseteq GlobalRole /\ x.roles \subseteq ModuleRole
        /\ ~OfAFirm(x) => x.module = Nil /\ x.global = {} /\ x.roles = {}
        /\ x.name \in {"updateUser", "resetPassword", "assignModuleRole",
                       "listModuleRoles", "revokeModuleRole"} => OfAFirm(x)
        /\ x.name = "switchTenant" => ~x.public
  <1>1. ASSUME NEW name, NEW module \in ModuleCode \cup {Nil},
               NEW global \in SUBSET GlobalRole, NEW roles \in SUBSET ModuleRole
        PROVE  Good(Route(name, module, global, roles))
    BY DEF Route, OfAFirm
  <1>2. /\ Writers \subseteq ModuleRole /\ Issuers \subseteq ModuleRole
        /\ CrmRole \subseteq ModuleRole /\ InvoicingRole \subseteq ModuleRole
        /\ {"crm:admin"} \subseteq ModuleRole /\ {"invoicing:admin"} \subseteq ModuleRole
        /\ {"invoicing:approver", "invoicing:admin"} \subseteq ModuleRole
        /\ {"owner", "admin"} \subseteq GlobalRole
        /\ "crm" \in ModuleCode /\ "invoicing" \in ModuleCode
    BY DEF Writers, Issuers, ModuleRole, CrmRole, InvoicingRole, GlobalRole, ModuleCode
  <1>3. r \in CompaniesRoutes \cup ContactsRoutes \cup DealsRoutes => Good(r)
    <2> HIDE DEF Good
    <2> QED BY <1>1, <1>2 DEF CompaniesRoutes, ContactsRoutes, DealsRoutes
  <1>4. r \in TasksRoutes \cup NotesRoutes => Good(r)
    <2> HIDE DEF Good
    <2> QED BY <1>1, <1>2 DEF TasksRoutes, NotesRoutes
  <1>5. r \in ProductsRoutes \cup InvoicesRoutes \cup SeriesRoutes => Good(r)
    <2> HIDE DEF Good
    <2> QED BY <1>1, <1>2 DEF ProductsRoutes, InvoicesRoutes, SeriesRoutes
  <1>6. r \in UsersRoutes => Good(r)
    <2> HIDE DEF Good
    <2> QED BY <1>1, <1>2 DEF UsersRoutes
  <1>7. r \in AuthRoutes => Good(r)
    BY DEF AuthRoutes, Route, OfAFirm
  <1>8. r \in PublicRoutes => Good(r)
    BY DEF PublicRoutes, Route, OfAFirm
  <1> HIDE DEF Good
  <1>9. Good(r)
    BY <1>3, <1>4, <1>5, <1>6, <1>7, <1>8 DEF Routes
  <1> QED BY <1>9 DEF Good

-----------------------------------------------------------------------------
(* How a step changes its own request, and no other one.                   *)
Kept(j) ==
    /\ job' \in [Job -> JobType]
    /\ \A i \in Job \ {j} : job'[i] = job[i]
    /\ job'[j].call = job[j].call
MovesTo(j, p) ==
    /\ Kept(j)
    /\ job'[j].pc = p
    /\ job'[j].reads = job[j].reads /\ job'[j].writes = job[j].writes
    /\ job'[j].seen = job[j].seen /\ job'[j].committed = job[j].committed

LEMMA GoToEffect ==
    ASSUME job \in [Job -> JobType], NEW j \in Job, NEW p \in Pc, GoTo(j, p)
    PROVE  MovesTo(j, p)
  BY DEF GoTo, MovesTo, Kept, JobType

LEMMA ReplyEffect ==
    ASSUME job \in [Job -> JobType], NEW j \in Job, NEW r \in Replies, Reply(j, r)
    PROVE  MovesTo(j, "done")
  <1>1. job[j] \in JobType OBVIOUS
  <1>2. "done" \in Pc BY DEF Pc
  <1>3. [job[j] EXCEPT !.pc = "done", !.reply = r] \in JobType
    BY <1>1, <1>2 DEF JobType
  <1>4. job' = [job EXCEPT ![j] = [job[j] EXCEPT !.pc = "done", !.reply = r]]
    BY DEF Reply
  <1> QED BY <1>1, <1>3, <1>4 DEF MovesTo, Kept, JobType

LEMMA BeginEffect ==
    ASSUME job \in [Job -> JobType], NEW j \in Job,
           NEW reads \in SUBSET Items, NEW writes \in SUBSET Items,
           Begin(j, reads, writes)
    PROVE  /\ Kept(j) /\ job'[j].pc = "write"
           /\ job'[j].reads = reads /\ job'[j].writes = writes
           /\ job'[j].seen = Committed /\ job'[j].committed = job[j].committed
  <1> DEFINE new == [job[j] EXCEPT !.pc = "write", !.reads = reads, !.writes = writes,
                                   !.seen = Committed]
  <1>1. job[j] \in JobType OBVIOUS
  <1>2. "write" \in Pc BY DEF Pc
  <1>3. Committed \in SUBSET Job BY DEF Committed
  <1>4. /\ new \in JobType /\ new.call = job[j].call /\ new.pc = "write" /\ new.reads = reads
        /\ new.writes = writes /\ new.seen = Committed /\ new.committed = job[j].committed
    BY <1>1, <1>2, <1>3 DEF JobType
  <1>5. job' = [job EXCEPT ![j] = new]
    BY DEF Begin
  <1> HIDE DEF new
  <1> QED BY <1>4, <1>5 DEF Kept

LEMMA CommitsEffect ==
    ASSUME job \in [Job -> JobType], NEW j \in Job, Commits(j)
    PROVE  /\ Kept(j) /\ job[j].pc = "commit" /\ job'[j].pc = "done"
           /\ job'[j].reads = job[j].reads /\ job'[j].writes = job[j].writes
           /\ job'[j].seen = job[j].seen /\ job'[j].committed = TRUE
  <1> DEFINE new == [job[j] EXCEPT !.pc = "done", !.reply = 200, !.committed = TRUE]
  <1>1. job[j] \in JobType OBVIOUS
  <1>2. "done" \in Pc /\ 200 \in Replies BY DEF Pc, Replies
  <1>3. /\ new \in JobType /\ new.call = job[j].call /\ new.pc = "done"
        /\ new.reads = job[j].reads /\ new.writes = job[j].writes
        /\ new.seen = job[j].seen /\ new.committed = TRUE
    BY <1>1, <1>2 DEF JobType
  <1>4. job' = [job EXCEPT ![j] = new] /\ job[j].pc = "commit"
    BY DEF Commits, At
  <1> HIDE DEF new
  <1> QED BY <1>3, <1>4 DEF Kept

-----------------------------------------------------------------------------
(* What is known of a request, by how far it has come.                     *)
RequestInv == TypeOK /\ TokenInv /\ HandlerInv

LEMMA AfterPcs ==
    /\ After("waiting") = {} /\ After("jwt") = {} /\ After("done") = {}
    /\ After("module") = {"jwt"} /\ After("global") = {"jwt", "module"}
    /\ After("role") = {"jwt", "module", "global"}
    /\ \A pc \in {"handler", "firms", "found", "write", "commit"} :
         After(pc) = {"jwt", "module", "global", "role"}
  <1>1. After("waiting") = {} /\ After("jwt") = {} /\ After("done") = {} BY DEF After
  <1>2. After("module") = {"jwt"} BY DEF After
  <1>3. After("global") = {"jwt", "module"} BY DEF After
  <1>4. After("role") = {"jwt", "module", "global"} BY DEF After
  <1>5. \A pc \in {"handler", "firms", "found", "write", "commit"} :
          After(pc) = {"jwt", "module", "global", "role"}
    BY DEF After
  <1> QED BY <1>1, <1>2, <1>3, <1>4, <1>5

LEMMA RequestTypes ==
    ASSUME TypeOK, NEW j \in Job
    PROVE  /\ job \in [Job -> JobType] /\ job[j].pc \in Pc
           /\ job[j].call \in Call /\ job[j].call.route \in Routes
           /\ job[j].call.token \in Token \cup {Nil}
           /\ job[j].call.target \in User \cup {Nil}
           /\ job[j].call.tenant \in Tenant \cup {Nil}
           /\ job[j].call.module \in ModuleCode \cup {Nil}
           /\ job[j].call.role \in ModuleRole \cup {Nil}
           /\ job[j].call.newRole \in GlobalRole \cup {Nil}
           /\ job[j].call.isActive \in BOOLEAN \cup {Nil}
  <1>1. job \in [Job -> JobType] BY DEF TypeOK, JobType, Replies
  <1>2. job[j].pc \in Pc /\ job[j].call \in Call BY <1>1 DEF JobType
  <1> QED BY <1>1, <1>2 DEF Call

(* Past JwtAuthGuard, a route of a firm has a token for a firm.            *)
LEMMA TokenOfFirm ==
    ASSUME TypeOK, TokenInv, NEW j \in Job, "jwt" \in After(job[j].pc),
           OfAFirm(job[j].call.route)
    PROVE  /\ job[j].call.token \in Token /\ job[j].call.token # Nil
           /\ job[j].call.token.sub \in User /\ job[j].call.token.tenant \in Tenant
  <1>1. job[j].call.token # Nil /\ job[j].call.token.tenant # Nil
    BY DEF TokenInv, OfAFirm
  <1>2. job[j].call.token \in Token
    BY <1>1, RequestTypes
  <1> QED BY <1>1, <1>2 DEF Token

(* The users that the bodies of the handlers name.                         *)
LEMMA BodyFacts ==
    ASSUME TypeOK, TokenInv, NEW j \in Job
    PROVE  LET c == job[j].call
           IN /\ c.route.name \in {"assignModuleRole", "revokeModuleRole"} =>
                   c.target \in User /\ c.module \in ModuleCode /\ c.role \in ModuleRole
              /\ c.route.name \in {"updateUser", "resetPassword", "listModuleRoles", "login"} =>
                   c.target \in User
              /\ c.route.name = "switchTenant" => c.tenant \in Tenant
  <1> DEFINE c == job[j].call
  <1>1. Valid(c) BY DEF TokenInv
  <1>2. c.route.name \in {"assignModuleRole", "revokeModuleRole"} => AssignModuleRoleDto(c)
    BY <1>1 DEF Valid
  <1>3. /\ c.route.name = "updateUser" => UpdateUserDto(c)
        /\ c.route.name = "resetPassword" => ResetPasswordDto(c)
        /\ c.route.name = "listModuleRoles" => c.target \in User
        /\ c.route.name = "switchTenant" => SwitchTenantDto(c)
        /\ c.route.name = "login" => LoginDto(c)
    BY <1>1 DEF Valid
  <1> HIDE DEF c
  <1>4. c.module \in ModuleCode \cup {Nil} /\ c.role \in ModuleRole \cup {Nil}
    BY RequestTypes DEF c
  <1>5. c.route.name \in {"assignModuleRole", "revokeModuleRole"} =>
          c.target \in User /\ c.module \in ModuleCode /\ c.role \in ModuleRole
    BY <1>2, <1>4 DEF AssignModuleRoleDto
  <1>6. c.route.name \in {"updateUser", "resetPassword", "listModuleRoles", "login"} =>
          c.target \in User
    BY <1>3 DEF UpdateUserDto, ResetPasswordDto, LoginDto
  <1>7. c.route.name = "switchTenant" => c.tenant \in Tenant
    BY <1>3 DEF SwitchTenantDto
  <1> QED BY <1>5, <1>6, <1>7 DEF c

-----------------------------------------------------------------------------
(* The steps, by what they do to the tables.  Most of them only take their *)
(* request from one point to the next, for the reason given here.          *)
Progress(j, p) ==
    LET c == job[j].call
    IN \/ p = "done"
       \/ /\ job[j].pc = "waiting" /\ p = "jwt"
          /\ c.token # Nil => c.token \in tokens
       \/ /\ job[j].pc = "jwt" /\ p = "module"
          /\ ~c.route.public => c.token # Nil
          /\ OfAFirm(c.route) => c.token.tenant # Nil
       \/ /\ job[j].pc = "module" /\ p = "global"
          /\ c.route.module # Nil => GetActive(c.token.tenant, c.route.module)
       \/ /\ job[j].pc = "global" /\ p = "role"
          /\ c.route.global # {} =>
               GetGlobalRole(c.token.tenant, c.token.sub) \in c.route.global
       \/ /\ job[j].pc = "role" /\ p = "handler"
          /\ c.route.roles # {} => HasAnyModuleRole(c.token.tenant, c.token.sub, c.route.roles)
       \/ job[j].pc = "handler" /\ p = "firms" /\ c.route.name = "login"
       \/ /\ job[j].pc = "handler" /\ p = "found"
          /\ c.route.name \in {"assignModuleRole", "listModuleRoles"}
          /\ access[c.target][c.token.tenant] # NoRow
       \/ job[j].pc = "write" /\ p = "commit"
Quiet(j, p) == MovesTo(j, p) /\ Progress(j, p) /\ UNCHANGED <<tables, tokens>>

Issues(j, u, t) ==
    /\ MovesTo(j, "done") /\ tokens' = tokens \cup {[sub |-> u, tenant |-> t]}
    /\ t # Nil => access[u][t] # NoRow
    /\ UNCHANGED tables

ChangesRoles(j, x) ==
    /\ MovesTo(j, "done") /\ moduleRoles' \subseteq moduleRoles \cup {x}
    /\ access[x[1]][x[2]] # NoRow
    /\ UNCHANGED <<enabled, password, access, entitlement, tokens>>

LosesRole(j) ==
    /\ MovesTo(j, "done") /\ moduleRoles' \subseteq moduleRoles
    /\ UNCHANGED <<enabled, password, access, entitlement, tokens>>

Begins(j, name, reads, writes) ==
    /\ Kept(j) /\ job[j].pc = "handler" /\ job[j].call.route.name = name
    /\ job'[j].pc = "write" /\ job'[j].reads = reads /\ job'[j].writes = writes
    /\ job'[j].seen = Committed /\ job'[j].committed = job[j].committed
    /\ access[job[j].call.target][job[j].call.token.tenant] # NoRow
    /\ UNCHANGED <<tables, tokens>>
BeginsReset(j) ==
    /\ Begins(j, "resetPassword", ResetReads(job[j].call), ResetWrites(job[j].call))
    /\ OtherActiveTenants(job[j].call) = {}

Around ==
    /\ job' = job /\ access' = access /\ moduleRoles' \subseteq moduleRoles
    /\ password' = password /\ tokens' \subseteq tokens
    /\ enabled' \in [User -> BOOLEAN]
    /\ entitlement' \in [Tenant -> [ModuleCode -> Status]]

-----------------------------------------------------------------------------
LEMMA GuardEffects ==
    ASSUME RequestInv, NEW j \in Job,
           \/ Arrive(j) \/ JwtAuthGuard(j) \/ ModuleGuard(j) \/ GlobalRoleGuard(j)
           \/ ModuleRoleGuard(j) \/ Throttle(j) \/ Rollback(j) \/ Handle(j)
    PROVE  \E p \in Pc : Quiet(j, p)
  <1> USE RequestTypes DEF RequestInv, At
  <1> DEFINE c == job[j].call
  <1>0. /\ {"jwt", "module", "global", "role", "handler", "done"} \subseteq Pc
        /\ {200, 401, 403, 409, 429} \subseteq Replies
    BY DEF Pc, Replies
  <1>1. ASSUME NEW r \in Replies, Reply(j, r), UNCHANGED <<tables, tokens>>
        PROVE  Quiet(j, "done")
    BY <1>1, ReplyEffect DEF Quiet, Progress
  <1>2. ASSUME NEW p \in Pc, GoTo(j, p), Progress(j, p), UNCHANGED <<tables, tokens>>
        PROVE  Quiet(j, p)
    BY <1>2, GoToEffect DEF Quiet
  <1>3. CASE Arrive(j)
    BY <1>3, <1>2, <1>0 DEF Arrive, Progress
  <1>4. CASE JwtAuthGuard(j)
    <2> DEFINE passes == \/ c.route.public
                         \/ /\ c.token # Nil /\ c.token \in tokens
                            /\ c.token.tenant # Nil \/ c.route.preTenant
    <2>1. CASE passes
      <3>1. GoTo(j, "module") /\ job[j].pc = "jwt" /\ UNCHANGED <<tables, tokens>>
        BY <2>1, <1>4 DEF JwtAuthGuard
      <3>2. Progress(j, "module")
        BY <2>1, <3>1 DEF Progress, OfAFirm
      <3> QED BY <3>1, <3>2, <1>2, <1>0
    <2>2. CASE ~passes
      <3>1. Reply(j, 401) /\ UNCHANGED <<tables, tokens>>
        BY <2>2, <1>4 DEF JwtAuthGuard
      <3> QED BY <3>1, <1>1, <1>0
    <2> QED BY <2>1, <2>2
  <1>5. CASE ModuleGuard(j)
    <2> DEFINE passes == \/ c.route.module = Nil
                         \/ GetActive(c.token.tenant, c.route.module)
    <2>1. CASE passes
      <3>1. GoTo(j, "global") /\ job[j].pc = "module" /\ UNCHANGED <<tables, tokens>>
        BY <2>1, <1>5 DEF ModuleGuard
      <3>2. Progress(j, "global")
        BY <2>1, <3>1 DEF Progress
      <3> QED BY <3>1, <3>2, <1>2, <1>0
    <2>2. CASE ~passes
      <3>1. Reply(j, 403) /\ UNCHANGED <<tables, tokens>>
        BY <2>2, <1>5 DEF ModuleGuard
      <3> QED BY <3>1, <1>1, <1>0
    <2> QED BY <2>1, <2>2
  <1>6. CASE GlobalRoleGuard(j)
    <2> DEFINE passes == \/ c.route.global = {}
                         \/ GetGlobalRole(c.token.tenant, c.token.sub) \in c.route.global
    <2>1. CASE passes
      <3>1. GoTo(j, "role") /\ job[j].pc = "global" /\ UNCHANGED <<tables, tokens>>
        BY <2>1, <1>6 DEF GlobalRoleGuard
      <3>2. Progress(j, "role")
        BY <2>1, <3>1 DEF Progress
      <3> QED BY <3>1, <3>2, <1>2, <1>0
    <2>2. CASE ~passes
      <3>1. Reply(j, 403) /\ UNCHANGED <<tables, tokens>>
        BY <2>2, <1>6 DEF GlobalRoleGuard
      <3> QED BY <3>1, <1>1, <1>0
    <2> QED BY <2>1, <2>2
  <1>7. CASE ModuleRoleGuard(j)
    <2> DEFINE passes == \/ c.route.roles = {}
                         \/ HasAnyModuleRole(c.token.tenant, c.token.sub, c.route.roles)
    <2>1. CASE passes
      <3>1. GoTo(j, "handler") /\ job[j].pc = "role" /\ UNCHANGED <<tables, tokens>>
        BY <2>1, <1>7 DEF ModuleRoleGuard
      <3>2. Progress(j, "handler")
        BY <2>1, <3>1 DEF Progress
      <3> QED BY <3>1, <3>2, <1>2, <1>0
    <2>2. CASE ~passes
      <3>1. Reply(j, 403) /\ UNCHANGED <<tables, tokens>>
        BY <2>2, <1>7 DEF ModuleRoleGuard
      <3> QED BY <3>1, <1>1, <1>0
    <2> QED BY <2>1, <2>2
  <1>8. CASE Throttle(j) BY <1>8, <1>1, <1>0 DEF Throttle
  <1>9. CASE Rollback(j) BY <1>9, <1>1, <1>0 DEF Rollback
  <1>10. CASE Handle(j) BY <1>10, <1>1, <1>0 DEF Handle
  <1> QED BY <1>3, <1>4, <1>5, <1>6, <1>7, <1>8, <1>9, <1>10

(* Login and the switch of the firm hand out tokens for firms of the user. *)
LEMMA LoginEffects ==
    ASSUME RequestInv, NEW j \in Job,
           LoginAccount(j) \/ LoginFirms(j) \/ SwitchTenant(j)
    PROVE  \/ \E p \in Pc : Quiet(j, p)
           \/ \E u \in User, t \in Tenant \cup {Nil} : Issues(j, u, t)
  <1> USE RequestTypes DEF RequestInv, At
  <1> DEFINE c == job[j].call
  <1>0. "firms" \in Pc /\ "done" \in Pc /\ {200, 401, 403} \subseteq Replies
    BY DEF Pc, Replies
  <1>1. ASSUME NEW r \in Replies, Reply(j, r), UNCHANGED <<tables, tokens>>
        PROVE  Quiet(j, "done")
    BY <1>1, ReplyEffect DEF Quiet, Progress
  <1>2. ASSUME NEW u \in User, NEW t \in Tenant \cup {Nil}, Issue(j, u, t), UNCHANGED tables,
               t # Nil => access[u][t].isActive
        PROVE  Issues(j, u, t)
    BY <1>2, <1>0, ReplyEffect DEF Issues, Issue, NoRow
  <1>3. CASE LoginAccount(j)
    <2> DEFINE passes == enabled[c.target] /\ password[c.target] = c.password
    <2>1. CASE passes
      <3>1. GoTo(j, "firms") /\ Named(j, "login") /\ UNCHANGED <<tables, tokens>>
        BY <2>1, <1>3 DEF LoginAccount
      <3>2. Progress(j, "firms")
        BY <3>1 DEF Progress, Named
      <3> QED BY <3>1, <3>2, <1>0, GoToEffect DEF Quiet
    <2>2. CASE ~passes
      <3>1. Reply(j, 401) /\ UNCHANGED <<tables, tokens>>
        BY <2>2, <1>3 DEF LoginAccount
      <3> QED BY <3>1, <1>1, <1>0
    <2> QED BY <2>1, <2>2
  <1>4. CASE LoginFirms(j)
    <2>1. c.target \in User
      BY <1>4, BodyFacts DEF LoginFirms, HandlerInv
    <2>2. UNCHANGED tables BY <1>4 DEF LoginFirms
    <2>3. CASE Reply(j, 401) /\ UNCHANGED tokens
      BY <2>2, <2>3, <1>1, <1>0
    <2>4. ASSUME NEW t \in Firms(c.target), Issue(j, c.target, t)
          PROVE  Issues(j, c.target, t)
      BY <2>1, <2>2, <2>4, <1>2 DEF Firms
    <2>5. CASE Issue(j, c.target, Nil)
      BY <2>1, <2>2, <2>5, <1>2
    <2>6. Firms(c.target) \subseteq Tenant BY DEF Firms
    <2> QED BY <1>4, <2>1, <2>3, <2>4, <2>5, <2>6, <1>0 DEF LoginFirms
  <1>5. CASE SwitchTenant(j)
    <2>1. c.route.name = "switchTenant" /\ job[j].pc = "handler" /\ UNCHANGED tables
      BY <1>5 DEF SwitchTenant, Named
    <2>2. c.tenant \in Tenant BY <2>1, BodyFacts
    <2>3. c.token \in Token /\ c.token.sub \in User
      <3>1. "jwt" \in After(job[j].pc) BY <2>1, AfterPcs
      <3>2. ~c.route.public BY <2>1, RouteFacts
      <3>3. c.token # Nil BY <3>1, <3>2 DEF TokenInv
      <3>4. c.token \in Token BY <3>3
      <3> QED BY <3>4 DEF Token
    <2> DEFINE passes == access[c.token.sub][c.tenant].isActive /\ enabled[c.token.sub]
    <2>4. CASE passes
      <3>1. Issue(j, c.token.sub, c.tenant)
        BY <2>4, <1>5 DEF SwitchTenant
      <3> QED BY <3>1, <2>1, <2>2, <2>3, <2>4, <1>2
    <2>5. CASE ~passes
      <3>1. Reply(j, 403) /\ UNCHANGED <<tables, tokens>>
        BY <2>5, <2>1, <1>5 DEF SwitchTenant
      <3> QED BY <3>1, <1>1, <1>0
    <2> QED BY <2>4, <2>5
  <1> QED BY <1>3, <1>4, <1>5

(* The roles of modules.                                                   *)
LEMMA RoleEffects ==
    ASSUME RequestInv, NEW j \in Job,
           FindOne(j) \/ AssignModuleRole(j) \/ ListModuleRoles(j) \/ RevokeModuleRole(j)
    PROVE  \/ \E p \in Pc : Quiet(j, p)
           \/ \E x \in User \X Tenant \X ModuleCode \X ModuleRole : ChangesRoles(j, x)
           \/ LosesRole(j)
  <1> USE RequestTypes DEF RequestInv, At
  <1> DEFINE c == job[j].call
  <1>0. "found" \in Pc /\ "done" \in Pc /\ {200, 201, 404} \subseteq Replies
    BY DEF Pc, Replies
  <1>1. ASSUME NEW r \in Replies, Reply(j, r), UNCHANGED <<tables, tokens>>
        PROVE  Quiet(j, "done")
    BY <1>1, ReplyEffect DEF Quiet, Progress
  <1>2. CASE FindOne(j)
    <2> DEFINE found == access[c.target][c.token.tenant] # NoRow
    <2>1. CASE found
      <3>1. /\ GoTo(j, "found") /\ UNCHANGED <<tables, tokens>> /\ job[j].pc = "handler"
            /\ c.route.name \in {"assignModuleRole", "listModuleRoles"}
        BY <2>1, <1>2 DEF FindOne, Named
      <3>2. Progress(j, "found") BY <3>1, <2>1 DEF Progress
      <3> QED BY <3>1, <3>2, <1>0, GoToEffect DEF Quiet
    <2>2. CASE ~found
      <3>1. Reply(j, 404) /\ UNCHANGED <<tables, tokens>>
        BY <2>2, <1>2 DEF FindOne
      <3> QED BY <3>1, <1>1, <1>0
    <2> QED BY <2>1, <2>2
  <1>3. CASE AssignModuleRole(j)
    <2> DEFINE x == <<c.target, c.token.tenant, c.module, c.role>>
    <2>1. /\ job[j].pc = "found" /\ c.route.name = "assignModuleRole" /\ Reply(j, 201)
          /\ moduleRoles' = moduleRoles \cup {x}
          /\ UNCHANGED <<enabled, password, access, entitlement, tokens>>
      BY <1>3 DEF AssignModuleRole
    <2>2. c.target \in User /\ c.module \in ModuleCode /\ c.role \in ModuleRole
      BY <2>1, BodyFacts
    <2>3. c.token.tenant \in Tenant
      <3>1. OfAFirm(c.route) /\ "jwt" \in After(job[j].pc)
        BY <2>1, RouteFacts, AfterPcs
      <3> QED BY <3>1, TokenOfFirm
    <2>4. access[c.target][c.token.tenant] # NoRow BY <2>1 DEF HandlerInv
    <2>5. x \in User \X Tenant \X ModuleCode \X ModuleRole /\ x[1] = c.target /\ x[2] = c.token.tenant
      BY <2>2, <2>3
    <2>6. MovesTo(j, "done") BY <2>1, <1>0, ReplyEffect
    <2> QED BY <2>1, <2>4, <2>5, <2>6 DEF ChangesRoles
  <1>4. CASE ListModuleRoles(j)
    BY <1>4, <1>1, <1>0 DEF ListModuleRoles
  <1>5. CASE RevokeModuleRole(j)
    <2>1. PICK r \in {200, 404} : Reply(j, r) BY <1>5 DEF RevokeModuleRole
    <2>2. MovesTo(j, "done") BY <2>1, <1>0, ReplyEffect
    <2> QED BY <1>5, <2>2 DEF RevokeModuleRole, LosesRole
  <1> QED BY <1>2, <1>3, <1>4, <1>5

(* The beginnings of the two transactions, and the waiting for the row.    *)
LEMMA TransactionEffects ==
    ASSUME RequestInv, NEW j \in Job, UpdateBegin(j) \/ ResetBegin(j) \/ Write(j)
    PROVE  \/ \E p \in Pc : Quiet(j, p)
           \/ Begins(j, "updateUser", UpdateReads(job[j].call), UpdateWrites(job[j].call))
           \/ BeginsReset(j)
  <1> USE RequestTypes DEF RequestInv, At
  <1> DEFINE c == job[j].call
  <1>0. "commit" \in Pc /\ "done" \in Pc /\ {403, 404, 409} \subseteq Replies
    BY DEF Pc, Replies
  <1>1. ASSUME NEW r \in Replies, Reply(j, r), UNCHANGED <<tables, tokens>>
        PROVE  Quiet(j, "done")
    BY <1>1, ReplyEffect DEF Quiet, Progress
  <1>2. ASSUME job[j].pc = "handler", c.route.name \in {"updateUser", "resetPassword"}
        PROVE  /\ c.target \in User /\ c.token.tenant \in Tenant /\ c.token.sub \in User
               /\ UpdateReads(c) \in SUBSET Items /\ UpdateWrites(c) \in SUBSET Items
               /\ ResetReads(c) \in SUBSET Items /\ ResetWrites(c) \in SUBSET Items
    <2>1. c.target \in User BY <1>2, BodyFacts
    <2>2. OfAFirm(c.route) /\ "jwt" \in After(job[j].pc)
      BY <1>2, RouteFacts, AfterPcs
    <2>3. c.token.tenant \in Tenant /\ c.token.sub \in User BY <2>2, TokenOfFirm
    <2>4. UpdateReads(c) \in SUBSET Items BY <2>1, <2>3 DEF UpdateReads, Items
    <2>5. UpdateWrites(c) \in SUBSET Items BY <2>1, <2>3 DEF UpdateWrites, Items
    <2>6. ResetReads(c) \in SUBSET Items /\ ResetWrites(c) \in SUBSET Items
      BY <2>1 DEF ResetReads, ResetWrites, Items
    <2> QED BY <2>1, <2>3, <2>4, <2>5, <2>6
  <1>3. CASE UpdateBegin(j)
    <2>1. job[j].pc = "handler" /\ c.route.name = "updateUser" /\ UNCHANGED <<tables, tokens>>
      BY <1>3 DEF UpdateBegin, Named
    <2>2. CASE \E r \in {403, 404, 409} : Reply(j, r)
      BY <2>1, <2>2, <1>1, <1>0
    <2>3. CASE /\ access[c.target][c.token.tenant] # NoRow
               /\ Begin(j, UpdateReads(c), UpdateWrites(c))
      BY <2>1, <2>3, <1>2, BeginEffect DEF Begins
    <2>4. \/ Reply(j, 404) \/ Reply(j, 403) \/ Reply(j, 409)
          \/ /\ access[c.target][c.token.tenant] # NoRow
             /\ Begin(j, UpdateReads(c), UpdateWrites(c))
      <3>1. CASE access[c.target][c.token.tenant] = NoRow BY <1>3, <3>1 DEF UpdateBegin
      <3>2. CASE access[c.target][c.token.tenant] # NoRow BY <1>3, <3>2, Zenon DEF UpdateBegin
      <3> QED BY <3>1, <3>2
    <2> QED BY <2>2, <2>3, <2>4
  <1>4. CASE ResetBegin(j)
    <2>1. job[j].pc = "handler" /\ c.route.name = "resetPassword" /\ UNCHANGED <<tables, tokens>>
      BY <1>4 DEF ResetBegin, Named
    <2>2. CASE \E r \in {403, 404} : Reply(j, r)
      BY <2>1, <2>2, <1>1, <1>0
    <2>3. CASE /\ access[c.target][c.token.tenant] # NoRow
               /\ OtherActiveTenants(c) = {}
               /\ Begin(j, ResetReads(c), ResetWrites(c))
      BY <2>1, <2>3, <1>2, BeginEffect DEF Begins, BeginsReset
    <2> QED BY <1>4, <2>2, <2>3 DEF ResetBegin
  <1>5. CASE Write(j)
    <2>1. GoTo(j, "commit") /\ job[j].pc = "write" /\ UNCHANGED <<tables, tokens>>
      BY <1>5 DEF Write
    <2>2. Progress(j, "commit") BY <2>1 DEF Progress
    <2> QED BY <2>1, <2>2, <1>0, GoToEffect DEF Quiet
  <1> QED BY <1>3, <1>4, <1>5

(* What others do to the tables.                                           *)
LEMMA AroundEffect ==
    ASSUME TypeOK, NEW x \in Changes,
           \/ x[1] = "status" /\ SetStatus(x[2], x[3], x[4])
           \/ x[1] = "trial" /\ TrialEnds(x[2], x[3])
           \/ x[1] = "disable" /\ Disable(x[2])
           \/ x[1] = "expire" /\ Expire(x[2])
    PROVE  Around
  <1> USE ChangesAreKnown DEF TypeOK, Around, tables
  <1>1. CASE x[1] = "status" /\ SetStatus(x[2], x[3], x[4])
    <2>1. x[2] \in Tenant /\ x[3] \in ModuleCode /\ x[4] \in Status BY <1>1
    <2>2. entitlement' \in [Tenant -> [ModuleCode -> Status]] BY <1>1, <2>1 DEF SetStatus
    <2> QED BY <1>1, <2>2 DEF SetStatus
  <1>2. CASE x[1] = "trial" /\ TrialEnds(x[2], x[3])
    <2>1. x[2] \in Tenant /\ x[3] \in ModuleCode /\ "ended" \in Status BY <1>2 DEF Status
    <2>2. entitlement' \in [Tenant -> [ModuleCode -> Status]] BY <1>2, <2>1 DEF TrialEnds
    <2> QED BY <1>2, <2>2 DEF TrialEnds
  <1>3. CASE x[1] = "disable" /\ Disable(x[2])
    BY <1>3 DEF Disable
  <1>4. CASE x[1] = "expire" /\ Expire(x[2])
    BY <1>4 DEF Expire
  <1> QED BY <1>1, <1>2, <1>3, <1>4

Outcome(j) ==
    \/ \E p \in Pc : Quiet(j, p)
    \/ \E u \in User, t \in Tenant \cup {Nil} : Issues(j, u, t)
    \/ \E x \in User \X Tenant \X ModuleCode \X ModuleRole : ChangesRoles(j, x)
    \/ LosesRole(j)
    \/ Begins(j, "updateUser", UpdateReads(job[j].call), UpdateWrites(job[j].call))
    \/ BeginsReset(j)
    \/ UpdateCommit(j)
    \/ ResetCommit(j)

LEMMA StepOutcome ==
    ASSUME RequestInv, Step
    PROVE  (\E j \in Job : Outcome(j)) \/ Around
  <1>1. ASSUME NEW j \in Job,
               \/ Arrive(j) \/ JwtAuthGuard(j) \/ ModuleGuard(j) \/ GlobalRoleGuard(j)
               \/ ModuleRoleGuard(j) \/ Throttle(j) \/ Rollback(j) \/ Handle(j)
        PROVE  Outcome(j)
    BY <1>1, GuardEffects DEF Outcome
  <1>2. ASSUME NEW j \in Job, LoginAccount(j) \/ LoginFirms(j) \/ SwitchTenant(j)
        PROVE  Outcome(j)
    BY <1>2, LoginEffects DEF Outcome
  <1>3. ASSUME NEW j \in Job,
               FindOne(j) \/ AssignModuleRole(j) \/ ListModuleRoles(j) \/ RevokeModuleRole(j)
        PROVE  Outcome(j)
    BY <1>3, RoleEffects DEF Outcome
  <1>4. ASSUME NEW j \in Job, UpdateBegin(j) \/ ResetBegin(j) \/ Write(j)
        PROVE  Outcome(j)
    BY <1>4, TransactionEffects DEF Outcome
  <1>5. ASSUME NEW j \in Job, UpdateCommit(j) \/ ResetCommit(j)
        PROVE  Outcome(j)
    BY <1>5 DEF Outcome
  <1>6. ASSUME NEW x \in Changes,
               \/ x[1] = "status" /\ SetStatus(x[2], x[3], x[4])
               \/ x[1] = "trial" /\ TrialEnds(x[2], x[3])
               \/ x[1] = "disable" /\ Disable(x[2])
               \/ x[1] = "expire" /\ Expire(x[2])
        PROVE  Around
    BY <1>6, AroundEffect DEF RequestInv
  <1> QED BY <1>1, <1>2, <1>3, <1>4, <1>5, <1>6 DEF Step

(* An update writes one row that was there, and remembers that it did.     *)
LEMMA UpdateCommitEffect ==
    ASSUME RequestInv, NEW j \in Job, UpdateCommit(j)
    PROVE  LET u == job[j].call.target
               t == job[j].call.token.tenant
           IN /\ u \in User /\ t \in Tenant
              /\ access' \in [User -> [Tenant -> Row \cup {NoRow}]]
              /\ access[u][t] # NoRow /\ access'[u][t] # NoRow
              /\ \A v \in User, s \in Tenant :
                   access'[v][s] = access[v][s] \/ (v = u /\ s = t)
              /\ access'[u][t].isActive => access[u][t].isActive \/ <<u, t>> \in job[j].writes
              /\ <<u, Nil>> \in job[j].reads
              /\ UNCHANGED <<enabled, password, moduleRoles, entitlement, tokens>>
  <1> DEFINE c == job[j].call
             u == c.target
             t == c.token.tenant
             new == [role |-> IF c.newRole = Nil THEN access[u][t].role ELSE c.newRole,
                     isActive |-> IF c.isActive = Nil THEN access[u][t].isActive ELSE c.isActive]
  <1>0. TypeOK /\ TokenInv /\ HandlerInv BY DEF RequestInv
  <1>1. /\ job[j].pc = "commit" /\ c.route.name = "updateUser"
        /\ access' = [access EXCEPT ![u][t] = new]
        /\ UNCHANGED <<enabled, password, moduleRoles, entitlement, tokens>>
    BY DEF UpdateCommit, Commits, At
  <1>2. u \in User BY <1>0, <1>1, BodyFacts
  <1>3. t \in Tenant
    <2>1. OfAFirm(c.route) /\ "jwt" \in After(job[j].pc)
      BY <1>0, <1>1, RequestTypes, RouteFacts, AfterPcs
    <2> QED BY <1>0, <2>1, TokenOfFirm
  <1>4. /\ access[u][t] # NoRow /\ <<u, Nil>> \in job[j].reads
        /\ c.newRole # Nil \/ c.isActive # Nil => <<u, t>> \in job[j].writes
    BY <1>0, <1>1 DEF HandlerInv
  <1>5. access \in [User -> [Tenant -> Row \cup {NoRow}]] /\ access[u][t] \in Row
    BY <1>0, <1>2, <1>3, <1>4 DEF TypeOK
  <1>6. c.newRole \in GlobalRole \cup {Nil} /\ c.isActive \in BOOLEAN \cup {Nil}
    BY <1>0, RequestTypes
  <1>7. new \in Row
    BY <1>5, <1>6 DEF Row
  <1>8. new # NoRow
    <2>1. new.role \in GlobalRole BY <1>7 DEF Row
    <2> QED BY <2>1, GateConstants DEF NoRow
  <1>9. new.isActive => access[u][t].isActive \/ c.isActive # Nil
    OBVIOUS
  <1> HIDE DEF new
  <1>10. access'[u][t] = new
    BY <1>1, <1>2, <1>3, <1>5
  <1>11. access' \in [User -> [Tenant -> Row \cup {NoRow}]]
    BY <1>1, <1>2, <1>3, <1>5, <1>7
  <1>12. \A v \in User, s \in Tenant : access'[v][s] = access[v][s] \/ (v = u /\ s = t)
    BY <1>1, <1>2, <1>3, <1>5
  <1> QED BY <1>1, <1>2, <1>3, <1>4, <1>8, <1>9, <1>10, <1>11, <1>12

LEMMA ResetCommitEffect ==
    ASSUME RequestInv, NEW j \in Job, ResetCommit(j)
    PROVE  LET u == job[j].call.target
               t == job[j].call.token.tenant
           IN /\ u \in User /\ t \in Tenant /\ Commits(j)
              /\ job[j].pc = "commit" /\ job[j].call.route.name = "resetPassword"
              /\ password' = [password EXCEPT ![u] = t]
              /\ UNCHANGED <<enabled, access, moduleRoles, entitlement, tokens>>
  <1> DEFINE c == job[j].call
  <1>0. TypeOK /\ TokenInv BY DEF RequestInv
  <1>1. /\ job[j].pc = "commit" /\ c.route.name = "resetPassword" /\ Commits(j)
        /\ password' = [password EXCEPT ![c.target] = c.token.tenant]
        /\ UNCHANGED <<enabled, access, moduleRoles, entitlement, tokens>>
    BY DEF ResetCommit, Commits, At
  <1>2. c.target \in User BY <1>0, <1>1, BodyFacts
  <1>3. c.token.tenant \in Tenant
    <2>1. OfAFirm(c.route) /\ "jwt" \in After(job[j].pc)
      BY <1>0, <1>1, RequestTypes, RouteFacts, AfterPcs
    <2> QED BY <1>0, <2>1, TokenOfFirm
  <1> QED BY <1>1, <1>2, <1>3

(* In every outcome the requests keep their type and their bodies, and no  *)
(* row of access disappears.                                               *)
LEMMA Common ==
    ASSUME RequestInv, NEW j \in Job, Outcome(j)
    PROVE  /\ Kept(j)
           /\ access' \in [User -> [Tenant -> Row \cup {NoRow}]]
           /\ \A u \in User, t \in Tenant : access[u][t] # NoRow => access'[u][t] # NoRow
  <1>0. /\ access \in [User -> [Tenant -> Row \cup {NoRow}]] /\ job \in [Job -> JobType]
    BY RequestTypes DEF RequestInv, TypeOK
  <1>1. CASE UpdateCommit(j)
    <2>1. Kept(j) BY <1>0, <1>1, CommitsEffect DEF UpdateCommit
    <2> QED BY <1>1, <2>1, UpdateCommitEffect
  <1>2. CASE ResetCommit(j)
    <2>1. Kept(j) BY <1>0, <1>2, CommitsEffect DEF ResetCommit
    <2>2. access' = access BY <1>2 DEF ResetCommit
    <2> QED BY <1>0, <2>1, <2>2
  <1>3. CASE ~UpdateCommit(j) /\ ~ResetCommit(j)
    <2>1. Kept(j) /\ access' = access
      BY <1>3 DEF Outcome, Quiet, Issues, ChangesRoles, LosesRole, Begins, BeginsReset,
                  MovesTo, tables
    <2> QED BY <1>0, <2>1
  <1> QED BY <1>1, <1>2, <1>3

(* How a request comes to be where its body matters.                       *)
LEMMA MovesInto ==
    ASSUME RequestInv, NEW j \in Job, Outcome(j), job'[j].pc # "done"
    PROVE  \/ /\ job'[j].pc = "write" /\ job[j].pc = "handler"
              /\ "jwt" \in After(job[j].pc)
           \/ /\ Progress(j, job'[j].pc)
              /\ "jwt" \in After(job'[j].pc) =>
                   \/ "jwt" \in After(job[j].pc)
                   \/ /\ ~job[j].call.route.public => job[j].call.token # Nil
                      /\ OfAFirm(job[j].call.route) => job[j].call.token.tenant # Nil
              /\ \/ job[j].pc \notin {"waiting", "done"}
                 \/ job[j].call.token = Nil \/ job[j].call.token \in tokens
  <1>1. CASE \E p \in Pc : Quiet(j, p)
    <2>1. Progress(j, job'[j].pc) BY <1>1 DEF Quiet, MovesTo
    <2> QED BY <2>1, AfterPcs DEF Progress
  <1>2. CASE \E name, reads, writes : Begins(j, name, reads, writes)
    BY <1>2, AfterPcs DEF Begins
  <1>3. CASE UpdateCommit(j) \/ ResetCommit(j)
    <2>1. job \in [Job -> JobType] BY RequestTypes DEF RequestInv
    <2> QED BY <1>3, <2>1, CommitsEffect DEF UpdateCommit, ResetCommit
  <1> QED BY <1>1, <1>2, <1>3 DEF Outcome, Issues, ChangesRoles, LosesRole, BeginsReset, MovesTo

LEMMA TypeStep ==
    ASSUME RequestInv, Next
    PROVE  TypeOK'
  <1>0. TypeOK BY DEF RequestInv
  <1>1. held' \in [Job -> SUBSET {"module", "global", "role"}]
    <2>1. \A j \in Job : held[j] \subseteq {"module", "global", "role"} BY <1>0 DEF TypeOK
    <2>2. \A j \in Job : Met(job[j].call)' \subseteq {"module", "global", "role"} BY DEF Met
    <2> QED BY <2>1, <2>2 DEF Next, Witness
  <1>2. CASE Around
    BY <1>0, <1>1, <1>2 DEF Around, TypeOK
  <1>3. ASSUME NEW j \in Job, Outcome(j) PROVE TypeOK'
    <2>1. /\ job' \in [Job -> JobType]
          /\ access' \in [User -> [Tenant -> Row \cup {NoRow}]]
      BY <1>3, Common DEF Kept
    <2>2. /\ enabled' = enabled /\ entitlement' = entitlement
          /\ password' \in [User -> Tenant \cup {Nil}]
          /\ moduleRoles' \subseteq User \X Tenant \X ModuleCode \X ModuleRole
          /\ tokens' \subseteq Token
      <3>1. CASE \E p \in Pc : Quiet(j, p)
        BY <1>0, <3>1 DEF Quiet, TypeOK, tables
      <3>2. CASE \E u \in User, t \in Tenant \cup {Nil} : Issues(j, u, t)
        BY <1>0, <3>2 DEF Issues, TypeOK, tables, Token
      <3>3. CASE \E x \in User \X Tenant \X ModuleCode \X ModuleRole : ChangesRoles(j, x)
        <4>1. PICK x \in User \X Tenant \X ModuleCode \X ModuleRole : ChangesRoles(j, x)
          BY <3>3
        <4> QED BY <1>0, <4>1 DEF ChangesRoles, TypeOK
      <3>4. CASE LosesRole(j)
        BY <1>0, <3>4 DEF LosesRole, TypeOK
      <3>5. CASE \E name, reads, writes : Begins(j, name, reads, writes)
        BY <1>0, <3>5 DEF Begins, TypeOK, tables
      <3>6. CASE UpdateCommit(j)
        <4>1. UNCHANGED <<enabled, password, moduleRoles, entitlement, tokens>>
          BY <3>6, UpdateCommitEffect
        <4> QED BY <1>0, <4>1 DEF TypeOK
      <3>7. CASE ResetCommit(j)
        <4>1. UNCHANGED <<enabled, moduleRoles, entitlement, tokens>>
          BY <3>7, ResetCommitEffect
        <4>2. password' \in [User -> Tenant \cup {Nil}]
          BY <1>0, <3>7, ResetCommitEffect DEF TypeOK
        <4> QED BY <1>0, <4>1, <4>2 DEF TypeOK
      <3> QED BY <1>3, <3>1, <3>2, <3>3, <3>4, <3>5, <3>6, <3>7 DEF Outcome, BeginsReset
    <2> QED BY <1>0, <1>1, <2>1, <2>2 DEF TypeOK, JobType, Replies
  <1> QED BY <1>2, <1>3, StepOutcome DEF Next

LEMMA TokenStep ==
    ASSUME RequestInv, Next
    PROVE  TokenInv'
  <1>0. TypeOK /\ TokenInv BY DEF RequestInv
  <1>1. CASE Around
    BY <1>0, <1>1 DEF Around, TokenInv, HasRow
  <1>2. ASSUME NEW j \in Job, Outcome(j) PROVE TokenInv'
    <2>1. ASSUME NEW k \in Token, k.tenant # Nil, access[k.sub][k.tenant] # NoRow
          PROVE  access'[k.sub][k.tenant] # NoRow
      BY <1>2, <2>1, Common DEF Token
    <2>2. \A k \in tokens : k \in Token /\ (k.tenant # Nil => access[k.sub][k.tenant] # NoRow)
      BY <1>0 DEF TokenInv, TypeOK, HasRow
    <2>3. \A k \in tokens' : k.tenant # Nil => access'[k.sub][k.tenant] # NoRow
      <3>1. CASE \E u \in User, t \in Tenant \cup {Nil} : Issues(j, u, t)
        <4>1. PICK u \in User, t \in Tenant \cup {Nil} : Issues(j, u, t) BY <3>1
        <4>2. /\ [sub |-> u, tenant |-> t] \in Token
              /\ t # Nil => access[u][t] # NoRow
              /\ tokens' = tokens \cup {[sub |-> u, tenant |-> t]}
          BY <4>1 DEF Issues, Token
        <4>3. ASSUME NEW k \in tokens', k.tenant # Nil
              PROVE  k \in Token /\ access[k.sub][k.tenant] # NoRow
          BY <2>2, <4>2, <4>3
        <4> QED BY <2>1, <4>3
      <3>2. CASE tokens' = tokens BY <2>1, <2>2, <3>2
      <3> QED BY <1>2, <3>1, <3>2, UpdateCommitEffect, ResetCommitEffect
              DEF Outcome, Quiet, ChangesRoles, LosesRole, Begins, BeginsReset
    <2>4. Kept(j) BY <1>2, Common
    <2>5. \A i \in Job : job'[i].call = job[i].call
      BY <2>4 DEF Kept
    <2>6. \A i \in Job : Valid(job'[i].call)
      BY <1>0, <2>5 DEF TokenInv
    <2>7. \A i \in Job : job[i].call.token \in Token \cup {Nil}
      BY <1>0, RequestTypes
    <2>8. job'[j].pc \notin {"waiting", "done"} =>
            \/ job[j].pc \notin {"waiting", "done"}
            \/ job[j].call.token = Nil \/ job[j].call.token \in tokens
      BY <1>2, <2>4, MovesInto
    <2>9. ASSUME NEW i \in Job, job'[i].pc \notin {"waiting", "done"}, job[i].call.token # Nil,
                 job[i].call.token.tenant # Nil
          PROVE  access'[job[i].call.token.sub][job[i].call.token.tenant] # NoRow
      <3>1. CASE job[i].pc \notin {"waiting", "done"}
        BY <1>0, <2>1, <2>7, <2>9, <3>1 DEF TokenInv, HasRow
      <3>2. CASE job[i].pc \in {"waiting", "done"}
        <4>1. i = j BY <2>4, <2>9, <3>2 DEF Kept
        <4> QED BY <2>1, <2>2, <2>7, <2>8, <2>9, <3>2, <4>1
      <3> QED BY <3>1, <3>2
    <2>10. "jwt" \in After(job'[j].pc) =>
             /\ ~job[j].call.route.public => job[j].call.token # Nil
             /\ OfAFirm(job[j].call.route) => job[j].call.token.tenant # Nil
      BY <1>0, <1>2, MovesInto, AfterPcs DEF TokenInv
    <2>11. \A i \in Job \ {j} : job'[i] = job[i] BY <2>4 DEF Kept
    <2>12. ASSUME NEW i \in Job, "jwt" \in After(job'[i].pc)
           PROVE  /\ ~job[i].call.route.public => job[i].call.token # Nil
                  /\ OfAFirm(job[i].call.route) => job[i].call.token.tenant # Nil
      <3>1. CASE i = j BY <2>10, <2>12, <3>1
      <3>2. CASE i # j BY <1>0, <2>11, <2>12, <3>2 DEF TokenInv
      <3> QED BY <3>1, <3>2
    <2> QED BY <2>3, <2>5, <2>6, <2>9, <2>12 DEF TokenInv, HasRow
  <1> QED BY <1>1, <1>2, StepOutcome DEF Next

LEMMA HandlerStep ==
    ASSUME RequestInv, Next
    PROVE  HandlerInv'
  <1>0. TypeOK /\ HandlerInv /\ job \in [Job -> JobType]
    BY RequestTypes DEF RequestInv, TypeOK, JobType, Replies
  <1>1. CASE Around
    BY <1>0, <1>1 DEF Around, HandlerInv, Committed
  <1>2. ASSUME NEW j \in Job, Outcome(j) PROVE HandlerInv'
    <2>1. /\ Kept(j)
          /\ \A u \in User, t \in Tenant : access[u][t] # NoRow => access'[u][t] # NoRow
      BY <1>2, Common
    <2>2. \A i \in Job \ {j} : job'[i] = job[i] BY <2>1 DEF Kept
    <2>3. \A i \in Job : job'[i].call = job[i].call BY <2>1 DEF Kept
    <2>4. ASSUME NEW i \in Job, job[i].pc \in {"handler", "found", "write", "commit"},
                 job[i].call.route.name \in {"updateUser", "resetPassword", "assignModuleRole",
                                            "listModuleRoles"},
                 access[job[i].call.target][job[i].call.token.tenant] # NoRow
          PROVE  access'[job[i].call.target][job[i].call.token.tenant] # NoRow
      <3>1. OfAFirm(job[i].call.route) /\ "jwt" \in After(job[i].pc)
        BY <1>0, <2>4, RequestTypes, RouteFacts, AfterPcs
      <3>2. job[i].call.token.tenant \in Tenant BY <3>1, TokenOfFirm DEF RequestInv
      <3>3. job[i].call.target \in User BY <2>4, BodyFacts DEF RequestInv
      <3> QED BY <2>1, <2>4, <3>2, <3>3
    <2>5. /\ job[j].committed => job'[j].committed /\ job'[j].pc = "done"
          /\ job'[j].committed => job'[j].pc = "done"
          /\ job'[j].seen \subseteq Committed
      <3>0. /\ job[j].committed => job[j].pc = "done"
            /\ job[j].seen \subseteq Committed
        BY <1>0 DEF HandlerInv
      <3>1. CASE \E p \in Pc : MovesTo(j, p) /\ (p = "done" \/ job[j].pc # "done")
        BY <3>0, <3>1 DEF MovesTo
      <3>2. CASE \E name, reads, writes : Begins(j, name, reads, writes)
        BY <3>0, <3>2 DEF Begins
      <3>3. CASE Commits(j)
        BY <1>0, <3>0, <3>3, CommitsEffect
      <3>4. ASSUME NEW p \in Pc, Quiet(j, p) PROVE p = "done" \/ job[j].pc # "done"
        BY <3>4 DEF Quiet, Progress
      <3>5. "done" \in Pc BY DEF Pc
      <3> QED BY <1>2, <3>1, <3>2, <3>3, <3>4, <3>5
              DEF Outcome, Quiet, Issues, ChangesRoles, LosesRole, BeginsReset,
                  UpdateCommit, ResetCommit
    <2>6. Committed \subseteq Committed' BY <2>2, <2>5 DEF Committed
    <2>7. /\ job'[j].pc = "firms" => job[j].call.route.name = "login"
          /\ job'[j].pc = "found" =>
               /\ job[j].call.route.name \in {"assignModuleRole", "listModuleRoles"}
               /\ access[job[j].call.target][job[j].call.token.tenant] # NoRow
               /\ job[j].pc = "handler"
      BY <1>2, MovesInto DEF Progress
    <2>8. job'[j].pc \in {"write", "commit"} =>
            /\ job[j].pc \in {"handler", "write"}
            /\ \/ /\ job[j].call.route.name = "updateUser"
                  /\ access[job[j].call.target][job[j].call.token.tenant] # NoRow
                  /\ <<job[j].call.target, Nil>> \in job'[j].reads
                  /\ job[j].call.newRole # Nil \/ job[j].call.isActive # Nil =>
                       <<job[j].call.target, job[j].call.token.tenant>> \in job'[j].writes
               \/ /\ job[j].call.route.name = "resetPassword"
                  /\ job'[j].reads = {job[j].call.target} \X Tenant
                  /\ job'[j].writes = {<<job[j].call.target, Nil>>}
      <3>1. CASE \E p \in Pc : Quiet(j, p)
        <4>1. job'[j].pc \in {"write", "commit"} => job[j].pc = "write"
          BY <3>1 DEF Quiet, MovesTo, Progress
        <4>2. job'[j].reads = job[j].reads /\ job'[j].writes = job[j].writes
          BY <3>1 DEF Quiet, MovesTo
        <4> QED BY <1>0, <4>1, <4>2 DEF HandlerInv
      <3>2. CASE Begins(j, "updateUser", UpdateReads(job[j].call), UpdateWrites(job[j].call))
        BY <3>2 DEF Begins, UpdateReads, UpdateWrites
      <3>3. CASE BeginsReset(j)
        BY <3>3 DEF BeginsReset, Begins, ResetReads, ResetWrites
      <3>4. CASE job'[j].pc = "done" BY <3>4
      <3>5. UpdateCommit(j) \/ ResetCommit(j) => job'[j].pc = "done"
        BY <1>0, CommitsEffect DEF UpdateCommit, ResetCommit
      <3> QED BY <1>2, <3>1, <3>2, <3>3, <3>4, <3>5
              DEF Outcome, Issues, ChangesRoles, LosesRole, MovesTo
    <2>9. ASSUME NEW i \in Job
           PROVE  /\ job'[i].pc = "firms" => job'[i].call.route.name = "login"
                  /\ job'[i].pc = "found" =>
                       /\ job'[i].call.route.name \in {"assignModuleRole", "listModuleRoles"}
                       /\ access'[job'[i].call.target][job'[i].call.token.tenant] # NoRow
      <3>1. CASE i = j BY <2>3, <2>4, <2>7, <3>1
      <3>2. CASE i # j BY <1>0, <2>2, <2>3, <2>4, <3>2 DEF HandlerInv
      <3> QED BY <3>1, <3>2
    <2>10. ASSUME NEW i \in Job, job'[i].pc \in {"write", "commit"}
           PROVE  \/ /\ job'[i].call.route.name = "updateUser"
                     /\ access'[job'[i].call.target][job'[i].call.token.tenant] # NoRow
                     /\ <<job'[i].call.target, Nil>> \in job'[i].reads
                     /\ job'[i].call.newRole # Nil \/ job'[i].call.isActive # Nil =>
                          <<job'[i].call.target, job'[i].call.token.tenant>> \in job'[i].writes
                  \/ /\ job'[i].call.route.name = "resetPassword"
                     /\ job'[i].reads = {job'[i].call.target} \X Tenant
                     /\ job'[i].writes = {<<job'[i].call.target, Nil>>}
      <3>1. CASE i = j BY <2>3, <2>4, <2>8, <2>10, <3>1
      <3>2. CASE i # j BY <1>0, <2>2, <2>3, <2>4, <2>10, <3>2 DEF HandlerInv
      <3> QED BY <3>1, <3>2
    <2>11. \A i \in Job : /\ job'[i].committed => job'[i].pc = "done"
                          /\ job'[i].seen \subseteq Committed'
      <3>1. \A i \in Job \ {j} : /\ job'[i].committed => job'[i].pc = "done"
                                 /\ job'[i].seen \subseteq Committed
        BY <1>0, <2>2 DEF HandlerInv
      <3> QED BY <2>5, <2>6, <3>1
    <2> QED BY <2>9, <2>10, <2>11 DEF HandlerInv
  <1> QED BY <1>1, <1>2, StepOutcome DEF Next

(* What a guard lets pass has met the demand the guard is there for.       *)
LEMMA GuardMeets ==
    ASSUME RequestInv, NEW j \in Job, NEW p \in {"global", "role", "handler"}, Progress(j, p)
    PROVE  LET c == job[j].call
           IN /\ job[j].pc = "module" /\ p = "global" /\ "module" \in Demands(c.route)
                   => "module" \in Met(c)
              /\ job[j].pc = "global" /\ p = "role" /\ "global" \in Demands(c.route)
                   => "global" \in Met(c)
              /\ job[j].pc = "role" /\ p = "handler" /\ "role" \in Demands(c.route)
                   => "role" \in Met(c)
  <1> DEFINE c == job[j].call
  <1>0. TypeOK /\ TokenInv BY DEF RequestInv
  <1>1. ASSUME job[j].pc \in {"module", "global", "role"}, Demands(c.route) # {}
        PROVE  /\ c.token # Nil /\ c.token.sub \in User /\ c.token.tenant \in Tenant
               /\ c.token.tenant # Nil
    <2>1. "jwt" \in After(job[j].pc) BY <1>1, AfterPcs
    <2>2. OfAFirm(c.route) BY <1>0, <1>1, RequestTypes, RouteFacts DEF Demands
    <2> QED BY <1>0, <2>1, <2>2, TokenOfFirm, GateConstants
  <1>2. CASE job[j].pc = "module" /\ p = "global" /\ "module" \in Demands(c.route)
    <2>1. c.route.module # Nil BY <1>2 DEF Demands
    <2>2. GetActive(c.token.tenant, c.route.module) BY <1>2, <2>1 DEF Progress
    <2>3. Meets(c, "module") BY <1>1, <1>2, <2>1, <2>2 DEF Meets, GetActive
    <2> QED BY <1>2, <2>3 DEF Met
  <1>3. CASE job[j].pc = "global" /\ p = "role" /\ "global" \in Demands(c.route)
    <2>1. c.route.global # {} BY <1>3 DEF Demands
    <2>2. GetGlobalRole(c.token.tenant, c.token.sub) \in c.route.global
      BY <1>3, <2>1 DEF Progress
    <2>3. Nil \notin c.route.global
      BY <1>0, RequestTypes, RouteFacts, GateConstants
    <2>4. /\ access[c.token.sub][c.token.tenant].isActive /\ enabled[c.token.sub]
          /\ access[c.token.sub][c.token.tenant].role \in c.route.global
      BY <2>2, <2>3 DEF GetGlobalRole
    <2>5. Present(c) BY <1>1, <1>3, <2>4 DEF Present
    <2>6. Meets(c, "global") BY <2>4, <2>5 DEF Meets
    <2> QED BY <1>3, <2>6 DEF Met
  <1>4. CASE job[j].pc = "role" /\ p = "handler" /\ "role" \in Demands(c.route)
    <2>1. c.route.roles # {} BY <1>4 DEF Demands
    <2>2. HasAnyModuleRole(c.token.tenant, c.token.sub, c.route.roles)
      BY <1>4, <2>1 DEF Progress
    <2>3. Present(c) BY <1>1, <1>4, <2>2 DEF Present, HasAnyModuleRole
    <2>4. \E m \in ModuleCode, r \in c.route.roles :
            <<c.token.sub, c.token.tenant, m, r>> \in moduleRoles
      BY <2>2 DEF HasAnyModuleRole
    <2>5. Meets(c, "role") BY <2>3, <2>4 DEF Meets
    <2> QED BY <1>4, <2>5 DEF Met
  <1> QED BY <1>2, <1>3, <1>4

LEMMA HeldStep ==
    ASSUME RequestInv, HeldInv, Next
    PROVE  HeldInv'
  <1>1. ASSUME NEW i \in Job, job'[i].pc # "waiting"
        PROVE  Met(job[i].call)' \subseteq held'[i] /\ held[i] \subseteq held'[i]
    BY <1>1 DEF Next, Witness
  <1>2. ASSUME NEW i \in Job, job'[i].call = job[i].call,
               Demands(job[i].call.route) \cap After(job'[i].pc) \subseteq held[i]
        PROVE  Demands(job'[i].call.route) \cap After(job'[i].pc) \subseteq held'[i]
    BY <1>1, <1>2, AfterPcs
  <1>3. ASSUME NEW i \in Job, job'[i] = job[i]
        PROVE  Demands(job'[i].call.route) \cap After(job'[i].pc) \subseteq held'[i]
    BY <1>2, <1>3 DEF HeldInv
  <1>4. CASE Around
    BY <1>1, <1>3, <1>4 DEF Around, HeldInv
  <1>5. ASSUME NEW j \in Job, Outcome(j) PROVE HeldInv'
    <2>1. Kept(j) BY <1>5, Common
    <2>2. Demands(job[j].call.route) \cap After(job'[j].pc) \subseteq held[j]
      <3>0. /\ job[j].pc # "waiting" => Met(job[j].call) \subseteq held[j]
            /\ Demands(job[j].call.route) \cap After(job[j].pc) \subseteq held[j]
            /\ Demands(job[j].call.route) \subseteq {"module", "global", "role"}
        BY DEF HeldInv, Demands
      <3>1. CASE job'[j].pc = "done" BY <3>1, AfterPcs
      <3>2. CASE job'[j].pc = "write" /\ job[j].pc = "handler"
        BY <3>0, <3>2, AfterPcs
      <3>3. CASE Progress(j, job'[j].pc) /\ job'[j].pc # "done"
        <4>1. CASE job[j].pc \in {"waiting", "jwt"}
          BY <3>0, <3>3, <4>1, AfterPcs DEF Progress
        <4>2. CASE job[j].pc = "module"
          <5>1. job'[j].pc = "global" BY <3>3, <4>2 DEF Progress
          <5>2. "module" \in Demands(job[j].call.route) => "module" \in Met(job[j].call)
            BY <3>3, <4>2, <5>1, GuardMeets
          <5> QED BY <3>0, <4>2, <5>1, <5>2, AfterPcs
        <4>3. CASE job[j].pc = "global"
          <5>1. job'[j].pc = "role" BY <3>3, <4>3 DEF Progress
          <5>2. "global" \in Demands(job[j].call.route) => "global" \in Met(job[j].call)
            BY <3>3, <4>3, <5>1, GuardMeets
          <5> QED BY <3>0, <4>3, <5>1, <5>2, AfterPcs
        <4>4. CASE job[j].pc = "role"
          <5>1. job'[j].pc = "handler" BY <3>3, <4>4 DEF Progress
          <5>2. "role" \in Demands(job[j].call.route) => "role" \in Met(job[j].call)
            BY <3>3, <4>4, <5>1, GuardMeets
          <5> QED BY <3>0, <4>4, <5>1, <5>2, AfterPcs
        <4>5. CASE job[j].pc \in {"handler", "write"}
          <5>1. job'[j].pc \in {"firms", "found", "commit"} BY <3>3, <4>5 DEF Progress
          <5> QED BY <3>0, <4>5, <5>1, AfterPcs
        <4> QED BY <3>3, <4>1, <4>2, <4>3, <4>4, <4>5 DEF Progress
      <3> QED BY <1>5, <3>1, <3>2, <3>3, MovesInto
    <2>3. job'[j].call = job[j].call /\ \A i \in Job \ {j} : job'[i] = job[i]
      BY <2>1 DEF Kept
    <2>4. \A i \in Job :
            Demands(job'[i].call.route) \cap After(job'[i].pc) \subseteq held'[i]
      BY <1>2, <1>3, <2>2, <2>3
    <2> QED BY <1>1, <2>4 DEF HeldInv
  <1> QED BY <1>4, <1>5, StepOutcome DEF Next

LEMMA RolesStep ==
    ASSUME RequestInv, RolesOfMembers, Next
    PROVE  RolesOfMembers'
  <1>0. moduleRoles \subseteq User \X Tenant \X ModuleCode \X ModuleRole
    BY DEF RequestInv, TypeOK
  <1>1. CASE Around
    BY <1>1 DEF Around, RolesOfMembers
  <1>2. ASSUME NEW j \in Job, Outcome(j) PROVE RolesOfMembers'
    <2>1. \A u \in User, t \in Tenant : access[u][t] # NoRow => access'[u][t] # NoRow
      BY <1>2, Common
    <2>2. ASSUME NEW y \in moduleRoles PROVE access'[y[1]][y[2]] # NoRow
      <3>1. y[1] \in User /\ y[2] \in Tenant BY <1>0
      <3> QED BY <2>1, <3>1 DEF RolesOfMembers
    <2>3. CASE moduleRoles' \subseteq moduleRoles
      BY <2>2, <2>3 DEF RolesOfMembers
    <2>4. ASSUME NEW x \in User \X Tenant \X ModuleCode \X ModuleRole, ChangesRoles(j, x)
          PROVE  RolesOfMembers'
      BY <2>2, <2>4 DEF ChangesRoles, RolesOfMembers
    <2>5. UpdateCommit(j) \/ ResetCommit(j) => moduleRoles' = moduleRoles
      BY DEF UpdateCommit, ResetCommit
    <2> QED BY <1>2, <2>3, <2>4, <2>5
            DEF Outcome, Quiet, Issues, LosesRole, Begins, BeginsReset, tables
  <1> QED BY <1>1, <1>2, StepOutcome DEF Next

-----------------------------------------------------------------------------
(* A transaction that has committed stays as it is.                        *)
LEMMA CommittedStay ==
    ASSUME RequestInv, NEW j \in Job, Outcome(j), NEW p \in Committed
    PROVE  /\ p \in Committed'
           /\ job'[p].reads = job[p].reads /\ job'[p].writes = job[p].writes
  <1>0. TypeOK /\ HandlerInv /\ job \in [Job -> JobType]
    BY RequestTypes DEF RequestInv, TypeOK, JobType, Replies
  <1>1. p \in Job /\ job[p].committed /\ job[p].pc = "done"
    BY <1>0 DEF Committed, HandlerInv
  <1>2. CASE p # j BY <1>1, <1>2, Common DEF Kept, Committed
  <1>3. CASE p = j
    <2>1. ~UpdateCommit(j) /\ ~ResetCommit(j)
      BY <1>1, <1>3 DEF UpdateCommit, ResetCommit, Commits, At
    <2>2. \E q \in Pc : MovesTo(j, q)
      <3>1. "done" \in Pc BY DEF Pc
      <3> QED BY <1>1, <1>3, <2>1, <3>1
              DEF Outcome, Quiet, Issues, ChangesRoles, LosesRole, Begins, BeginsReset
    <2> QED BY <1>1, <1>3, <2>2 DEF MovesTo, Committed
  <1> QED BY <1>2, <1>3

LEMMA ResetStep ==
    ASSUME RequestInv, ResetInv, Next
    PROVE  ResetInv'
  <1>0. TypeOK /\ HandlerInv /\ job \in [Job -> JobType]
    BY RequestTypes DEF RequestInv, TypeOK, JobType, Replies
  <1>1. CASE Around
    BY <1>1 DEF Around, ResetInv, Committed
  <1>2. ASSUME NEW i \in Job, Outcome(i) PROVE ResetInv'
    <2> SUFFICES ASSUME NEW j \in Job, NEW t \in Tenant,
                        job'[j].pc \in {"write", "commit"},
                        job'[j].call.route.name = "resetPassword",
                        t # job'[j].call.token.tenant, access'[job'[j].call.target][t].isActive
                 PROVE  \E p \in Committed' \ job'[j].seen :
                          /\ <<job'[j].call.target, t>> \in job'[p].writes
                          /\ <<job'[j].call.target, Nil>> \in job'[p].reads
      BY DEF ResetInv
    <2>1. job'[j].call = job[j].call BY <1>2, Common DEF Kept
    <2> DEFINE u == job[j].call.target
    <2>2. u \in User
      BY <1>0, <2>1, BodyFacts DEF RequestInv
    <2>3. CASE BeginsReset(i) /\ i = j
      <3>1. access' = access /\ OtherActiveTenants(job[j].call) = {}
        BY <2>3 DEF BeginsReset, Begins, tables
      <3>2. ~access[u][t].isActive BY <2>1, <3>1 DEF OtherActiveTenants
      <3> QED BY <2>1, <3>1, <3>2
    <2>4. CASE ~(BeginsReset(i) /\ i = j)
      <3>1. /\ job[j].pc \in {"write", "commit"} /\ job'[j].seen = job[j].seen
            /\ UpdateCommit(i) \/ ResetCommit(i) => i # j
        <4>1. CASE i # j
          BY <1>2, <4>1, Common DEF Kept
        <4>2. CASE i = j
          <5>1. ~UpdateCommit(i) /\ ~ResetCommit(i)
            BY <1>0, <4>2, CommitsEffect DEF UpdateCommit, ResetCommit
          <5>2. ~Begins(i, "updateUser", UpdateReads(job[i].call), UpdateWrites(job[i].call))
            BY <2>1, <4>2 DEF Begins
          <5>3. ASSUME NEW p \in Pc, Quiet(i, p)
                PROVE  job[j].pc \in {"write", "commit"} /\ job'[j].seen = job[j].seen
            BY <4>2, <5>3 DEF Quiet, MovesTo, Progress
          <5> QED BY <1>2, <2>4, <4>2, <5>1, <5>2, <5>3
                  DEF Outcome, Issues, ChangesRoles, LosesRole, MovesTo
        <4> QED BY <4>1, <4>2
      <3>2. CASE access[u][t].isActive
        <4>1. PICK p \in Committed \ job[j].seen : /\ <<u, t>> \in job[p].writes
                                                   /\ <<u, Nil>> \in job[p].reads
          BY <2>1, <3>1, <3>2 DEF ResetInv
        <4>2. /\ p \in Committed' /\ job'[p].reads = job[p].reads
              /\ job'[p].writes = job[p].writes
          BY <1>2, <4>1, CommittedStay
        <4> QED BY <2>1, <3>1, <4>1, <4>2
      <3>3. CASE ~access[u][t].isActive
        <4>1. UpdateCommit(i)
          <5>1. access' # access BY <2>1, <3>3
          <5> QED BY <1>2, <5>1 DEF Outcome, Quiet, Issues, ChangesRoles, LosesRole, Begins,
                                    BeginsReset, ResetCommit, tables
        <4>2. /\ u = job[i].call.target /\ t = job[i].call.token.tenant
              /\ <<u, t>> \in job[i].writes /\ <<u, Nil>> \in job[i].reads
          <5>1. access'[u][t] = access[u][t] \/ (u = job[i].call.target
                                                  /\ t = job[i].call.token.tenant)
            BY <2>2, <4>1, UpdateCommitEffect
          <5>2. access'[u][t].isActive /\ access'[u][t] # access[u][t]
            BY <2>1, <3>3
          <5>3. u = job[i].call.target /\ t = job[i].call.token.tenant
            BY <5>1, <5>2
          <5> QED BY <3>3, <4>1, <5>2, <5>3, UpdateCommitEffect
        <4>3. /\ job[i].pc = "commit" /\ job'[i].reads = job[i].reads
              /\ job'[i].writes = job[i].writes /\ job'[i].committed = TRUE
          BY <1>0, <4>1, CommitsEffect DEF UpdateCommit
        <4>4. i \notin job[j].seen
          BY <1>0, <4>3 DEF HandlerInv, Committed
        <4>5. i \in Committed' BY <4>3 DEF Committed
        <4> QED BY <2>1, <3>1, <4>2, <4>3, <4>4, <4>5
      <3> QED BY <3>2, <3>3
    <2> QED BY <2>3, <2>4
  <1> QED BY <1>1, <1>2, StepOutcome DEF Next

-----------------------------------------------------------------------------
LEMMA GateInit ==
    ASSUME Init
    PROVE  GateInv
  <1>1. PICK s \in Scenarios : job = [j \in Job |-> Fresh(s[j])] BY DEF Init
  <1>2. PICK w \in Worlds : /\ access = w.access /\ moduleRoles = w.moduleRoles
                            /\ entitlement = w.entitlement /\ tokens = w.tokens
    BY DEF Init
  <1>3. s \in [Job -> Call] /\ \A j \in Job : Valid(s[j]) BY GateConstants
  <1>4. \A j \in Job : /\ job[j] \in JobType /\ job[j].pc = "waiting" /\ job[j].call = s[j]
                       /\ job[j].committed = FALSE /\ job[j].seen = {}
    <2>1. \A c \in Call : Fresh(c) \in JobType
      BY DEF Fresh, JobType, Pc, Replies
    <2> QED BY <1>1, <1>3, <2>1 DEF Fresh
  <1>5. job \in [Job -> JobType] BY <1>1, <1>4
  <1>6. TypeOK
    <2>1. /\ access \in [User -> [Tenant -> Row \cup {NoRow}]]
          /\ moduleRoles \subseteq User \X Tenant \X ModuleCode \X ModuleRole
          /\ entitlement \in [Tenant -> [ModuleCode -> Status]] /\ tokens \subseteq Token
      BY <1>2, WorldsAreSound
    <2>2. /\ enabled \in [User -> BOOLEAN] /\ password \in [User -> Tenant \cup {Nil}]
          /\ held \in [Job -> SUBSET {"module", "global", "role"}]
      BY DEF Init
    <2> QED BY <1>5, <2>1, <2>2 DEF TypeOK, JobType, Replies
  <1>7. HeldInv BY <1>4, AfterPcs DEF HeldInv
  <1>8. TokenInv
    <2>1. \A k \in tokens : HasRow(k) BY <1>2, WorldsAreSound DEF HasRow
    <2> QED BY <1>3, <1>4, <2>1, AfterPcs DEF TokenInv
  <1>9. HandlerInv BY <1>4 DEF HandlerInv
  <1>10. ResetInv BY <1>4 DEF ResetInv
  <1>11. RolesOfMembers BY <1>2, WorldsAreSound DEF RolesOfMembers
  <1> QED BY <1>6, <1>7, <1>8, <1>9, <1>10, <1>11 DEF GateInv

LEMMA GateStep ==
    ASSUME GateInv, [Next]_vars
    PROVE  GateInv'
  <1>1. RequestInv /\ HeldInv /\ ResetInv /\ RolesOfMembers BY DEF GateInv, RequestInv
  <1>2. CASE Next
    BY <1>1, <1>2, TypeStep, TokenStep, HandlerStep, HeldStep, ResetStep, RolesStep
    DEF GateInv
  <1>3. CASE UNCHANGED vars
    <2>1. /\ enabled' = enabled /\ password' = password /\ access' = access
          /\ moduleRoles' = moduleRoles /\ entitlement' = entitlement /\ tokens' = tokens
          /\ job' = job /\ held' = held
      BY <1>3 DEF vars, tables
    <2>2. TypeOK' BY <1>1, <2>1 DEF RequestInv, TypeOK
    <2>3. \A j \in Job : Met(job[j].call)' = Met(job[j].call)
      BY <2>1 DEF Met, Meets, Present
    <2>4. HeldInv' BY <1>1, <2>1, <2>3 DEF HeldInv
    <2>5. TokenInv' BY <1>1, <2>1 DEF RequestInv, TokenInv, HasRow
    <2>6. HandlerInv' BY <1>1, <2>1 DEF RequestInv, HandlerInv, Committed
    <2>7. ResetInv' BY <1>1, <2>1 DEF ResetInv, Committed
    <2>8. RolesOfMembers' BY <1>1, <2>1 DEF RolesOfMembers
    <2> QED BY <2>2, <2>4, <2>5, <2>6, <2>7, <2>8 DEF GateInv
  <1> QED BY <1>2, <1>3

(* Tables, tokens, requests and what is remembered of them fit together in *)
(* every reachable state.                                                  *)
THEOREM GateInvariant == Spec => []GateInv
  <1>1. Init => GateInv BY GateInit
  <1>2. GateInv /\ [Next]_vars => GateInv' BY GateStep
  <1> QED BY <1>1, <1>2, PTL DEF Spec

(* What was revoked before a request came never lets it into its handler.  *)
THEOREM Entitled == Spec => []EntitledSinceArrival
  <1>1. GateInv => EntitledSinceArrival
    BY AfterPcs DEF GateInv, HeldInv, EntitledSinceArrival, InHandler, Demands
  <1> QED BY <1>1, GateInvariant, PTL

(* A handler that works on a firm runs for a firm of which its caller has  *)
(* an access row.                                                          *)
THEOREM OwnFirm == Spec => []RunsForOwnFirm
  <1>1. ASSUME GateInv PROVE RunsForOwnFirm
    <2> SUFFICES ASSUME NEW j \in Job, InHandler(j), OfAFirm(job[j].call.route)
                 PROVE  /\ job[j].call.token # Nil /\ job[j].call.token.tenant # Nil
                        /\ access[job[j].call.token.sub][job[j].call.token.tenant] # NoRow
      BY DEF RunsForOwnFirm
    <2>1. "jwt" \in After(job[j].pc) /\ job[j].pc \notin {"waiting", "done"}
      BY AfterPcs DEF InHandler
    <2> QED BY <1>1, <2>1 DEF GateInv, TokenInv, HasRow, OfAFirm
  <1> QED BY <1>1, GateInvariant, PTL

(* Roles of modules are held by members of the firm only.                  *)
THEOREM MembersHoldRoles == Spec => []RolesOfMembers
  <1>1. GateInv => RolesOfMembers BY DEF GateInv
  <1> QED BY <1>1, GateInvariant, PTL

(* Two transactions each of which has read what the other writes, without  *)
(* having seen it, have no serial order.                                   *)
LEMMA NoMutualOverwrite ==
    ASSUME NEW txs \in SUBSET Job, Serializable(txs), NEW p \in txs, NEW q \in txs, p # q,
           q \notin job[p].seen, job[p].reads \cap job[q].writes # {},
           p \notin job[q].seen, job[q].reads \cap job[p].writes # {}
    PROVE  FALSE
  <1>1. Cardinality(txs) \in Nat
    BY GateConstants, FS_Subset, FS_CardinalityType
  <1>2. PICK place \in [txs -> 1 .. Cardinality(txs)] :
          \A a, b \in txs : a # b /\ Precedes(a, b) => place[a] < place[b]
    BY DEF Serializable
  <1>3. Precedes(p, q) /\ Precedes(q, p) BY DEF Precedes
  <1>4. place[p] < place[q] /\ place[q] < place[p] BY <1>2, <1>3
  <1>5. place[p] \in Nat /\ place[q] \in Nat BY <1>1, <1>2
  <1> QED BY <1>4, <1>5

(* A password is reset only while its user may enter no other firm: an     *)
(* access to another firm that is activated at the same time has read the  *)
(* row of users that the reset writes, and the reset the row that it       *)
(* writes, so that one of the two fails.                                   *)
THEOREM ResetsOneFirm == Spec => ResetTouchesOneFirm
  <1> DEFINE A == \A u \in User : password'[u] # password[u] =>
                     \A t \in Tenant : t # password'[u] =>
                       ~access[u][t].isActive /\ ~access'[u][t].isActive
  <1>1. ASSUME GateInv, Next PROVE A
    <2> SUFFICES ASSUME NEW u \in User, password'[u] # password[u],
                        NEW t \in Tenant, t # password'[u]
                 PROVE  ~access[u][t].isActive /\ ~access'[u][t].isActive
      OBVIOUS
    <2>0. RequestInv /\ TypeOK /\ HandlerInv /\ ResetInv BY <1>1 DEF GateInv, RequestInv
    <2>1. PICK j \in Job : ResetCommit(j)
      <3>1. ~Around BY DEF Around
      <3>2. PICK j \in Job : Outcome(j) BY <1>1, <2>0, <3>1, StepOutcome DEF Next
      <3> QED BY <3>2 DEF Outcome, Quiet, Issues, ChangesRoles, LosesRole, Begins, BeginsReset,
                          UpdateCommit, tables
    <2>2. /\ job[j].call.target \in User /\ Commits(j) /\ job[j].pc = "commit"
          /\ job[j].call.route.name = "resetPassword" /\ access' = access
          /\ password' = [password EXCEPT ![job[j].call.target] = job[j].call.token.tenant]
      BY <2>0, <2>1, ResetCommitEffect
    <2>3. u = job[j].call.target /\ password'[u] = job[j].call.token.tenant
      BY <2>0, <2>2 DEF TypeOK
    <2>4. /\ job[j].reads = {u} \X Tenant /\ job[j].writes = {<<u, Nil>>}
      BY <2>0, <2>2, <2>3 DEF HandlerInv
    <2>5. ASSUME access[u][t].isActive PROVE FALSE
      <3>1. PICK p \in Committed \ job[j].seen : /\ <<u, t>> \in job[p].writes
                                                 /\ <<u, Nil>> \in job[p].reads
        BY <2>0, <2>2, <2>3, <2>5 DEF ResetInv
      <3>2. j \notin Committed /\ job[p].seen \subseteq Committed /\ p # j
        BY <2>0, <2>2, <3>1 DEF HandlerInv, Committed
      <3>3. Serializable(Committed \cup {j}) BY <2>2 DEF Commits
      <3>4. job[p].reads \cap job[j].writes # {} /\ job[j].reads \cap job[p].writes # {}
        BY <2>4, <3>1
      <3>5. Committed \cup {j} \in SUBSET Job BY DEF Committed
      <3> QED BY <3>1, <3>2, <3>3, <3>4, <3>5, NoMutualOverwrite
    <2> QED BY <2>2, <2>5
  <1>2. GateInv /\ [Next]_vars => [A]_vars
    BY <1>1
  <1>3. Spec => [][A]_vars
    BY <1>2, GateInvariant, PTL DEF Spec
  <1> QED BY <1>3 DEF ResetTouchesOneFirm
=============================================================================
