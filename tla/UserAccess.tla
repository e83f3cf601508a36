----------------------------- MODULE UserAccess -----------------------------
(***************************************************************************)
(* UsersService.update and create over user_tenant_access, the roles of    *)
(* one tenant's users, with the guard that lets a request through.         *)
(*                                                                         *)
(* An update is one SERIALIZABLE transaction.  It reads the rows committed *)
(* when it begins (its snapshot), so that its reads are one action; it     *)
(* fails when the row it writes was changed since then; and PostgreSQL     *)
(* lets it commit only if the committed updates together are those of some *)
(* serial order.  PostgreSQL may fail a transaction also when it need not. *)
(***************************************************************************)
EXTENDS Naturals, FiniteSets

CONSTANTS
  Requests,   \* calls of PATCH /users/:id; bound: each is made once
  Users,      \* accounts that have access to the tenant, or may get it
  Roles,      \* global roles
  None        \* a field that the request leaves out

ASSUME RolesAssumption == {"owner", "admin"} \subseteq Roles /\ "none" \notin Roles
ASSUME NoneAssumption == None \notin Roles /\ None \notin BOOLEAN
ASSUME RequestsAssumption == IsFiniteSet(Requests)

VARIABLES
  access,   \* user_tenant_access: committed rows
  job       \* what each request is doing, or has done

vars == <<access, job>>

-----------------------------------------------------------------------------
Row == [role: Roles, isActive: BOOLEAN]
NoAccess == [role |-> "none", isActive |-> FALSE]

HasRow(u) == access[u] # NoAccess
ActiveOwner(row) == row.role = "owner" /\ row.isActive

(* The body of the request: a field may be left out. *)
Dto == [role: Roles \cup {None}, isActive: BOOLEAN \cup {None}]

Idle == [step |-> "idle"]
Failed == [step |-> "failed"]
Call == [step: {"begin"}, caller: Users, target: Users, dto: Dto]
Transaction == [step: {"write", "commit", "committed"}, caller: Users,
                target: Users, dto: Dto,
                snapshot: [Users -> Row \cup {NoAccess}],
                seen: SUBSET Requests]

Committed == {r \in Requests : job[r].step = "committed"}
Fail(r) == job' = [job EXCEPT ![r] = Failed]

-----------------------------------------------------------------------------
(* GlobalRoleGuard: the caller's role is read live (getGlobalRole), before  *)
(* the handler runs.  Nothing in the code deactivates an account itself    *)
(* (users.is_active), so that its access row decides.                      *)
Admitted(caller) == access[caller].role \in {"owner", "admin"} /\ access[caller].isActive

(* A body with neither role nor isActive writes no row (only fullName).    *)
Receive(r) ==
  /\ job[r] = Idle
  /\ \E caller, target \in Users, dto \in Dto :
       /\ Admitted(caller)
       /\ dto.role # None \/ dto.isActive # None
       /\ job' = [job EXCEPT ![r] = [step |-> "begin", caller |-> caller,
                                     target |-> target, dto |-> dto]]
  /\ UNCHANGED access

(* create: the account and its access row, never an owner: the body of     *)
(* POST /users may not name that role.  An owner is there to ask for it at *)
(* any time.                                                               *)
CreatableRoles == Roles \ {"owner"}

Create(u) ==
  /\ \E caller \in Users : Admitted(caller)
  /\ ~HasRow(u)
  /\ \E role \in CreatableRoles :
       access' = [access EXCEPT ![u] = [role |-> role, isActive |-> TRUE]]
  /\ UNCHANGED job

-----------------------------------------------------------------------------
(* update: the reads of the transaction and what it refuses on them *)

Promotes(rows, c) == c.dto.role = "owner" /\ rows[c.target].role # "owner"

LosesOwner(rows, c) ==
  /\ rows[c.target].role = "owner"
  /\ c.dto.role \notin {None, "owner"} \/ c.dto.isActive = FALSE

(* Mutant of OtherActiveOwner: the user who is updated is counted too. *)
AnyActiveOwner(rows, u) == \E v \in Users : ActiveOwner(rows[v])

OtherActiveOwner(rows, u) == \E v \in Users \ {u} : ActiveOwner(rows[v])

Refused(c) ==
  \/ ~HasRow(c.target)
  \/ Promotes(access, c) /\ access[c.caller].role # "owner"
  \/ LosesOwner(access, c) /\ ~OtherActiveOwner(access, c.target)

(* 404, 403 or 409: nothing is written. *)
Refuse(r) ==
  /\ job[r].step = "begin"
  /\ Refused(job[r])
  /\ Fail(r)
  /\ UNCHANGED access

Begin(r) ==
  /\ job[r].step = "begin"
  /\ ~Refused(job[r])
  /\ job' = [job EXCEPT ![r] = [step |-> "write", caller |-> job[r].caller,
                                target |-> job[r].target, dto |-> job[r].dto,
                                snapshot |-> access, seen |-> Committed]]
  /\ UNCHANGED access

-----------------------------------------------------------------------------
(* update: the write *)

ChangedSince(r) ==
  \E q \in Committed \ job[r].seen : job[q].target = job[r].target

(* Mutant of Write: works on the newest row, as READ COMMITTED does. *)
WriteNewest(r) ==
  /\ job[r].step = "write"
  /\ ~\E q \in Requests : /\ job[q].step = "commit"
                          /\ job[q].target = job[r].target
  /\ job' = [job EXCEPT ![r].step = "commit"]
  /\ UNCHANGED access

(* The updateMany waits for the lock of its row. *)
Write(r) ==
  /\ job[r].step = "write"
  /\ ~\E q \in Requests : /\ job[q].step = "commit"
                          /\ job[q].target = job[r].target
  /\ ~ChangedSince(r)
  /\ job' = [job EXCEPT ![r].step = "commit"]
  /\ UNCHANGED access

(* P2034: the row has changed, or a serialization failure wherever         *)
(* PostgreSQL sees fit; also a handler that dies.                          *)
Rollback(r) ==
  /\ job[r].step \in {"begin", "write", "commit"}
  /\ Fail(r)
  /\ UNCHANGED access

-----------------------------------------------------------------------------
(* update: the commit *)

(* The rows a transaction has read: its target, the caller when it asks    *)
(* for an owner's consent, and all of the tenant's when it counts owners.  *)
ReadSet(c) ==
  IF LosesOwner(c.snapshot, c) THEN Users
  ELSE IF Promotes(c.snapshot, c) THEN {c.target, c.caller}
  ELSE {c.target}

(* p must come before q: p read a row, other than its own, that q was to   *)
(* overwrite unseen, or q read what p had written.  (Who writes the row of *)
(* its own target on an old version has failed in Write.)                  *)
Precedes(p, q) ==
  \/ /\ job[q].target \in ReadSet(job[p]) \ {job[p].target}
     /\ q \notin job[p].seen
  \/ /\ job[p].target \in ReadSet(job[q])
     /\ p \in job[q].seen

Serializable(txs) ==
  \E place \in [txs -> 1 .. Cardinality(txs)] :
    \A p, q \in txs : p # q /\ Precedes(p, q) => place[p] < place[q]

Updated(row, dto) ==
  [role |-> IF dto.role = None THEN row.role ELSE dto.role,
   isActive |-> IF dto.isActive = None THEN row.isActive ELSE dto.isActive]

(* Mutant of Commit: REPEATABLE READ. *)
CommitSnapshot(r) ==
  /\ job[r].step = "commit"
  /\ access' = [access EXCEPT ![job[r].target] = Updated(@, job[r].dto)]
  /\ job' = [job EXCEPT ![r].step = "committed"]

Commit(r) ==
  /\ job[r].step = "commit"
  /\ Serializable(Committed \cup {r})
  /\ access' = [access EXCEPT ![job[r].target] = Updated(@, job[r].dto)]
  /\ job' = [job EXCEPT ![r].step = "committed"]

-----------------------------------------------------------------------------
(* Provisioning gives every tenant an active owner. *)
Init ==
  /\ access \in [Users -> Row \cup {NoAccess}]
  /\ \E u \in Users : ActiveOwner(access[u])
  /\ job = [r \in Requests |-> Idle]

Next ==
  \/ \E r \in Requests : \/ Receive(r) \/ Refuse(r) \/ Begin(r) \/ Write(r)
                         \/ Commit(r) \/ Rollback(r)
  \/ \E u \in Users : Create(u)

Spec == Init /\ [][Next]_vars

-----------------------------------------------------------------------------
(* Rows have a role and a status, requests what the handler knows. *)
TypeOK ==
  /\ access \in [Users -> Row \cup {NoAccess}]
  /\ job \in [Requests -> {Idle, Failed} \cup Call \cup Transaction]

(* "Nu ramane firma fara owner activ": whatever updates run at the same    *)
(* time, each of which sees another active owner, one is left.             *)
TenantHasOwner == \E u \in Users : ActiveOwner(access[u])

(* Of two updates of one user that were both answered with success, one    *)
(* has seen the other: none is overwritten unseen.                         *)
NoLostUpdate ==
  \A p, q \in Committed : p # q /\ job[p].target = job[q].target =>
    p \in job[q].seen \/ q \in job[p].seen

=============================================================================
