--------------------------- MODULE UserAccessProofs --------------------------
(***************************************************************************)
(* A tenant never loses its last active owner, and no update is lost, for  *)
(* any number of users and of concurrent updates.                          *)
(***************************************************************************)
EXTENDS UserAccessInductive, Integers, TLAPS

USE RolesAssumption, NoneAssumption

-----------------------------------------------------------------------------
(* A transaction that runs, or has run, has all of its fields.             *)
LEMMA TransactionShape ==
  ASSUME TypeOK, NEW r \in Requests, job[r].step \in {"write", "commit", "committed"}
  PROVE  job[r] \in Transaction
  BY DEF TypeOK, Idle, Failed, Call, Transaction

(* Whether a row remains an active owner's is what LosesOwner says.        *)
LEMMA OwnerKept ==
  ASSUME NEW rows \in [Users -> Row \cup {NoAccess}], NEW c, c.target \in Users,
         c.dto \in Dto, ActiveOwner(rows[c.target])
  PROVE  ActiveOwner(Updated(rows[c.target], c.dto)) <=> ~LosesOwner(rows, c)
  BY DEF ActiveOwner, Updated, LosesOwner, Dto, Row, NoAccess

(* Two transactions that each read what the other overwrites unseen do not *)
(* both commit.                                                            *)
LEMMA NoMutualOverwrite ==
  ASSUME NEW txs, Serializable(txs), NEW p \in txs, NEW q \in txs, p # q
  PROVE  ~(Precedes(p, q) /\ Precedes(q, p))
<1>1. PICK place \in [txs -> 1 .. Cardinality(txs)] :
        \A s, t \in txs : s # t /\ Precedes(s, t) => place[s] < place[t]
  BY DEF Serializable
<1>2. place[p] \in Int /\ place[q] \in Int
  BY <1>1
<1>3. QED
  BY <1>1, <1>2

(* What Commit does to the requests: its own is committed, and no other    *)
(* changes.                                                                *)
LEMMA CommitEffect ==
  ASSUME TypeOK, NEW c \in Requests, Commit(c)
  PROVE  /\ c \notin Committed
         /\ job[c] \in Transaction
         /\ job'[c] = [job[c] EXCEPT !.step = "committed"]
         /\ \A q \in Requests \ {c} : job'[q] = job[q]
         /\ Committed' = Committed \cup {c}
         /\ access' = [access EXCEPT ![job[c].target] =
                         Updated(access[job[c].target], job[c].dto)]
<1>1. job[c].step = "commit" /\ job' = [job EXCEPT ![c].step = "committed"]
  BY DEF Commit
<1>2. job[c] \in Transaction
  BY <1>1, TransactionShape
<1>3. job'[c] = [job[c] EXCEPT !.step = "committed"]
  BY <1>1 DEF TypeOK
<1>4. \A q \in Requests \ {c} : job'[q] = job[q]
  BY <1>1 DEF TypeOK
<1>5. job'[c].step = "committed"
  BY <1>2, <1>3 DEF Transaction
<1>6. Committed' = Committed \cup {c}
  BY <1>1, <1>4, <1>5 DEF Committed
<1>7. QED
  BY <1>1, <1>2, <1>3, <1>4, <1>6 DEF Commit, Committed, TypeOK

(* The other steps leave alone who has committed.                          *)
LEMMA OtherEffect ==
  ASSUME TypeOK, NEW r \in Requests,
         Receive(r) \/ Refuse(r) \/ Begin(r) \/ Write(r) \/ Rollback(r)
  PROVE  /\ access' = access
         /\ Committed' = Committed
         /\ r \notin Committed
         /\ job'[r].step # "committed"
         /\ \A q \in Requests \ {r} : job'[q] = job[q]
<1>1. access' = access /\ job[r].step \in {"idle", "begin", "write", "commit"}
  BY DEF Receive, Refuse, Begin, Write, Rollback, Idle
<1>2. \A q \in Requests \ {r} : job'[q] = job[q]
  BY DEF TypeOK, Receive, Refuse, Begin, Write, Rollback, Fail
<1>3. job'[r].step # "committed"
  <2>1. CASE Receive(r)
    BY <2>1 DEF Receive, TypeOK
  <2>2. CASE Refuse(r) \/ Rollback(r)
    BY <2>2 DEF Refuse, Rollback, Fail, Failed, TypeOK
  <2>3. CASE Begin(r)
    BY <2>3 DEF Begin, TypeOK
  <2>4. CASE Write(r)
    <3>1. job[r] \in Transaction
      BY <2>4, TransactionShape DEF Write
    <3>2. job'[r] = [job[r] EXCEPT !.step = "commit"]
      BY <2>4 DEF Write, TypeOK
    <3>3. QED
      BY <3>1, <3>2 DEF Transaction
  <2>5. QED
    BY <2>1, <2>2, <2>3, <2>4
<1>4. QED
  BY <1>1, <1>2, <1>3 DEF Committed

-----------------------------------------------------------------------------
(* The row an update is about to commit on is still the one it has read.   *)
LEMMA TargetCurrent ==
  ASSUME OwnerInv, NEW c \in Requests, job[c].step = "commit"
  PROVE  /\ job[c].snapshot[job[c].target] = access[job[c].target]
         /\ access[job[c].target] \in Row
<1>1. job[c].target \in Users
  BY TransactionShape DEF OwnerInv, Transaction
<1>2. QED
  BY <1>1 DEF OwnerInv, TargetsKnown, WrittenLocked, Active, TypeOK

(* Every step leaves rows and requests in their shape. *)
LEMMA TypeStep == OwnerInv /\ [Next]_vars => TypeOK'
<1> SUFFICES ASSUME OwnerInv, [Next]_vars
             PROVE  TypeOK'
  OBVIOUS
<1>0. TypeOK
  BY DEF OwnerInv
<1>1. CASE UNCHANGED vars
  BY <1>0, <1>1 DEF vars, TypeOK
<1>2. ASSUME NEW r \in Requests, Receive(r)
      PROVE  TypeOK'
  BY <1>0, <1>2 DEF Receive, TypeOK, Call
<1>3. ASSUME NEW r \in Requests, Refuse(r) \/ Rollback(r)
      PROVE  TypeOK'
  BY <1>0, <1>3 DEF Refuse, Rollback, Fail, TypeOK
<1>4. ASSUME NEW r \in Requests, Begin(r)
      PROVE  TypeOK'
  <2>1. job[r] \in Call
    BY <1>0, <1>4 DEF Begin, TypeOK, Idle, Failed, Transaction
  <2>2. [step |-> "write", caller |-> job[r].caller, target |-> job[r].target,
         dto |-> job[r].dto, snapshot |-> access, seen |-> Committed] \in Transaction
    BY <1>0, <2>1 DEF TypeOK, Call, Transaction, Committed
  <2>3. QED
    BY <1>0, <1>4, <2>2 DEF Begin, TypeOK
<1>5. ASSUME NEW r \in Requests, Write(r)
      PROVE  TypeOK'
  <2>1. job[r] \in Transaction
    BY <1>0, <1>5, TransactionShape DEF Write
  <2>2. [job[r] EXCEPT !.step = "commit"] \in Transaction
    BY <2>1 DEF Transaction
  <2>3. QED
    BY <1>0, <1>5, <2>2 DEF Write, TypeOK
<1>6. ASSUME NEW c \in Requests, Commit(c)
      PROVE  TypeOK'
  <2>1. job[c] \in Transaction
    BY <1>0, <1>6, CommitEffect
  <2>2. [job[c] EXCEPT !.step = "committed"] \in Transaction
    BY <2>1 DEF Transaction
  <2>3. Updated(access[job[c].target], job[c].dto) \in Row \cup {NoAccess}
    <3>1. job[c].dto \in Dto /\ job[c].target \in Users
      BY <2>1 DEF Transaction
    <3>2. access[job[c].target] \in Row
      BY <1>6, TargetCurrent DEF Commit
    <3>3. QED
      BY <3>1, <3>2 DEF Updated, Dto, Row
  <2>4. QED
    BY <1>0, <1>6, <2>2, <2>3 DEF Commit, TypeOK
<1>7. ASSUME NEW u \in Users, Create(u)
      PROVE  TypeOK'
  BY <1>0, <1>7 DEF Create, CreatableRoles, TypeOK, Row
<1>8. QED
  BY <1>1, <1>2, <1>3, <1>4, <1>5, <1>6, <1>7 DEF Next

-----------------------------------------------------------------------------
(* What a step does to its own request: it leaves it without transaction,  *)
(* opens one on the rows of the moment, or moves an open one on.           *)
LEMMA OwnEffect ==
  ASSUME TypeOK, NEW r \in Requests,
         Receive(r) \/ Refuse(r) \/ Begin(r) \/ Write(r) \/ Rollback(r)
  PROVE  \/ job'[r].step \in {"begin", "failed"}
         \/ /\ Begin(r)
            /\ job'[r].step = "write"
            /\ job'[r].target = job[r].target
            /\ job'[r].dto = job[r].dto
            /\ job'[r].snapshot = access
            /\ job'[r].seen = Committed
         \/ /\ Write(r)
            /\ job'[r] = [job[r] EXCEPT !.step = "commit"]
            /\ job[r] \in Transaction
            /\ job[r].step = "write"
            /\ job'[r].step = "commit"
            /\ job'[r].target = job[r].target
            /\ job'[r].dto = job[r].dto
            /\ job'[r].snapshot = job[r].snapshot
            /\ job'[r].seen = job[r].seen
<1>1. CASE Receive(r)
  BY <1>1 DEF Receive, TypeOK
<1>2. CASE Refuse(r) \/ Rollback(r)
  BY <1>2 DEF Refuse, Rollback, Fail, Failed, TypeOK
<1>3. CASE Begin(r)
  BY <1>3 DEF Begin, TypeOK
<1>4. CASE Write(r)
  <2>1. job[r] \in Transaction /\ job[r].step = "write"
    BY <1>4, TransactionShape DEF Write
  <2>2. job'[r] = [job[r] EXCEPT !.step = "commit"]
    BY <1>4 DEF Write, TypeOK
  <2>3. QED
    BY <1>4, <2>1, <2>2 DEF Transaction
<1>5. QED
  BY <1>1, <1>2, <1>3, <1>4

(* While nobody commits, the rows that changed since a snapshot stay the   *)
(* same.                                                                   *)
LEMMA SameChanges ==
  ASSUME TypeOK, NEW r \in Requests,
         Receive(r) \/ Refuse(r) \/ Begin(r) \/ Write(r) \/ Rollback(r),
         NEW q \in Requests, job'[q].target = job[q].target, job'[q].seen = job[q].seen
  PROVE  ChangedSince(q)' <=> ChangedSince(q)
<1>1. Committed' = Committed /\ \A p \in Committed : job'[p] = job[p]
  BY OtherEffect DEF Committed
<1>2. QED
  BY <1>1 DEF ChangedSince

(* Everything but the commit of an update and the creation of a user.      *)
LEMMA QuietStep ==
  ASSUME OwnerInv, NEW r \in Requests,
         Receive(r) \/ Refuse(r) \/ Begin(r) \/ Write(r) \/ Rollback(r),
         TypeOK'
  PROVE  OwnerInv'
<1>0. TypeOK
  BY DEF OwnerInv
<1>1. /\ access' = access
      /\ Committed' = Committed
      /\ r \notin Committed
      /\ \A q \in Requests \ {r} : job'[q] = job[q]
      /\ \A q \in Committed : job'[q] = job[q]
  BY <1>0, OtherEffect DEF Committed
<1>2. TenantHasOwner'
  BY <1>1 DEF OwnerInv, TenantHasOwner
<1>3. NoLostUpdate'
  BY <1>1 DEF OwnerInv, NoLostUpdate
<1>4. SeenCommitted'
  <2> SUFFICES ASSUME NEW q \in Requests, job'[q].step \in {"write", "commit", "committed"}
               PROVE  job'[q].seen \subseteq Committed
    BY <1>1 DEF SeenCommitted
  <2>1. CASE q # r
    BY <1>1, <2>1 DEF OwnerInv, SeenCommitted
  <2>2. CASE q = r
    BY <1>0, <2>2, OwnEffect DEF OwnerInv, SeenCommitted
  <2>3. QED
    BY <2>1, <2>2
<1>5. OthersCounted'
  <2> SUFFICES ASSUME NEW q \in Requests, Active(q)',
                      LosesOwner(job'[q].snapshot, job'[q])
               PROVE  OtherActiveOwner(job'[q].snapshot, job'[q].target)
    BY DEF OthersCounted, LosesOwner, OtherActiveOwner, ActiveOwner
  <2>1. CASE q # r
    BY <1>1, <2>1 DEF OwnerInv, OthersCounted, Active
  <2>2. CASE q = r /\ Begin(r)
    <3>1. /\ job'[r].snapshot = access
          /\ job'[r].target = job[r].target
          /\ job'[r].dto = job[r].dto
      BY <1>0, <2>2 DEF Begin, TypeOK
    <3>2. LosesOwner(access, job[r])
      BY <2>2, <3>1 DEF LosesOwner
    <3>3. QED
      BY <2>2, <3>1, <3>2 DEF Begin, Refused
  <2>3. CASE q = r /\ Write(r)
    <3>1. /\ job[r].step = "write"
          /\ job'[r].snapshot = job[r].snapshot
          /\ job'[r].target = job[r].target
          /\ job'[r].dto = job[r].dto
      <4>1. job[r] \in Transaction /\ job[r].step = "write"
        BY <1>0, <2>3, TransactionShape DEF Write
      <4>2. job'[r] = [job[r] EXCEPT !.step = "commit"]
        BY <1>0, <2>3 DEF Write, TypeOK
      <4>3. QED
        BY <4>1, <4>2 DEF Transaction
    <3>2. LosesOwner(job[r].snapshot, job[r])
      BY <2>3, <3>1 DEF LosesOwner
    <3>3. QED
      BY <2>3, <3>1, <3>2 DEF OwnerInv, OthersCounted, Active
  <2>4. QED
    BY <1>0, <2>1, <2>2, <2>3, OwnEffect DEF Active
<1>6. OwnersLostUnseen'
  <2> SUFFICES ASSUME NEW q \in Requests, NEW u \in Users, Active(q)',
                      ActiveOwner(job[q].snapshot[u])', ~ActiveOwner(access[u])'
               PROVE  \E p \in Committed' \ job'[q].seen :
                        /\ job'[p].target = u
                        /\ LosesOwner(job[p].snapshot, job[p])'
    BY Zenon DEF OwnersLostUnseen
  <2>0. ActiveOwner(job'[q].snapshot[u]) /\ ~ActiveOwner(access[u])
    BY <1>1 DEF ActiveOwner
  <2>1. PICK p \in Committed \ job'[q].seen :
          /\ job[p].target = u
          /\ LosesOwner(job[p].snapshot, job[p])
    <3>1. CASE q # r
      BY <1>1, <2>0, <3>1 DEF OwnerInv, OwnersLostUnseen, Active
    <3>2. CASE q = r
      BY <1>0, <2>0, <3>2, OwnEffect DEF OwnerInv, OwnersLostUnseen, Active
    <3>3. QED
      BY <3>1, <3>2
  <2>2. job'[p] = job[p]
    BY <1>1, <2>1
  <2>3. QED
    BY <1>1, <2>1, <2>2 DEF LosesOwner
<1>7. TargetsKnown'
  <2> SUFFICES ASSUME NEW q \in Requests, Active(q)'
               PROVE  /\ job'[q].snapshot[job'[q].target] # NoAccess
                      /\ \/ job'[q].snapshot[job'[q].target] = access[job'[q].target]
                         \/ ChangedSince(q)'
    BY <1>1 DEF TargetsKnown
  <2>1. CASE q # r
    BY <1>0, <1>1, <2>1, SameChanges DEF OwnerInv, TargetsKnown, Active
  <2>2. CASE q = r /\ Begin(r)
    BY <1>0, <2>2 DEF Begin, Refused, HasRow, TypeOK
  <2>3. CASE q = r /\ Write(r)
    BY <1>0, <2>3, OwnEffect, SameChanges DEF OwnerInv, TargetsKnown, Active, Write, Begin
  <2>4. QED
    BY <1>0, <2>1, <2>2, <2>3, OwnEffect DEF Active
<1>8. WrittenLocked'
  <2> SUFFICES ASSUME NEW q \in Requests, job'[q].step = "commit"
               PROVE  /\ ~ChangedSince(q)'
                      /\ \A p \in Requests : job'[p].step = "commit" /\ p # q =>
                           job'[p].target # job'[q].target
    BY DEF WrittenLocked
  <2>1. CASE q # r
    <3>1. ~ChangedSince(q)'
      BY <1>0, <1>1, <2>1, SameChanges DEF OwnerInv, WrittenLocked
    <3>2. ASSUME NEW p \in Requests, job'[p].step = "commit", p # q
          PROVE  job'[p].target # job'[q].target
      <4>1. CASE p # r
        BY <1>1, <2>1, <3>2, <4>1 DEF OwnerInv, WrittenLocked
      <4>2. CASE p = r
        <5>1. Write(r) /\ job'[r].target = job[r].target
          BY <1>0, <3>2, <4>2, OwnEffect
        <5>2. job[q].step = "commit" /\ job'[q].target = job[q].target
          BY <1>1, <2>1
        <5>3. QED
          BY <4>2, <5>1, <5>2 DEF Write
      <4>3. QED
        BY <4>1, <4>2
    <3>3. QED
      BY <3>1, <3>2
  <2>2. CASE q = r
    <3>1. /\ Write(r)
          /\ job'[r].target = job[r].target
          /\ job'[r].seen = job[r].seen
      BY <1>0, <2>2, OwnEffect
    <3>2. ~ChangedSince(r)'
      BY <1>0, <3>1, SameChanges DEF Write
    <3>3. QED
      BY <1>1, <2>2, <3>1, <3>2 DEF Write
  <2>3. QED
    BY <2>1, <2>2
<1>9. QED
  BY <1>2, <1>3, <1>4, <1>5, <1>6, <1>7, <1>8 DEF OwnerInv

(* A new user is no owner, and nobody's update has found the user yet.     *)
LEMMA CreateStep ==
  ASSUME OwnerInv, NEW u \in Users, Create(u), TypeOK'
  PROVE  OwnerInv'
<1>1. PICK role \in CreatableRoles :
        access' = [access EXCEPT ![u] = [role |-> role, isActive |-> TRUE]]
  BY DEF Create
<1>2. /\ job' = job
      /\ access[u] = NoAccess
      /\ access \in [Users -> Row \cup {NoAccess}]
      /\ Committed' = Committed
  BY DEF Create, HasRow, OwnerInv, TypeOK, Committed
<1>3. \A v \in Users : ActiveOwner(access'[v]) <=> ActiveOwner(access[v])
  BY <1>1, <1>2 DEF ActiveOwner, NoAccess, CreatableRoles
<1>4. \A v \in Users : access[v] # NoAccess => access'[v] = access[v]
  BY <1>1, <1>2
<1>5. TenantHasOwner'
  BY <1>3 DEF OwnerInv, TenantHasOwner, ActiveOwner
<1>6. NoLostUpdate' /\ SeenCommitted' /\ OthersCounted' /\ WrittenLocked'
  BY <1>2 DEF OwnerInv, NoLostUpdate, SeenCommitted, OthersCounted, WrittenLocked,
              Active, ChangedSince, LosesOwner, OtherActiveOwner, ActiveOwner
<1>7. OwnersLostUnseen'
  BY <1>2, <1>3 DEF OwnerInv, OwnersLostUnseen, Active, LosesOwner, ActiveOwner
<1>8. TargetsKnown'
  <2>1. \A r \in Requests : Active(r) => job[r].target \in Users
    BY TransactionShape DEF OwnerInv, Active, Transaction
  <2>2. QED
    BY <1>2, <1>4, <2>1 DEF OwnerInv, TargetsKnown, Active, ChangedSince
<1>9. QED
  BY <1>5, <1>6, <1>7, <1>8 DEF OwnerInv

(* Two transactions that both counted the tenant's owners, and that do not *)
(* see each other, each read what the other overwrites.                    *)
LEMMA CountersConflict ==
  ASSUME NEW p \in Requests, NEW q \in Requests,
         job[p] \in Transaction, job[q] \in Transaction, job[p].target # job[q].target,
         LosesOwner(job[p].snapshot, job[p]), LosesOwner(job[q].snapshot, job[q]),
         p \notin job[q].seen, q \notin job[p].seen
  PROVE  Precedes(p, q) /\ Precedes(q, p)
<1>1. job[p].target \in Users /\ job[q].target \in Users
  BY DEF Transaction
<1>2. ReadSet(job[p]) = Users /\ ReadSet(job[q]) = Users
  BY DEF ReadSet
<1>3. QED
  BY <1>1, <1>2 DEF Precedes

(* A committing update leaves an owner: if it takes one away, another that *)
(* it has counted is still there, for nobody who counted too can have      *)
(* taken that one away unseen and be serializable with it.                 *)
LEMMA CommitKeepsOwner ==
  ASSUME OwnerInv, NEW c \in Requests, Commit(c)
  PROVE  TenantHasOwner'
<1>0. TypeOK /\ job[c].step = "commit"
  BY DEF OwnerInv, Commit
<1>1. /\ c \notin Committed
      /\ job[c] \in Transaction
      /\ access' = [access EXCEPT ![job[c].target] =
                       Updated(access[job[c].target], job[c].dto)]
      /\ access \in [Users -> Row \cup {NoAccess}]
  BY <1>0, CommitEffect DEF TypeOK
<1> DEFINE t == job[c].target
<1>2. t \in Users /\ job[c].dto \in Dto
  BY <1>1 DEF Transaction
<1>3. job[c].snapshot[t] = access[t]
  BY <1>0, TargetCurrent
<1>4. CASE LosesOwner(job[c].snapshot, job[c])
  <2>1. PICK v \in Users \ {t} : ActiveOwner(job[c].snapshot[v])
    BY <1>0, <1>4 DEF OwnerInv, OthersCounted, Active, OtherActiveOwner
  <2>2. ActiveOwner(access[v])
    <3> SUFFICES ASSUME ~ActiveOwner(access[v])
                 PROVE  FALSE
      OBVIOUS
    <3>1. PICK q \in Committed \ job[c].seen :
            job[q].target = v /\ LosesOwner(job[q].snapshot, job[q])
      BY <1>0, <2>1 DEF OwnerInv, OwnersLostUnseen, Active
    <3>2. q \in Requests /\ job[q].step = "committed"
      BY <3>1 DEF Committed
    <3>3. job[q] \in Transaction
      BY <1>0, <3>2, TransactionShape
    <3>4. c \notin job[q].seen
      BY <1>1, <3>2 DEF OwnerInv, SeenCommitted
    <3>5. Precedes(c, q) /\ Precedes(q, c)
      BY <1>1, <1>4, <2>1, <3>1, <3>2, <3>3, <3>4, CountersConflict
    <3>6. Serializable(Committed \cup {c}) /\ c # q
      BY <1>1, <3>1 DEF Commit
    <3>7. QED
      BY <3>1, <3>5, <3>6, NoMutualOverwrite
  <2>3. access'[v] = access[v]
    BY <1>1, <1>2, <2>1
  <2>4. QED
    BY <2>1, <2>2, <2>3 DEF TenantHasOwner, ActiveOwner
<1>5. CASE ~LosesOwner(job[c].snapshot, job[c])
  <2>1. ~LosesOwner(access, job[c])
    BY <1>3, <1>5 DEF LosesOwner
  <2>2. PICK v \in Users : ActiveOwner(access[v])
    BY DEF OwnerInv, TenantHasOwner
  <2>3. ActiveOwner(access'[v])
    <3>1. CASE v = t
      <4>1. ActiveOwner(Updated(access[t], job[c].dto))
        BY <1>1, <1>2, <2>1, <2>2, <3>1, OwnerKept
      <4>2. QED
        BY <1>1, <1>2, <3>1, <4>1
    <3>2. CASE v # t
      <4>1. access'[v] = access[v]
        BY <1>1, <1>2, <3>2
      <4>2. QED
        BY <2>2, <4>1
    <3>3. QED
      BY <3>1, <3>2
  <2>4. QED
    BY <2>3 DEF TenantHasOwner, ActiveOwner
<1>6. QED
  BY <1>4, <1>5

(* The commit of an update preserves the invariant. *)
LEMMA CommitStep ==
  ASSUME OwnerInv, NEW c \in Requests, Commit(c), TypeOK'
  PROVE  OwnerInv'
<1>0. TypeOK /\ job[c].step = "commit"
  BY DEF OwnerInv, Commit
<1>1. /\ c \notin Committed
      /\ job[c] \in Transaction
      /\ job'[c] = [job[c] EXCEPT !.step = "committed"]
      /\ \A q \in Requests \ {c} : job'[q] = job[q]
      /\ Committed' = Committed \cup {c}
      /\ access' = [access EXCEPT ![job[c].target] =
                       Updated(access[job[c].target], job[c].dto)]
      /\ access \in [Users -> Row \cup {NoAccess}]
  BY <1>0, CommitEffect DEF TypeOK
<1>2. /\ job'[c].target = job[c].target
      /\ job'[c].dto = job[c].dto
      /\ job'[c].snapshot = job[c].snapshot
      /\ job'[c].seen = job[c].seen
      /\ job'[c].step = "committed"
  BY <1>1 DEF Transaction
<1>3. \A q \in Requests : /\ job'[q].target = job[q].target
                          /\ job'[q].seen = job[q].seen
  BY <1>1, <1>2
<1>4. \A q \in Requests : Active(q)' => q # c /\ job'[q] = job[q] /\ Active(q)
  BY <1>1, <1>2 DEF Active
<1>5. \A q \in Requests : ChangedSince(q) => ChangedSince(q)'
  BY <1>1, <1>3 DEF ChangedSince, Committed
<1>6. NoLostUpdate'
  <2> SUFFICES ASSUME NEW p \in Committed', NEW q \in Committed',
                      p # q, job'[p].target = job'[q].target
               PROVE  p \in job'[q].seen \/ q \in job'[p].seen
    BY DEF NoLostUpdate
  <2>1. p \in Requests /\ q \in Requests
    BY <1>1 DEF Committed
  <2>2. ~ChangedSince(c)
    BY <1>0 DEF OwnerInv, WrittenLocked
  <2>3. CASE p = c
    BY <1>1, <1>3, <2>1, <2>2, <2>3 DEF ChangedSince
  <2>4. CASE q = c
    BY <1>1, <1>3, <2>1, <2>2, <2>4 DEF ChangedSince
  <2>5. CASE p # c /\ q # c
    BY <1>1, <1>3, <2>1, <2>5 DEF OwnerInv, NoLostUpdate
  <2>6. QED
    BY <2>3, <2>4, <2>5
<1>7. SeenCommitted'
  BY <1>0, <1>1, <1>2, <1>3 DEF OwnerInv, SeenCommitted
<1>8. OthersCounted'
  <2> SUFFICES ASSUME NEW q \in Requests, Active(q)',
                      LosesOwner(job[q].snapshot, job[q])'
               PROVE  OtherActiveOwner(job[q].snapshot, job[q].target)'
    BY Zenon DEF OthersCounted
  <2>1. job'[q] = job[q] /\ Active(q)
    BY <1>4
  <2>2. OtherActiveOwner(job[q].snapshot, job[q].target)
    BY <2>1 DEF OwnerInv, OthersCounted, LosesOwner
  <2>3. QED
    BY <2>1, <2>2 DEF OtherActiveOwner, ActiveOwner
<1>9. OwnersLostUnseen'
  <2> SUFFICES ASSUME NEW q \in Requests, NEW u \in Users, Active(q)',
                      ActiveOwner(job[q].snapshot[u])', ~ActiveOwner(access[u])'
               PROVE  \E p \in Committed' \ job'[q].seen :
                        /\ job'[p].target = u
                        /\ LosesOwner(job[p].snapshot, job[p])'
    BY Zenon DEF OwnersLostUnseen
  <2>1. job'[q] = job[q] /\ Active(q) /\ q # c
    BY <1>4
  <2>2. ActiveOwner(job[q].snapshot[u]) /\ ~ActiveOwner(access'[u])
    BY <2>1 DEF ActiveOwner
  <2>3. CASE ~ActiveOwner(access[u])
    <3>1. PICK p \in Committed \ job[q].seen :
            job[p].target = u /\ LosesOwner(job[p].snapshot, job[p])
      BY <2>1, <2>2, <2>3 DEF OwnerInv, OwnersLostUnseen
    <3>2. p \in Committed' /\ job'[p] = job[p]
      BY <1>1, <3>1 DEF Committed
    <3>3. QED
      BY <2>1, <3>1, <3>2 DEF LosesOwner
  <2>4. CASE ActiveOwner(access[u])
    <3>1. u = job[c].target
      BY <1>1, <2>2, <2>4
    <3>2. ~ActiveOwner(Updated(access[u], job[c].dto))
      BY <1>1, <2>2, <3>1
    <3>3. LosesOwner(access, job[c])
      BY <1>1, <2>4, <3>1, <3>2, OwnerKept DEF Transaction
    <3>4. job[c].snapshot[u] = access[u]
      BY <1>0, <3>1, TargetCurrent
    <3>5. LosesOwner(job[c].snapshot, job[c])
      BY <3>1, <3>3, <3>4 DEF LosesOwner
    <3>6. LosesOwner(job[c].snapshot, job[c])'
      BY <1>2, <3>5 DEF LosesOwner
    <3>7. job[q].seen \subseteq Committed
      BY <2>1 DEF OwnerInv, SeenCommitted, Active
    <3>8. c \in Committed' \ job'[q].seen
      BY <1>1, <2>1, <3>7
    <3>9. QED
      BY <1>2, <3>1, <3>6, <3>8
  <2>5. QED
    BY <2>3, <2>4
<1>10. TargetsKnown'
  <2> SUFFICES ASSUME NEW q \in Requests, Active(q)'
               PROVE  /\ job'[q].snapshot[job'[q].target] # NoAccess
                      /\ \/ job'[q].snapshot[job'[q].target] = access'[job'[q].target]
                         \/ ChangedSince(q)'
    BY DEF TargetsKnown
  <2>1. job'[q] = job[q] /\ Active(q) /\ q # c
    BY <1>4
  <2>2. /\ job[q].snapshot[job[q].target] # NoAccess
        /\ \/ job[q].snapshot[job[q].target] = access[job[q].target]
           \/ ChangedSince(q)
    BY <2>1 DEF OwnerInv, TargetsKnown
  <2>3. CASE job[q].target # job[c].target
    <3>1. job[q].target \in Users
      BY <1>0, <2>1, TransactionShape DEF Active, Transaction
    <3>2. access'[job[q].target] = access[job[q].target]
      BY <1>1, <2>3, <3>1
    <3>3. QED
      BY <1>5, <2>1, <2>2, <3>2
  <2>4. CASE job[q].target = job[c].target
    <3>1. job[q].seen \subseteq Committed
      BY <2>1 DEF OwnerInv, SeenCommitted, Active
    <3>2. c \in Committed' \ job'[q].seen
      BY <1>1, <2>1, <3>1
    <3>3. ChangedSince(q)'
      BY <1>3, <2>4, <3>2 DEF ChangedSince
    <3>4. QED
      BY <2>1, <2>2, <3>3
  <2>5. QED
    BY <2>3, <2>4
<1>11. WrittenLocked'
  <2> SUFFICES ASSUME NEW q \in Requests, job'[q].step = "commit"
               PROVE  /\ ~ChangedSince(q)'
                      /\ \A p \in Requests : job'[p].step = "commit" /\ p # q =>
                           job'[p].target # job'[q].target
    BY DEF WrittenLocked
  <2>1. q # c /\ job'[q] = job[q] /\ job[q].step = "commit"
    BY <1>1, <1>2
  <2>2. job[c].target # job[q].target
    BY <1>0, <2>1 DEF OwnerInv, WrittenLocked
  <2>3. ~ChangedSince(q)
    BY <2>1 DEF OwnerInv, WrittenLocked
  <2>4. ~ChangedSince(q)'
    BY <1>1, <1>3, <2>2, <2>3 DEF ChangedSince, Committed
  <2>5. ASSUME NEW p \in Requests, job'[p].step = "commit", p # q
        PROVE  job'[p].target # job'[q].target
    <3>1. p # c
      BY <1>2, <2>5
    <3>2. job'[p] = job[p]
      BY <1>1, <3>1
    <3>3. QED
      BY <2>1, <2>5, <3>2 DEF OwnerInv, WrittenLocked
  <2>6. QED
    BY <2>4, <2>5
<1>12. TenantHasOwner'
  BY CommitKeepsOwner
<1>13. QED
  BY <1>6, <1>7, <1>8, <1>9, <1>10, <1>11, <1>12 DEF OwnerInv

-----------------------------------------------------------------------------
(* No update runs at first. *)
LEMMA UserInit == Init => OwnerInv
<1> SUFFICES ASSUME Init PROVE OwnerInv
  OBVIOUS
<1>1. /\ access \in [Users -> Row \cup {NoAccess}]
      /\ \E u \in Users : ActiveOwner(access[u])
      /\ job = [r \in Requests |-> Idle]
  BY DEF Init
<1>2. \A r \in Requests : job[r] = Idle /\ job[r].step = "idle"
  BY <1>1 DEF Idle
<1>3. Committed = {}
  BY <1>2 DEF Committed
<1>4. TypeOK
  BY <1>1 DEF TypeOK
<1>5. QED
  BY <1>1, <1>2, <1>3, <1>4
     DEF OwnerInv, TenantHasOwner, NoLostUpdate, SeenCommitted, OthersCounted,
         OwnersLostUnseen, TargetsKnown, WrittenLocked, Active

(* Every step preserves the invariant. *)
LEMMA UserNext == OwnerInv /\ [Next]_vars => OwnerInv'
<1> SUFFICES ASSUME OwnerInv, [Next]_vars
             PROVE  OwnerInv'
  OBVIOUS
<1>1. TypeOK'
  BY TypeStep
<1>2. CASE UNCHANGED vars
  BY <1>1, <1>2 DEF vars, OwnerInv, TenantHasOwner, NoLostUpdate, SeenCommitted,
     OthersCounted, OwnersLostUnseen, TargetsKnown, WrittenLocked, Active,
     ChangedSince, LosesOwner, OtherActiveOwner, ActiveOwner, Committed
<1>3. ASSUME NEW r \in Requests,
             Receive(r) \/ Refuse(r) \/ Begin(r) \/ Write(r) \/ Rollback(r)
      PROVE  OwnerInv'
  BY <1>1, <1>3, QuietStep
<1>4. ASSUME NEW c \in Requests, Commit(c)
      PROVE  OwnerInv'
  BY <1>1, <1>4, CommitStep
<1>5. ASSUME NEW u \in Users, Create(u)
      PROVE  OwnerInv'
  BY <1>1, <1>5, CreateStep
<1>6. QED
  BY <1>2, <1>3, <1>4, <1>5 DEF Next

(* Rows and requests keep their shape (users.service.ts). *)
THEOREM UserTypes == Spec => []TypeOK
<1>1. OwnerInv => TypeOK
  BY DEF OwnerInv
<1>2. QED
  BY <1>1, UserInit, UserNext, PTL DEF Spec

(* Whatever updates run together, however many, the tenant keeps an active *)
(* owner (users.service.ts: the SERIALIZABLE transaction of update).       *)
THEOREM OwnerRemains == Spec => []TenantHasOwner
<1>1. OwnerInv => TenantHasOwner
  BY DEF OwnerInv
<1>2. QED
  BY <1>1, UserInit, UserNext, PTL DEF Spec

(* Of two committed updates of one user, one has seen the other: the row   *)
(* lock of updateMany and the snapshot of the transaction see to it.       *)
THEOREM UpdatesSeen == Spec => []NoLostUpdate
<1>1. OwnerInv => NoLostUpdate
  BY DEF OwnerInv
<1>2. QED
  BY <1>1, UserInit, UserNext, PTL DEF Spec

(* The inductive invariant itself: what a transaction has seen, locked and *)
(* counted still tells the truth about the rows when it commits.           *)
THEOREM OwnerInvariant == Spec => []OwnerInv
  BY UserInit, UserNext, PTL DEF Spec

=============================================================================
