------------------------- MODULE UserAccessInductive -------------------------
(***************************************************************************)
(* The invariants of UserAccess, strengthened with what the transactions   *)
(* under way know of the committed rows, so that every step preserves      *)
(* them.  TLC checks the parts, UserAccessProofs proves them.              *)
(***************************************************************************)
EXTENDS UserAccess

Active(r) == job[r].step \in {"write", "commit"}

(* A snapshot holds transactions that have committed.                      *)
SeenCommitted ==
  \A r \in Requests :
    job[r].step \in {"write", "commit", "committed"} => job[r].seen \subseteq Committed

(* Who takes an owner away has counted another one in its snapshot.        *)
OthersCounted ==
  \A r \in Requests : Active(r) /\ LosesOwner(job[r].snapshot, job[r]) =>
    OtherActiveOwner(job[r].snapshot, job[r].target)

(* An owner of the snapshot who is none any more was taken away by a       *)
(* transaction that committed since, and that counted owners to do so.     *)
OwnersLostUnseen ==
  \A r \in Requests, u \in Users :
    /\ Active(r)
    /\ ActiveOwner(job[r].snapshot[u])
    /\ ~ActiveOwner(access[u])
    => \E q \in Committed \ job[r].seen :
         /\ job[q].target = u
         /\ LosesOwner(job[q].snapshot, job[q])

(* The row to be written is that of the snapshot, or was changed since...  *)
TargetsKnown ==
  \A r \in Requests : Active(r) =>
    /\ job[r].snapshot[job[r].target] # NoAccess
    /\ \/ job[r].snapshot[job[r].target] = access[job[r].target]
       \/ ChangedSince(r)

(* ...and once it is written it is locked, and was not.                    *)
WrittenLocked ==
  \A r \in Requests : job[r].step = "commit" =>
    /\ ~ChangedSince(r)
    /\ \A q \in Requests : job[q].step = "commit" /\ q # r =>
         job[q].target # job[r].target

OwnerInv ==
  /\ TypeOK
  /\ TenantHasOwner
  /\ NoLostUpdate
  /\ SeenCommitted
  /\ OthersCounted
  /\ OwnersLostUnseen
  /\ TargetsKnown
  /\ WrittenLocked

=============================================================================
