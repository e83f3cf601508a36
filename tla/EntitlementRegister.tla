------------------------- MODULE EntitlementRegister -------------------------
(***************************************************************************)
(* What the payment webhook promises for tenant_modules, without           *)
(* deliveries, retries, transactions or locks: events take effect one at a *)
(* time, each at most once.  A checkout with complete metadata puts its    *)
(* slot in force (any other is never handled), a payment or a cancellation *)
(* changes the status of the slot that has its           *)
(* subscription, and neither replaces a newer state.  A subscription is    *)
(* the one of at most one slot.                                            *)
(***************************************************************************)
EXTENDS Naturals

CONSTANTS Slots, Events, Meanings, FreshRows, None

VARIABLES
  says,     \* what each event says
  row,      \* the entitlement of each slot
  handled   \* events that have had their effect, or none

vars == <<says, row, handled>>

Init ==
  /\ says \in [Events -> Meanings]
  /\ row \in [Slots -> FreshRows]
  /\ handled = {}

StatusAskedBy == [payment_failed |-> "past_due", payment_succeeded |-> "active",
                  deleted |-> "canceled"]

NotNewer(s, time) == row[s].lastEventAt = None \/ row[s].lastEventAt <= time

Owned(s, sub) == sub = None \/ \A t \in Slots \ {s} : row[t].sub # sub

Activate(e, s) ==
  /\ says[e].type = "checkout"
  /\ says[e].metadata = "complete"
  /\ says[e].slot = s
  /\ NotNewer(s, says[e].created)
  /\ LET sub == IF says[e].sub = None THEN row[s].sub ELSE says[e].sub
     IN  /\ Owned(s, sub)
         /\ row' = [row EXCEPT ![s] = [status |-> "active", sub |-> sub,
                                       lastEventAt |-> says[e].created]]

ChangeStatus(e, s) ==
  /\ says[e].type \in DOMAIN StatusAskedBy
  /\ says[e].sub # None
  /\ row[s].sub = says[e].sub
  /\ Owned(s, row[s].sub)
  /\ NotNewer(s, says[e].created)
  /\ row' = [row EXCEPT ![s] = [status |-> StatusAskedBy[says[e].type],
                                sub |-> row[s].sub,
                                lastEventAt |-> says[e].created]]

(* Only a checkout is never passed over.                                   *)
PassOver(e) ==
  /\ says[e].type # "checkout"
  /\ UNCHANGED row

Next ==
  \E e \in Events \ handled :
    /\ handled' = handled \cup {e}
    /\ UNCHANGED says
    /\ \/ \E s \in Slots : Activate(e, s) \/ ChangeStatus(e, s)
       \/ PassOver(e)

Spec == Init /\ [][Next]_vars

=============================================================================
