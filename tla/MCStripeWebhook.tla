--------------------------- MODULE MCStripeWebhook ---------------------------
(* Finite instances of StripeWebhook for TLC. *)
EXTENDS StripeWebhookInductive, TLC

CONSTANTS d1, d2, e1, e2, e3, slot1, slot2, sub1, sub2

OneDelivery == {d1}
TwoDeliveries == {d1, d2}
TwoEvents == {e1, e2}
ThreeEvents == {e1, e2, e3}
OneSlot == {slot1}
TwoSlots == {slot1, slot2}
OneSub == {sub1}
TwoSubs == {sub1, sub2}

(* The liveness run begins with a tenant's module on trial beside one that *)
(* has no row, so that checkouts both update and insert.                   *)
LiveInit == /\ Init
            /\ entitlements = [s \in Slots |-> IF s = slot1 THEN TrialRow ELSE NoRow]
LiveSpec == LiveInit /\ [][Next]_vars /\ Fairness

(* All of these are interchangeable: times are the only ordered data. *)
Symmetry == Permutations(Deliveries) \cup Permutations(EventIds)
              \cup Permutations(Slots) \cup Permutations(Subs)
=============================================================================
