----------------------- MODULE StripeWebhookInductive ------------------------
(***************************************************************************)
(* The invariants of StripeWebhook, strengthened with what open            *)
(* transactions have recorded, locked and computed, so that every step     *)
(* preserves them.  StripeWebhookProofs proves them.                       *)
(***************************************************************************)
EXTENDS StripeWebhook

Recording(d) == delivery[d].step \in InTransaction

(* An id under way is not yet committed, and only one transaction has it.  *)
IdsExclusive ==
  \A d \in Deliveries : Recording(d) =>
    /\ delivery[d].event \notin processed
    /\ \A q \in Deliveries : Recording(q) /\ q # d =>
         delivery[q].event # delivery[d].event

Writing(d) == delivery[d].step = "commit" /\ delivery[d].slot # None

(* A written row is locked: no two transactions write the same slot.       *)
RowsExclusive ==
  \A d, q \in Deliveries : Writing(d) /\ Writing(q) /\ q # d =>
    delivery[q].slot # delivery[d].slot

(* A written row is the effect of its event on the row that is still the   *)
(* committed one, which is not newer than the event.                       *)
RowsFollowEvents ==
  \A d \in Deliveries : Writing(d) =>
    LET e == EventOf(d)
        s == delivery[d].slot
        row == delivery[d].row
    IN  /\ e.type # "other"
        /\ row.lastEventAt = e.created
        /\ row.status = StatusOf(delivery[d].event)
        /\ NotStale(entitlements[s], e.created)
        /\ IF e.type = "checkout" THEN e.slot = s ELSE e.sub = row.sub

(* What is written or recorded is attributed; where a 200 is on its way to *)
(* a checkout that is not, a unique key was in its way.                    *)
AnswersAttributed ==
  \A d \in Deliveries :
    /\ delivery[d].step = "create" => EventOf(d).metadata # "missing"
    /\ delivery[d].step = "commit" /\ EventOf(d).type = "checkout" =>
         EventOf(d).metadata = "complete"
    /\ delivery[d].step = "ok" => MayBeAcked(delivery[d].event)

RecordsAttributed ==
  \A e \in processed : event[e].type = "checkout" => event[e].metadata = "complete"

(* A row that an update passed over, or that came in between, is not the   *)
(* one a trial or an administrator made: a webhook wrote it.               *)
CreatesAfterWebhook ==
  \A d \in Deliveries :
    delivery[d].step = "create" /\ Exists(EventOf(d).slot) =>
      entitlements[EventOf(d).slot].lastEventAt # None

(* A subscription in a row came with a recorded checkout, and one in a row *)
(* under way with such a checkout or with the one that is writing it.      *)
BroughtBy(sub, e) == event[e].type = "checkout" /\ event[e].sub = sub

SubsBrought ==
  /\ \A s \in Slots : entitlements[s].sub # None =>
       \E p \in processed : BroughtBy(entitlements[s].sub, p)
  /\ \A d \in Deliveries : Writing(d) /\ delivery[d].row.sub # None =>
       \E p \in processed \cup {delivery[d].event} : BroughtBy(delivery[d].row.sub, p)

(* Nothing is written before the transaction is ready to commit.           *)
NothingWrittenYet ==
  \A d \in Deliveries :
    delivery[d].step \in {"record", "apply", "create"} => delivery[d].slot = None

(* Only a checkout is inserted.                                            *)
CreatesCheckout ==
  \A d \in Deliveries : delivery[d].step = "create" =>
    EventOf(d).type = "checkout"

WebhookInv ==
  /\ TypeOK
  /\ AppliedOnce
  /\ UnattributedRefused
  /\ StateIsExplained
  /\ IdsExclusive
  /\ RowsExclusive
  /\ RowsFollowEvents
  /\ NothingWrittenYet
  /\ CreatesCheckout
  /\ AnswersAttributed
  /\ RecordsAttributed
  /\ CreatesAfterWebhook
  /\ SubsBrought

-----------------------------------------------------------------------------
(* A written row keeps the subscription of the committed one, unless a     *)
(* checkout brings its own; a status event found one there.                *)
WrittenSubs ==
  \A d \in Deliveries : Writing(d) =>
    LET e == EventOf(d)
        sub == entitlements[delivery[d].slot].sub
    IN  IF e.type = "checkout"
        THEN delivery[d].row.sub = IF e.sub = None THEN sub ELSE e.sub
        ELSE delivery[d].row.sub = sub /\ sub # None

(* The unique key on the subscription, also for rows under way.            *)
SubsUnique ==
  /\ \A s, t \in Slots : s # t /\ entitlements[s].sub # None =>
       entitlements[t].sub # entitlements[s].sub
  /\ \A d \in Deliveries : Writing(d) => ~SubTaken(delivery[d].slot, delivery[d].row.sub)
  /\ \A d, q \in Deliveries :
       Writing(d) /\ Writing(q) /\ q # d /\ delivery[d].row.sub # None =>
         delivery[q].row.sub # delivery[d].row.sub

CheckoutsWrite ==
  \A d \in Deliveries : delivery[d].step = "commit" /\ EventOf(d).type = "checkout" =>
    delivery[d].slot # None

RegisterInv ==
  /\ WebhookInv
  /\ WrittenSubs
  /\ SubsUnique
  /\ CheckoutsWrite

-----------------------------------------------------------------------------
(* That an acknowledged checkout is in force holds where two overlaps and  *)
(* conflicts are left out.  First, no two checkouts of one slot are in a   *)
(* transaction at once (webhook_first_race shows what happens otherwise):  *)
(* what a lock on the slot before the updateMany would forbid.             *)
CheckoutOpen(d) ==
  /\ Recording(d)
  /\ EventOf(d).type = "checkout"
  /\ EventOf(d).metadata = "complete"

CheckoutsApart ==
  \A d, q \in Deliveries : CheckoutOpen(d) /\ CheckoutOpen(q) /\ q # d =>
    EventOf(q).slot # EventOf(d).slot

(* Second, Stripe gives the checkouts of different slots subscriptions of  *)
(* their own: a P2002 on stripe_subscription_id is answered with 200.      *)
SubscriptionsOwned ==
  \A e, f \in EventIds :
    /\ event[e].type = "checkout" /\ event[e].metadata = "complete"
    /\ event[f].type = "checkout" /\ event[f].metadata = "complete"
    /\ event[e].sub # None /\ event[f].sub = event[e].sub
    => event[f].slot = event[e].slot

(* Without these, an acknowledged checkout is in force, or a newer event   *)
(* is: handleCheckoutSessionCompleted takes the failed insert for a newer  *)
(* row, and then it is one.                                                *)
CheckoutWhereApart ==
  SubscriptionsOwned /\ []CheckoutsApart => []CheckoutReflected

(* A subscription in a row, or on its way into one, came with a checkout   *)
(* of that slot.                                                           *)
CameWithCheckout(sub, s) ==
  sub # None => \E e \in EventIds : /\ event[e].type = "checkout"
                                   /\ event[e].metadata = "complete"
                                   /\ event[e].slot = s
                                   /\ event[e].sub = sub

SubsExplained ==
  /\ \A s \in Slots : /\ CameWithCheckout(entitlements[s].sub, s)
                      /\ entitlements[s].sub # None => Exists(s)
  /\ \A d \in Deliveries, s \in Slots :
       delivery[d].step = "commit" /\ delivery[d].slot = s =>
         CameWithCheckout(delivery[d].row.sub, s)

(* A checkout always writes; a status event only writes a row it found.    *)
WritesItsRow ==
  \A d \in Deliveries : delivery[d].step = "commit" =>
    IF EventOf(d).type = "checkout"
    THEN delivery[d].slot # None
    ELSE delivery[d].slot # None => Exists(delivery[d].slot)

(* A checkout is in force, or its slot has the state of a newer event.     *)
Reflected(e) ==
  event[e].type = "checkout" /\ event[e].metadata = "complete" =>
    LET row == entitlements[event[e].slot]
    IN  row.lastEventAt # None /\ row.lastEventAt >= event[e].created

(* An insert fails only on a newer row, what is recorded is in force, and  *)
(* so is what is about to be acknowledged.                                 *)
AnswersReflected ==
  /\ \A d \in Deliveries, e \in EventIds :
       delivery[d].step = "create" /\ delivery[d].event = e =>
         ~Exists(event[e].slot) \/ Reflected(e)
  /\ \A e \in processed : Reflected(e)
  /\ \A d \in Deliveries, e \in EventIds :
       delivery[d].step = "ok" /\ delivery[d].event = e => Reflected(e)

ReflectedInv ==
  /\ WebhookInv
  /\ SubscriptionsOwned
  /\ SubsExplained
  /\ WritesItsRow
  /\ AnswersReflected
  /\ CheckoutReflected

=============================================================================
