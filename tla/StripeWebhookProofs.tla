------------------------- MODULE StripeWebhookProofs -------------------------
(***************************************************************************)
(* Theorems about StripeWebhook, for any number of events, concurrent      *)
(* deliveries, tenants and modules, with lost responses and crashes.       *)
(***************************************************************************)
EXTENDS StripeWebhookInductive, TLAPS

USE TimesAssumption, FaultsAssumption, NoneAssumption

-----------------------------------------------------------------------------
(* A delivery that runs carries one of the events Stripe may send.         *)
LEMMA DeliveryShape ==
  ASSUME TypeOK, NEW d \in Deliveries, delivery[d].step # "idle"
  PROVE  /\ delivery[d] \in Delivery
         /\ delivery[d].event \in EventIds
         /\ EventOf(d) \in Checkout \cup StatusEvent \cup OtherEvent
  BY DEF TypeOK, Idle, Delivery, EventOf

(* The statements that only move the handler on. *)
LEMMA GotoEffect ==
  ASSUME TypeOK, NEW d \in Deliveries, delivery[d].step # "idle",
         NEW step \in {"record", "ok"} \cup InTransaction, Goto(d, step)
  PROVE  /\ delivery' \in [Deliveries -> {Idle} \cup Delivery]
         /\ delivery'[d].step = step
         /\ delivery'[d].event = delivery[d].event
         /\ delivery'[d].slot = delivery[d].slot
         /\ delivery'[d].row = delivery[d].row
         /\ \A q \in Deliveries : q # d => delivery'[q] = delivery[q]
<1>1. delivery[d] \in Delivery
  BY DeliveryShape
<1>2. delivery' = [delivery EXCEPT ![d] = [delivery[d] EXCEPT !.step = step]]
  BY DEF Goto
<1>3. [delivery[d] EXCEPT !.step = step] \in Delivery
  BY <1>1 DEF Delivery
<1>4. QED
  BY <1>1, <1>2, <1>3 DEF TypeOK, Delivery

(* The statements that write a row of tenant_modules. *)
LEMMA WriteEffect ==
  ASSUME TypeOK, NEW d \in Deliveries, delivery[d].step # "idle",
         NEW s \in Slots, NEW row \in Row, Write(d, s, row)
  PROVE  /\ delivery' \in [Deliveries -> {Idle} \cup Delivery]
         /\ delivery'[d].step = "commit"
         /\ delivery'[d].event = delivery[d].event
         /\ delivery'[d].slot = s
         /\ delivery'[d].row = row
         /\ \A q \in Deliveries : q # d => delivery'[q] = delivery[q]
<1>1. delivery[d] \in Delivery
  BY DeliveryShape
<1>2. delivery' = [delivery EXCEPT ![d] =
                     [delivery[d] EXCEPT !.step = "commit", !.slot = s, !.row = row]]
  BY DEF Write
<1>3. [delivery[d] EXCEPT !.step = "commit", !.slot = s, !.row = row] \in Delivery
  BY <1>1 DEF Delivery, InTransaction
<1>4. QED
  BY <1>1, <1>2, <1>3 DEF TypeOK, Delivery

(* An event that is handled asks for a status an entitlement may have.     *)
LEMMA StatusReal ==
  ASSUME TypeOK, NEW e \in EventIds, event[e].type # "other"
  PROVE  StatusOf(e) \in {"active", "past_due", "canceled"}
<1>1. event[e].type \in {"checkout", "payment_failed", "payment_succeeded", "deleted"}
  BY DEF TypeOK, Checkout, StatusEvent, OtherEvent
<1>2. QED
  BY <1>1 DEF StatusOf

(* A checkout whose row is written has complete metadata. *)
LEMMA WrittenCheckout ==
  ASSUME WebhookInv, NEW d \in Deliveries, Reactivate(d) \/ Create(d)
  PROVE  /\ EventOf(d) \in Checkout
         /\ EventOf(d).type = "checkout"
         /\ EventOf(d).metadata = "complete"
         /\ EventOf(d).slot \in Slots
<1>1. /\ delivery[d].step \in {"apply", "create"}
      /\ EventOf(d).type = "checkout" /\ EventOf(d).metadata = "complete"
  BY DEF Reactivate, Reactivates, Create, Creates, WebhookInv, CreatesCheckout
<1>2. EventOf(d) \in Checkout
  BY <1>1, DeliveryShape DEF WebhookInv, Checkout, StatusEvent, OtherEvent
<1>3. QED
  BY <1>1, <1>2 DEF Checkout

(* What each of the three writing statements writes. *)
LEMMA WrittenRow ==
  ASSUME WebhookInv, NEW d \in Deliveries,
         Reactivate(d) \/ Create(d) \/ UpdateStatus(d)
  PROVE  \E s \in Slots, row \in Row :
           /\ Write(d, s, row)
           /\ ~Locked(s)
           /\ EventOf(d).type # "other"
           /\ row.lastEventAt = EventOf(d).created
           /\ row.status = StatusOf(delivery[d].event)
           /\ NotStale(entitlements[s], EventOf(d).created)
           /\ IF EventOf(d).type = "checkout"
              THEN EventOf(d).slot = s /\ EventOf(d).metadata = "complete"
              ELSE EventOf(d).sub = row.sub
           /\ row.sub # None =>
                \E p \in processed \cup {delivery[d].event} : BroughtBy(row.sub, p)
<1> DEFINE e == EventOf(d)
<1>a. TypeOK
  BY DEF WebhookInv
<1>1. CASE Reactivate(d) \/ Create(d)
  <2>1. e.type = "checkout" /\ e.metadata = "complete" /\ e.slot \in Slots
    BY <1>1, WrittenCheckout
  <2>2. e \in Checkout
    BY <1>1, WrittenCheckout
  <2>3. Activated(e.slot, e) \in Row
    BY <1>a, <2>1, <2>2 DEF Activated, Checkout, Row, TypeOK
  <2>4. NotStale(entitlements[e.slot], e.created)
    <3>1. CASE Reactivate(d)
      BY <3>1 DEF Reactivate, Reactivates
    <3>2. CASE Create(d)
      <4>1. entitlements[e.slot].status = "none"
        BY <2>1, <3>2 DEF Create, Exists
      <4>2. entitlements[e.slot].lastEventAt = None
        BY <1>a, <2>1, <4>1, StatusReal DEF WebhookInv, StateIsExplained, TypeOK
      <4>3. QED
        BY <4>2 DEF NotStale
    <3>3. QED
      BY <1>1, <3>1, <3>2
  <2>5. /\ Write(d, e.slot, Activated(e.slot, e))
        /\ ~Locked(e.slot)
    BY <1>1 DEF Reactivate, Reactivates, Create, Creates
  <2>6. /\ Activated(e.slot, e).lastEventAt = e.created
        /\ Activated(e.slot, e).status = StatusOf(delivery[d].event)
    BY <2>1 DEF Activated, StatusOf, EventOf
  <2>7. Activated(e.slot, e).sub # None =>
          \E p \in processed \cup {delivery[d].event} : BroughtBy(Activated(e.slot, e).sub, p)
    BY <2>1 DEF Activated, WebhookInv, SubsBrought, BroughtBy, EventOf
  <2>8. QED
    BY <2>1, <2>3, <2>4, <2>5, <2>6, <2>7
<1>2. CASE UpdateStatus(d)
  <2>1. PICK s \in Matching(e) :
          /\ ~Locked(s)
          /\ Write(d, s, [entitlements[s] EXCEPT !.status = StatusOf(delivery[d].event),
                                                !.lastEventAt = e.created])
    BY <1>2 DEF UpdateStatus
  <2> DEFINE row == [entitlements[s] EXCEPT !.status = StatusOf(delivery[d].event),
                                            !.lastEventAt = e.created]
  <2>2. e.type \in {"payment_failed", "payment_succeeded", "deleted"}
    BY <1>2 DEF UpdateStatus, IsStatus
  <2>3. e.created \in Times
    BY <1>a, <1>2, <2>2, DeliveryShape
       DEF UpdateStatus, IsStatus, Checkout, StatusEvent, OtherEvent
  <2>4. StatusOf(delivery[d].event) \in {"active", "past_due", "canceled"}
    BY <2>2 DEF StatusOf, EventOf
  <2>5. s \in Slots /\ entitlements[s] \in Row /\ entitlements[s].sub = e.sub
        /\ NotStale(entitlements[s], e.created)
    BY <1>a, <2>1 DEF Matching, TypeOK
  <2>6. /\ row \in Row /\ row.sub = e.sub /\ row.lastEventAt = e.created
        /\ row.status = StatusOf(delivery[d].event)
    BY <2>3, <2>4, <2>5 DEF Row
  <2>7. row.sub # None => \E p \in processed : BroughtBy(row.sub, p)
    BY <2>5, <2>6 DEF WebhookInv, SubsBrought
  <2> HIDE DEF row
  <2>8. QED
    BY <2>1, <2>2, <2>5, <2>6, <2>7 DEF row
<1>3. QED
  BY <1>1, <1>2

-----------------------------------------------------------------------------
(* The parts that speak of committed rows only. *)
LEMMA RowsKept ==
  ASSUME WebhookInv, UNCHANGED <<event, entitlements, processed, applied>>
  PROVE  /\ AppliedOnce' /\ RecordsAttributed' /\ StateIsExplained'
         /\ \A e : StatusOf(e)' = StatusOf(e)
         /\ \A e : MayBeAcked(e)' <=> MayBeAcked(e)
<1>1. \A e : StatusOf(e)' = StatusOf(e)
  BY DEF StatusOf
<1>2. StateIsExplained'
  BY <1>1 DEF WebhookInv, StateIsExplained
<1>3. AppliedOnce' /\ RecordsAttributed'
  BY DEF WebhookInv, AppliedOnce, RecordsAttributed
<1>4. \A e : MayBeAcked(e)' <=> MayBeAcked(e)
  BY DEF MayBeAcked, ConflictExplained
<1>5. QED
  BY <1>1, <1>2, <1>3, <1>4

(* A delivery that moves on without writing a row breaks nothing, if what  *)
(* its new step says about it holds.                                       *)
LEMMA QuietStep ==
  ASSUME WebhookInv, UNCHANGED <<event, entitlements, processed, applied>>,
         NEW d \in Deliveries,
         acked' \subseteq EventIds,
         \A e \in acked' : e \notin acked => MayBeAcked(e),
         delivery' \in [Deliveries -> {Idle} \cup Delivery],
         \A q \in Deliveries : q # d => delivery'[q] = delivery[q],
         delivery'[d].step = "commit" => delivery'[d].slot = None,
         delivery'[d].step \in InTransaction =>
           /\ delivery'[d].event \notin processed
           /\ \A q \in Deliveries : q # d /\ Recording(q) =>
                delivery[q].event # delivery'[d].event,
         delivery'[d].step \in {"record", "apply", "create"} => delivery'[d].slot = None,
         delivery'[d].step = "create" =>
           LET e == event[delivery'[d].event]
           IN  /\ e.type = "checkout"
               /\ e.metadata # "missing"
               /\ Exists(e.slot) => entitlements[e.slot].lastEventAt # None,
         delivery'[d].step = "commit" => event[delivery'[d].event].type # "checkout",
         delivery'[d].step = "ok" => MayBeAcked(delivery'[d].event)
  PROVE  WebhookInv'
<1>1. TypeOK'
  BY DEF WebhookInv, TypeOK
<1>2. AppliedOnce' /\ UnattributedRefused' /\ RecordsAttributed' /\ StateIsExplained'
  BY RowsKept DEF WebhookInv, UnattributedRefused
<1>3. SubsBrought'
  BY DEF WebhookInv, SubsBrought, BroughtBy, Writing
<1>4. IdsExclusive'
  BY DEF WebhookInv, IdsExclusive, Recording
<1>5. RowsExclusive'
  BY DEF WebhookInv, RowsExclusive, Writing
<1>6. RowsFollowEvents'
  <2> SUFFICES ASSUME NEW q \in Deliveries, Writing(q)'
               PROVE  (/\ EventOf(q).type # "other"
                       /\ delivery[q].row.lastEventAt = EventOf(q).created
                       /\ delivery[q].row.status = StatusOf(delivery[q].event)
                       /\ NotStale(entitlements[delivery[q].slot], EventOf(q).created)
                       /\ IF EventOf(q).type = "checkout"
                          THEN EventOf(q).slot = delivery[q].slot
                          ELSE EventOf(q).sub = delivery[q].row.sub)'
    BY DEF RowsFollowEvents
  <2>1. q # d /\ delivery'[q] = delivery[q] /\ Writing(q)
    BY DEF Writing
  <2>2. StatusOf(delivery[q].event)' = StatusOf(delivery[q].event)
    BY <2>1 DEF StatusOf
  <2>3. QED
    BY <2>1, <2>2 DEF WebhookInv, RowsFollowEvents, EventOf, NotStale
<1>7. NothingWrittenYet' /\ CreatesCheckout'
  BY DEF WebhookInv, NothingWrittenYet, CreatesCheckout, EventOf
<1>8. AnswersAttributed' /\ CreatesAfterWebhook'
  BY RowsKept DEF WebhookInv, AnswersAttributed, CreatesAfterWebhook, EventOf, Exists
<1>9. QED
  BY <1>1, <1>2, <1>4, <1>5, <1>6, <1>7, <1>8, <1>3 DEF WebhookInv

-----------------------------------------------------------------------------
(* The row under way, and the time it will have.                           *)
LEMMA WrittenTimes ==
  ASSUME WebhookInv, NEW d \in Deliveries, Writing(d)
  PROVE  /\ delivery[d].slot \in Slots
         /\ delivery[d].event \in EventIds
         /\ EventOf(d).created \in Times
         /\ delivery[d].row.lastEventAt = EventOf(d).created
         /\ delivery[d].row.status # "none"
         /\ NotStale(entitlements[delivery[d].slot], EventOf(d).created)
<1>a. TypeOK
  BY DEF WebhookInv
<1>1. /\ delivery[d].event \in EventIds
      /\ delivery[d].slot \in Slots
  BY <1>a, DeliveryShape DEF Writing, Delivery
<1>2. /\ EventOf(d).type # "other"
      /\ delivery[d].row.lastEventAt = EventOf(d).created
      /\ delivery[d].row.status = StatusOf(delivery[d].event)
      /\ NotStale(entitlements[delivery[d].slot], EventOf(d).created)
  BY DEF WebhookInv, RowsFollowEvents
<1>3. StatusOf(delivery[d].event) # "none"
  BY <1>a, <1>1, <1>2, StatusReal DEF EventOf
<1>4. EventOf(d).created \in Times
  BY <1>a, <1>1, <1>2 DEF TypeOK, EventOf, Checkout, StatusEvent, OtherEvent
<1>5. QED
  BY <1>1, <1>2, <1>3, <1>4

(* The 200s without a commit: the event is recorded, or a unique key was   *)
(* in the way of its row.                                                  *)
LEMMA AnsweredWithoutCommit ==
  ASSUME WebhookInv, NEW d \in Deliveries,
         AlreadyProcessed(d) \/ ReactivateRejected(d) \/ CreateRejected(d)
  PROVE  MayBeAcked(delivery[d].event)
<1> DEFINE k == delivery[d].event
<1>1. CASE AlreadyProcessed(d)
  BY <1>1 DEF AlreadyProcessed, WebhookInv, RecordsAttributed, MayBeAcked
<1>2. CASE ReactivateRejected(d) \/ CreateRejected(d)
  <2>1. /\ event[k].type = "checkout" /\ event[k] = EventOf(d)
        /\ k \in EventIds /\ event[k] \in Checkout
    BY <1>2, DeliveryShape
       DEF ReactivateRejected, Reactivates, CreateRejected, Creates, WebhookInv,
           CreatesCheckout, EventOf, Checkout, StatusEvent, OtherEvent
  <2>2. event[k].metadata # "missing"
    BY <1>2, <2>1 DEF ReactivateRejected, Reactivates, Exists, CreateRejected, Creates,
                      WebhookInv, AnswersAttributed, Checkout
  <2>3. SubTaken(event[k].slot, event[k].sub) \/
          (CreateRejected(d) /\ Exists(event[k].slot))
    BY <1>2, <2>1 DEF ReactivateRejected, CreateRejected
  <2>4. ConflictExplained(k)
    <3>1. CASE SubTaken(event[k].slot, event[k].sub)
      BY <3>1 DEF SubTaken, ConflictExplained, WebhookInv, SubsBrought, BroughtBy
    <3>2. CASE CreateRejected(d) /\ Exists(event[k].slot)
      BY <2>1, <3>2 DEF CreateRejected, Creates, ConflictExplained, Exists, WebhookInv,
                        CreatesAfterWebhook
    <3>3. QED
      BY <2>3, <3>1, <3>2
  <2>5. QED
    BY <2>2, <2>4 DEF MayBeAcked
<1>3. QED
  BY <1>1, <1>2

(* Ids, locks and written rows of the open transactions stay consistent    *)
(* with the committed ones.                                                *)
LEMMA WebhookStep == WebhookInv /\ [Next]_vars => WebhookInv'
<1> SUFFICES ASSUME WebhookInv, [Next]_vars
             PROVE  WebhookInv'
  OBVIOUS
<1>a. TypeOK
  BY DEF WebhookInv
<1>1. ASSUME NEW d \in Deliveries, NEW e \in EventIds, Deliver(d, e)
      PROVE  WebhookInv'
  <2>1. /\ delivery' \in [Deliveries -> {Idle} \cup Delivery]
        /\ delivery'[d].step = "record" /\ delivery'[d].event = e /\ delivery'[d].slot = None
        /\ \A q \in Deliveries : q # d => delivery'[q] = delivery[q]
    BY <1>a, <1>1 DEF Deliver, TypeOK, Delivery, Row, NoRow
  <2>2. UNCHANGED <<event, entitlements, processed, acked, applied>>
    BY <1>1 DEF Deliver, Unchanged
  <2>3. QED
    BY <2>1, <2>2, QuietStep DEF WebhookInv, TypeOK, InTransaction
<1>2. ASSUME NEW d \in Deliveries, RecordEvent(d)
      PROVE  WebhookInv'
  <2>1. /\ delivery' \in [Deliveries -> {Idle} \cup Delivery]
        /\ delivery'[d].step = "apply" /\ delivery'[d].event = delivery[d].event
        /\ delivery'[d].slot = delivery[d].slot
        /\ \A q \in Deliveries : q # d => delivery'[q] = delivery[q]
    BY <1>a, <1>2, GotoEffect DEF RecordEvent, InTransaction
  <2>2. /\ UNCHANGED <<event, entitlements, processed, acked, applied>>
        /\ delivery[d].step = "record" /\ delivery[d].event \notin processed
        /\ \A q \in Deliveries : Recording(q) => delivery[q].event # delivery[d].event
    BY <1>2 DEF RecordEvent, Unchanged, Recording
  <2>3. QED
    BY <2>1, <2>2, QuietStep DEF WebhookInv, TypeOK, NothingWrittenYet
(* A 200 without a commit. *)
<1>3. ASSUME NEW d \in Deliveries,
             AlreadyProcessed(d) \/ ReactivateRejected(d) \/ CreateRejected(d)
      PROVE  WebhookInv'
  <2>1. delivery[d].step # "idle" /\ Goto(d, "ok")
    BY <1>3 DEF AlreadyProcessed, ReactivateRejected, Reactivates, CreateRejected, Creates
  <2>2. /\ delivery' \in [Deliveries -> {Idle} \cup Delivery]
        /\ delivery'[d].step = "ok" /\ delivery'[d].event = delivery[d].event
        /\ \A q \in Deliveries : q # d => delivery'[q] = delivery[q]
    BY <1>a, <2>1, GotoEffect
  <2>3. UNCHANGED <<event, entitlements, processed, acked, applied>>
    BY <1>3 DEF AlreadyProcessed, ReactivateRejected, CreateRejected, Unchanged
  <2>4. MayBeAcked(delivery[d].event)
    BY <1>3, AnsweredWithoutCommit
  <2>5. QED
    BY <2>2, <2>3, <2>4, QuietStep DEF WebhookInv, TypeOK, InTransaction, EventOf
<1>4. ASSUME NEW d \in Deliveries, NothingToUpdate(d)
      PROVE  WebhookInv'
  <2>1. /\ delivery' \in [Deliveries -> {Idle} \cup Delivery]
        /\ delivery'[d].step = "create" /\ delivery'[d].event = delivery[d].event
        /\ delivery'[d].slot = delivery[d].slot
        /\ \A q \in Deliveries : q # d => delivery'[q] = delivery[q]
    BY <1>a, <1>4, GotoEffect DEF NothingToUpdate, InTransaction
  <2>2. /\ UNCHANGED <<event, entitlements, processed, acked, applied>>
        /\ delivery[d].step = "apply"
        /\ EventOf(d).type = "checkout" /\ EventOf(d).metadata # "missing"
        /\ Exists(EventOf(d).slot) => entitlements[EventOf(d).slot].lastEventAt # None
    BY <1>4 DEF NothingToUpdate, Unchanged, NotStale
  <2>3. QED
    BY <2>1, <2>2, QuietStep DEF WebhookInv, TypeOK, NothingWrittenYet, IdsExclusive, Recording,
       InTransaction, EventOf
<1>5. ASSUME NEW d \in Deliveries, Reactivate(d) \/ Create(d) \/ UpdateStatus(d)
      PROVE  WebhookInv'
  <2>1. PICK s \in Slots, row \in Row :
           /\ Write(d, s, row)
           /\ ~Locked(s)
           /\ EventOf(d).type # "other"
           /\ row.lastEventAt = EventOf(d).created
           /\ row.status = StatusOf(delivery[d].event)
           /\ NotStale(entitlements[s], EventOf(d).created)
           /\ IF EventOf(d).type = "checkout"
              THEN EventOf(d).slot = s /\ EventOf(d).metadata = "complete"
              ELSE EventOf(d).sub = row.sub
           /\ row.sub # None =>
                \E p \in processed \cup {delivery[d].event} : BroughtBy(row.sub, p)
    BY <1>5, WrittenRow
  <2>2. /\ UNCHANGED <<event, entitlements, processed, acked, applied>>
        /\ delivery[d].step \in {"apply", "create"}
    BY <1>5 DEF Reactivate, Reactivates, Create, Creates, UpdateStatus, IsStatus, Unchanged
  <2>3. /\ delivery' \in [Deliveries -> {Idle} \cup Delivery]
        /\ delivery'[d].step = "commit" /\ delivery'[d].event = delivery[d].event
        /\ delivery'[d].slot = s /\ delivery'[d].row = row
        /\ \A q \in Deliveries : q # d => delivery'[q] = delivery[q]
    BY <1>a, <2>1, <2>2, WriteEffect
  <2>4. RowsExclusive'
    BY <2>1, <2>3 DEF WebhookInv, RowsExclusive, Writing, Locked
  <2>5. RowsFollowEvents'
    <3> SUFFICES ASSUME NEW q \in Deliveries, Writing(q)'
                 PROVE  (/\ EventOf(q).type # "other"
                         /\ delivery[q].row.lastEventAt = EventOf(q).created
                         /\ delivery[q].row.status = StatusOf(delivery[q].event)
                         /\ NotStale(entitlements[delivery[q].slot], EventOf(q).created)
                         /\ IF EventOf(q).type = "checkout"
                            THEN EventOf(q).slot = delivery[q].slot
                            ELSE EventOf(q).sub = delivery[q].row.sub)'
      BY DEF RowsFollowEvents
    <3>1. delivery'[q].event = delivery[q].event
      BY <2>3
    <3>2. StatusOf(delivery[q].event)' = StatusOf(delivery[q].event)
      BY <2>2, <3>1 DEF StatusOf
    <3>3. CASE q = d
      BY <2>1, <2>2, <2>3, <3>2, <3>3 DEF EventOf, NotStale
    <3>4. CASE q # d
      BY <2>2, <2>3, <3>2, <3>4 DEF WebhookInv, RowsFollowEvents, Writing, EventOf, NotStale
    <3>5. QED
      BY <3>3, <3>4
  <2>6. AnswersAttributed'
    <3>1. EventOf(d).type = "checkout" => EventOf(d).metadata = "complete"
      BY <2>1
    <3>2. QED
      BY <2>2, <2>3, <3>1, RowsKept DEF WebhookInv, AnswersAttributed, EventOf
  <2>7. AppliedOnce' /\ RecordsAttributed' /\ StateIsExplained'
    BY <2>2, RowsKept
  <2>8. IdsExclusive'
    BY <2>2, <2>3 DEF WebhookInv, IdsExclusive, Recording, InTransaction
  <2>9. TypeOK' /\ UnattributedRefused'
    BY <2>2, <2>3, RowsKept DEF WebhookInv, TypeOK, UnattributedRefused
  <2>10. NothingWrittenYet' /\ CreatesCheckout' /\ CreatesAfterWebhook'
    BY <2>2, <2>3
       DEF WebhookInv, NothingWrittenYet, CreatesCheckout, CreatesAfterWebhook, EventOf, Exists
  <2>11. SubsBrought'
    BY <2>1, <2>2, <2>3 DEF WebhookInv, SubsBrought, BroughtBy, Writing
  <2>12. QED
    BY <2>4, <2>5, <2>6, <2>7, <2>8, <2>9, <2>10, <2>11 DEF WebhookInv
(* An event without effect goes straight to its commit. *)
<1>6. ASSUME NEW d \in Deliveries, StatusUnmatched(d) \/ IgnoreOther(d)
      PROVE  WebhookInv'
  <2>1. /\ UNCHANGED <<event, entitlements, processed, acked, applied>>
        /\ delivery[d].step = "apply" /\ Goto(d, "commit")
        /\ EventOf(d).type # "checkout"
    BY <1>6 DEF StatusUnmatched, IsStatus, IgnoreOther, Unchanged
  <2>2. /\ delivery' \in [Deliveries -> {Idle} \cup Delivery]
        /\ delivery'[d].step = "commit" /\ delivery'[d].event = delivery[d].event
        /\ delivery'[d].slot = None
        /\ \A q \in Deliveries : q # d => delivery'[q] = delivery[q]
    BY <1>a, <2>1, GotoEffect DEF WebhookInv, NothingWrittenYet, InTransaction
  <2>3. QED
    BY <2>1, <2>2, QuietStep DEF WebhookInv, TypeOK, IdsExclusive, Recording, InTransaction,
       EventOf
<1>7. ASSUME NEW d \in Deliveries, Commit(d)
      PROVE  WebhookInv'
  <2> DEFINE e == delivery[d].event
             s == delivery[d].slot
  <2>1. /\ delivery[d].step = "commit" /\ delivery[d] \in Delivery
        /\ e \in EventIds /\ Recording(d) /\ e \notin processed
    BY <1>a, <1>7, DeliveryShape
       DEF Commit, WebhookInv, IdsExclusive, Recording, InTransaction, Delivery
  <2>2. /\ delivery' \in [Deliveries -> {Idle} \cup Delivery]
        /\ delivery'[d].step = "ok" /\ delivery'[d].event = e
        /\ \A q \in Deliveries : q # d => delivery'[q] = delivery[q]
    BY <1>a, <1>7, GotoEffect DEF Commit
  <2>3. processed' = processed \cup {e} /\ UNCHANGED <<event, acked>>
    BY <1>7 DEF Commit
  <2>4. /\ s = None => UNCHANGED <<entitlements, applied>>
        /\ s # None => /\ s \in Slots
                       /\ entitlements' = [entitlements EXCEPT ![s] = delivery[d].row]
                       /\ applied' = [applied EXCEPT ![e] = @ + 1]
    BY <1>7, <2>1 DEF Commit, Delivery
  <2>5. applied[e] = 0
    BY <1>a, <2>1 DEF WebhookInv, AppliedOnce, TypeOK
  <2>6. event[e].type = "checkout" => event[e].metadata = "complete"
    BY <2>1 DEF WebhookInv, AnswersAttributed, EventOf
  <2>7. TypeOK'
    BY <1>a, <2>1, <2>2, <2>3, <2>4 DEF TypeOK, Delivery
  <2>8. AppliedOnce'
    BY <1>a, <2>1, <2>3, <2>4, <2>5 DEF WebhookInv, AppliedOnce, TypeOK
  <2>9. s # None => /\ delivery[d].row.lastEventAt # None
                    /\ delivery[d].row.sub # None =>
                         \E p \in processed' : BroughtBy(delivery[d].row.sub, p)
    BY <2>1, <2>3, WrittenTimes, NoneAssumption DEF WebhookInv, SubsBrought, Writing
  <2>10. \A t \in Slots : \/ entitlements'[t] = entitlements[t]
                          \/ t = s /\ s # None /\ entitlements'[t] = delivery[d].row
    BY <1>a, <2>4 DEF TypeOK
  <2>11. \A k : MayBeAcked(k) => MayBeAcked(k)'
    BY <2>3, <2>9, <2>10 DEF MayBeAcked, ConflictExplained
  <2>12. UnattributedRefused' /\ RecordsAttributed'
    BY <2>3, <2>6, <2>11 DEF WebhookInv, UnattributedRefused, RecordsAttributed
  <2>13. StateIsExplained'
    <3> SUFFICES ASSUME NEW t \in Slots, entitlements'[t].lastEventAt # None
                 PROVE  \E k \in processed' :
                          /\ event[k].type # "other"
                          /\ event[k].created = entitlements'[t].lastEventAt
                          /\ StatusOf(k) = entitlements'[t].status
                          /\ \/ event[k].type = "checkout" /\ event[k].slot = t
                             \/ event[k].type # "checkout" /\ event[k].sub = entitlements'[t].sub
      BY <2>3 DEF StateIsExplained, StatusOf
    <3>1. CASE t = s
      <4>1. s # None /\ entitlements'[s] = delivery[d].row
        BY <1>a, <2>4, <3>1 DEF TypeOK
      <4>2. /\ event[e].type # "other"
            /\ delivery[d].row.lastEventAt = event[e].created
            /\ delivery[d].row.status = StatusOf(e)
            /\ IF event[e].type = "checkout" THEN event[e].slot = s
                                             ELSE event[e].sub = delivery[d].row.sub
        BY <2>1, <4>1 DEF WebhookInv, RowsFollowEvents, Writing, EventOf
      <4>3. QED
        BY <2>3, <3>1, <4>1, <4>2
    <3>2. CASE t # s
      <4>1. entitlements'[t] = entitlements[t]
        BY <1>a, <2>4, <3>2 DEF TypeOK
      <4>2. QED
        BY <2>3, <4>1 DEF WebhookInv, StateIsExplained
    <3>3. QED
      BY <3>1, <3>2
  <2>14. IdsExclusive'
    BY <2>1, <2>2, <2>3 DEF WebhookInv, IdsExclusive, Recording, InTransaction
  <2>15. RowsExclusive'
    BY <2>2 DEF WebhookInv, RowsExclusive, Writing
  <2>16. RowsFollowEvents'
    <3> SUFFICES ASSUME NEW q \in Deliveries, Writing(q)'
                 PROVE  /\ event[delivery'[q].event].type # "other"
                        /\ delivery'[q].row.lastEventAt = event[delivery'[q].event].created
                        /\ delivery'[q].row.status = StatusOf(delivery'[q].event)
                        /\ NotStale(entitlements'[delivery'[q].slot],
                                    event[delivery'[q].event].created)
                        /\ IF event[delivery'[q].event].type = "checkout"
                           THEN event[delivery'[q].event].slot = delivery'[q].slot
                           ELSE event[delivery'[q].event].sub = delivery'[q].row.sub
      BY <2>3 DEF RowsFollowEvents, EventOf, StatusOf, NotStale
    <3>1. q # d /\ delivery'[q] = delivery[q] /\ Writing(q)
      BY <2>2 DEF Writing
    <3>2. delivery[q].slot # s
      BY <2>1, <3>1 DEF WebhookInv, RowsExclusive, Writing
    <3>3. entitlements'[delivery[q].slot] = entitlements[delivery[q].slot]
      <4>1. delivery[q].slot \in Slots
        BY <1>a, <3>1, DeliveryShape DEF Writing, Delivery
      <4>2. QED
        BY <1>a, <2>4, <3>2, <4>1 DEF TypeOK
    <3>4. QED
      BY <3>1, <3>3 DEF WebhookInv, RowsFollowEvents, EventOf
  <2>17. NothingWrittenYet' /\ CreatesCheckout'
    BY <2>2, <2>3 DEF WebhookInv, NothingWrittenYet, CreatesCheckout, EventOf
  <2>18. AnswersAttributed'
    <3>1. MayBeAcked(e)'
      BY <2>2, <2>3, <2>6 DEF MayBeAcked
    <3>2. QED
      BY <2>2, <2>3, <2>11, <3>1 DEF WebhookInv, AnswersAttributed, EventOf
  <2>19. CreatesAfterWebhook'
    BY <2>2, <2>3, <2>9, <2>10 DEF WebhookInv, CreatesAfterWebhook, EventOf, Exists
  <2>20. SubsBrought'
    <3>1. \A t \in Slots : entitlements'[t].sub # None =>
            \E p \in processed' : BroughtBy(entitlements'[t].sub, p)
      BY <2>3, <2>9, <2>10 DEF WebhookInv, SubsBrought
    <3>2. QED
      BY <2>2, <2>3, <3>1 DEF WebhookInv, SubsBrought, BroughtBy, Writing
  <2>21. QED
    BY <2>7, <2>8, <2>12, <2>13, <2>14, <2>15, <2>16, <2>17, <2>18, <2>19, <2>20 DEF WebhookInv
<1>8. ASSUME NEW d \in Deliveries, Respond(d)
      PROVE  WebhookInv'
  <2>1. /\ delivery' \in [Deliveries -> {Idle} \cup Delivery]
        /\ delivery'[d].step = "idle"
        /\ \A q \in Deliveries : q # d => delivery'[q] = delivery[q]
    BY <1>a, <1>8 DEF Respond, TypeOK, Idle
  <2>2. /\ acked' = acked \cup {delivery[d].event}
        /\ delivery[d].event \in EventIds
        /\ MayBeAcked(delivery[d].event)
        /\ UNCHANGED <<event, entitlements, processed, applied>>
    BY <1>a, <1>8, DeliveryShape DEF Respond, WebhookInv, AnswersAttributed
  <2>3. QED
    BY <2>1, <2>2, QuietStep DEF WebhookInv, TypeOK, InTransaction, EventOf
(* A rollback. *)
<1>9. ASSUME NEW d \in Deliveries,
             IncompleteMetadata(d) \/ UnknownReference(d) \/ Crash(d)
      PROVE  WebhookInv'
  <2>1. /\ delivery' = [delivery EXCEPT ![d] = Idle]
        /\ UNCHANGED <<event, entitlements, processed, acked, applied>>
    BY <1>9 DEF IncompleteMetadata, UnknownReference, Crash, Unchanged
  <2>2. /\ delivery' \in [Deliveries -> {Idle} \cup Delivery]
        /\ delivery'[d].step = "idle"
        /\ \A q \in Deliveries : q # d => delivery'[q] = delivery[q]
    BY <1>a, <2>1 DEF TypeOK, Idle
  <2>3. QED
    BY <2>1, <2>2, QuietStep DEF WebhookInv, TypeOK, InTransaction
<1>10. CASE UNCHANGED vars
  <2>1. UNCHANGED <<event, entitlements, processed, acked, applied, delivery>>
    BY <1>10 DEF vars
  <2>2. RowsFollowEvents'
    BY <2>1, RowsKept DEF WebhookInv, RowsFollowEvents, Writing, EventOf, NotStale, StatusOf
  <2>3. QED
    BY <1>a, <2>1, <2>2, RowsKept
       DEF WebhookInv, TypeOK, UnattributedRefused, IdsExclusive, RowsExclusive,
           NothingWrittenYet, CreatesCheckout, AnswersAttributed, CreatesAfterWebhook,
           SubsBrought, BroughtBy, Recording, Writing, EventOf, Exists
<1>11. QED
  BY <1>1, <1>2, <1>3, <1>4, <1>5, <1>6, <1>7, <1>8, <1>9, <1>10 DEF Next, Step

(* A freshly provisioned database, before any delivery, is consistent.     *)
LEMMA WebhookInit == Init => WebhookInv
  BY DEF Init, WebhookInv, TypeOK, AppliedOnce, UnattributedRefused, StateIsExplained,
     IdsExclusive, RowsExclusive, RowsFollowEvents, NothingWrittenYet, CreatesCheckout,
     AnswersAttributed, RecordsAttributed, CreatesAfterWebhook, SubsBrought, Recording,
     Writing, InTransaction, Idle, NoRow, TrialRow, Row

(* A payment event changes an entitlement at most once, however often and  *)
(* concurrently Stripe delivers it: handleEvent records the id in the same *)
(* transaction as the effect.                                              *)
THEOREM EffectOnce == Spec => []AppliedOnce
<1>1. WebhookInv => AppliedOnce
  BY DEF WebhookInv
<1>2. QED
  BY <1>1, WebhookInit, WebhookStep, PTL DEF Spec

(* A paid checkout without metadata is never answered with 200, so that    *)
(* Stripe reports it as failed; one that names no known tenant, module or  *)
(* plan only where handleCheckoutSessionCompleted swallows a P2002, and    *)
(* then another event wrote its slot or brought its subscription.          *)
THEOREM NoSilentLoss == Spec => []UnattributedRefused
<1>1. WebhookInv => UnattributedRefused
  BY DEF WebhookInv
<1>2. QED
  BY <1>1, WebhookInit, WebhookStep, PTL DEF Spec

(* No entitlement has a status that no recorded payment event gave it.     *)
THEOREM Explained == Spec => []StateIsExplained
<1>1. WebhookInv => StateIsExplained
  BY DEF WebhookInv
<1>2. QED
  BY <1>1, WebhookInit, WebhookStep, PTL DEF Spec

(* An event that is older than the stored state never overwrites it: the   *)
(* guard was evaluated on the very row that the commit replaces.           *)
THEOREM Ordered == Spec => NeverRegresses
<1> DEFINE Kept == \A s \in Slots : Exists(s) =>
                     /\ Exists(s)'
                     /\ entitlements'[s] # entitlements[s] /\ entitlements[s].lastEventAt # None =>
                          entitlements'[s].lastEventAt >= entitlements[s].lastEventAt
<1>1. WebhookInv /\ [Next]_vars => [Kept]_vars
  <2> SUFFICES ASSUME WebhookInv, Next, NEW s \in Slots, Exists(s)
               PROVE  /\ Exists(s)'
                      /\ entitlements'[s] # entitlements[s] /\ entitlements[s].lastEventAt # None =>
                           entitlements'[s].lastEventAt >= entitlements[s].lastEventAt
    OBVIOUS
  <2>1. CASE entitlements' = entitlements
    BY <2>1 DEF Exists
  <2>2. ASSUME NEW d \in Deliveries, Commit(d), entitlements'[s] # entitlements[s]
        PROVE  /\ Writing(d) /\ delivery[d].slot = s
               /\ entitlements'[s] = delivery[d].row
    BY <2>2 DEF Commit, Writing, WebhookInv, TypeOK
  <2>3. ASSUME NEW d \in Deliveries, Commit(d), entitlements'[s] # entitlements[s]
        PROVE  /\ entitlements'[s].status # "none"
               /\ entitlements[s].lastEventAt # None =>
                    entitlements'[s].lastEventAt >= entitlements[s].lastEventAt
    <3>1. delivery[d].event \in EventIds /\ EventOf(d).type # "other"
      BY <2>2, <2>3, DeliveryShape DEF WebhookInv, RowsFollowEvents, Writing
    <3>2. StatusOf(delivery[d].event) # "none"
      BY <3>1, StatusReal DEF WebhookInv, EventOf
    <3>3. NotStale(entitlements[s], EventOf(d).created)
      BY <2>2, <2>3 DEF WebhookInv, RowsFollowEvents
    <3>4. EventOf(d).created \in Times
      BY <3>1 DEF WebhookInv, TypeOK, EventOf, Checkout, StatusEvent, OtherEvent
    <3>5. entitlements[s].lastEventAt \in Times \cup {None}
      BY DEF WebhookInv, TypeOK, Row
    <3>6. /\ entitlements'[s].lastEventAt = EventOf(d).created
          /\ entitlements'[s].status = StatusOf(delivery[d].event)
      BY <2>2, <2>3 DEF WebhookInv, RowsFollowEvents
    <3>7. entitlements[s].lastEventAt # None =>
            EventOf(d).created >= entitlements[s].lastEventAt
      BY <3>3, <3>4, <3>5 DEF NotStale
    <3>8. QED
      BY <3>2, <3>6, <3>7
  <2>4. QED
    BY <2>1, <2>3
       DEF Exists, Next, Step, Unchanged, Deliver, RecordEvent, AlreadyProcessed,
           IncompleteMetadata, UnknownReference, Reactivate, ReactivateRejected, NothingToUpdate, Create,
           CreateRejected, UpdateStatus, StatusUnmatched, IgnoreOther, Respond, Crash
<1>2. QED
  BY <1>1, WebhookInit, WebhookStep, PTL DEF Spec, NeverRegresses

(* The inductive invariant itself: entitlements, recorded events and the   *)
(* deliveries under way fit together in every reachable state.             *)
THEOREM WebhookInvariant == Spec => []WebhookInv
  BY WebhookInit, WebhookStep, PTL DEF Spec

-----------------------------------------------------------------------------
(* Acknowledged checkouts. *)

(* A row changes by a commit that writes it, and the row it gets is not    *)
(* older than the one it had.                                              *)
LEMMA RowChange ==
  ASSUME WebhookInv, [Next]_vars, NEW s \in Slots, entitlements'[s] # entitlements[s]
  PROVE  \E d \in Deliveries :
           /\ Commit(d) /\ Writing(d)
           /\ delivery[d].slot = s
           /\ entitlements'[s] = delivery[d].row
<1>1. ASSUME NEW d \in Deliveries, Commit(d)
      PROVE  /\ Writing(d) /\ delivery[d].slot = s
             /\ entitlements'[s] = delivery[d].row
  BY <1>1 DEF Commit, Writing, WebhookInv, TypeOK
<1>2. \E d \in Deliveries : Commit(d)
  BY DEF vars, Next, Step, Unchanged, Deliver, RecordEvent, AlreadyProcessed,
         IncompleteMetadata, UnknownReference, Reactivate, ReactivateRejected, NothingToUpdate, Create,
         CreateRejected, UpdateStatus, StatusUnmatched, IgnoreOther, Respond, Crash
<1>3. QED
  BY <1>1, <1>2

(* Complete metadata names a slot. *)
LEMMA CompleteNames ==
  ASSUME TypeOK, NEW e \in EventIds, event[e].type = "checkout",
         event[e].metadata = "complete"
  PROVE  event[e].slot \in Slots
  BY DEF TypeOK, Checkout, StatusEvent, OtherEvent

(* What is in force stays in force. *)
LEMMA StaysReflected ==
  ASSUME WebhookInv, [Next]_vars, NEW e \in EventIds, Reflected(e)
  PROVE  Reflected(e)'
<1> SUFFICES ASSUME event'[e].type = "checkout", event'[e].metadata = "complete"
             PROVE  /\ entitlements'[event'[e].slot].lastEventAt # None
                    /\ entitlements'[event'[e].slot].lastEventAt >= event'[e].created
  BY DEF Reflected
<1> DEFINE s == event[e].slot
           old == entitlements[s].lastEventAt
           new == entitlements'[s].lastEventAt
<1>1. event' = event
  BY DEF vars, Next, Step, Unchanged, Deliver, RecordEvent, AlreadyProcessed,
         IncompleteMetadata, UnknownReference, Reactivate, ReactivateRejected, NothingToUpdate, Create,
         CreateRejected, UpdateStatus, StatusUnmatched, IgnoreOther, Commit, Respond, Crash
<1>2. s \in Slots /\ old # None /\ old >= event[e].created
  BY <1>1, CompleteNames DEF Reflected, WebhookInv
<1>3. old \in Times /\ event[e].created \in Times
  BY <1>1, <1>2 DEF WebhookInv, TypeOK, Row, Checkout, StatusEvent, OtherEvent
<1>4. CASE entitlements'[s] = entitlements[s]
  BY <1>1, <1>2, <1>4
<1>5. CASE entitlements'[s] # entitlements[s]
  <2> HIDE DEF s
  <2>1. PICK d \in Deliveries : /\ Writing(d) /\ delivery[d].slot = s
                                /\ entitlements'[s] = delivery[d].row
    BY <1>2, <1>5, RowChange
  <2>2. new = EventOf(d).created /\ new \in Times /\ NotStale(entitlements[s], new)
    BY <2>1, WrittenTimes
  <2>3. old <= new
    BY <1>2, <2>2 DEF NotStale
  <2>4. new # None
    BY <2>2, NoneAssumption
  <2>5. new >= event[e].created
    <3>1. old \in Nat /\ new \in Nat /\ event[e].created \in Nat
      BY <1>3, <2>2, TimesAssumption
    <3> HIDE DEF old, new
    <3>2. QED
      BY <1>2, <2>3, <3>1
  <2>6. QED
    BY <1>1, <2>4, <2>5 DEF s
<1>6. QED
  BY <1>4, <1>5

(* A checkout's subscription is not in the row of another slot. *)
LEMMA NoConflict ==
  ASSUME ReflectedInv, NEW e \in EventIds, event[e].type = "checkout",
         event[e].metadata = "complete"
  PROVE  ~SubTaken(event[e].slot, event[e].sub)
<1> SUFFICES ASSUME event[e].sub # None, NEW t \in Slots, t # event[e].slot,
                    entitlements[t].sub = event[e].sub
             PROVE  FALSE
  BY DEF SubTaken
<1>1. PICK f \in EventIds : /\ event[f].type = "checkout"
                            /\ event[f].metadata = "complete"
                            /\ event[f].slot = t
                            /\ event[f].sub = event[e].sub
  BY DEF ReflectedInv, SubsExplained, CameWithCheckout
<1>2. QED
  BY <1>1, NoneAssumption DEF ReflectedInv, SubscriptionsOwned

(* A delivery that moves on without changing a committed row. *)
LEMMA ReflectedQuiet ==
  ASSUME ReflectedInv, [Next]_vars, UNCHANGED <<event, entitlements, processed>>,
         NEW d \in Deliveries,
         \A q \in Deliveries : q # d => delivery'[q] = delivery[q],
         acked' \subseteq EventIds,
         \A e \in acked' : e \notin acked => Reflected(e),
         delivery'[d].step = "commit" =>
           /\ IF event[delivery'[d].event].type = "checkout"
              THEN delivery'[d].slot # None
              ELSE delivery'[d].slot # None => Exists(delivery'[d].slot)
           /\ \A s \in Slots : delivery'[d].slot = s =>
                CameWithCheckout(delivery'[d].row.sub, s),
         \A e \in EventIds : delivery'[d].event = e =>
           /\ delivery'[d].step = "create" => ~Exists(event[e].slot) \/ Reflected(e)
           /\ delivery'[d].step = "ok" => Reflected(e)
  PROVE  ReflectedInv'
<1>1. WebhookInv'
  BY WebhookStep DEF ReflectedInv
<1>2. SubscriptionsOwned'
  BY DEF ReflectedInv, SubscriptionsOwned
<1>3. SubsExplained'
  BY DEF ReflectedInv, SubsExplained, CameWithCheckout, Exists
<1>4. WritesItsRow'
  BY DEF ReflectedInv, WritesItsRow, EventOf, Exists
<1>5. \A e \in EventIds : Reflected(e)' <=> Reflected(e)
  BY DEF Reflected
<1>6. \A q \in Deliveries, e \in EventIds : delivery'[q].event = e =>
        /\ delivery'[q].step = "create" => ~Exists(event[e].slot) \/ Reflected(e)
        /\ delivery'[q].step = "ok" => Reflected(e)
  BY DEF ReflectedInv, AnswersReflected
<1>7. \A e \in EventIds : Exists(event[e].slot)' <=> Exists(event[e].slot)
  BY DEF Exists
<1>8. \A e \in processed : Reflected(e) /\ e \in EventIds
  BY DEF ReflectedInv, AnswersReflected, WebhookInv, TypeOK
<1>9. AnswersReflected'
  BY <1>5, <1>6, <1>7, <1>8 DEF AnswersReflected
<1>10. \A e \in acked' : Reflected(e)
  BY DEF ReflectedInv, CheckoutReflected, Reflected
<1>11. CheckoutReflected'
  BY <1>10 DEF CheckoutReflected, Reflected
<1>12. QED
  BY <1>1, <1>2, <1>3, <1>4, <1>9, <1>11 DEF ReflectedInv

(* The commit of a checkout puts it in force; it puts no other checkout's  *)
(* row in the way of an insert, because that other one is not of its slot. *)
LEMMA ReflectedCommit ==
  ASSUME ReflectedInv, CheckoutsApart, NEW d \in Deliveries, Commit(d),
         NEW f, f = delivery[d].event, NEW t, t = delivery[d].slot
  PROVE  ReflectedInv'
<1>0. [Next]_vars
  BY DEF Next, Step
<1>a. WebhookInv /\ TypeOK /\ SubsExplained /\ WritesItsRow /\ AnswersReflected
  BY DEF ReflectedInv, WebhookInv
<1>b. WebhookInv'
  BY <1>0, <1>a, WebhookStep
<1>1. /\ delivery[d].step = "commit" /\ delivery[d] \in Delivery
      /\ f \in EventIds /\ Recording(d)
  BY <1>a, DeliveryShape DEF Commit, Recording, InTransaction, Delivery
<1>2. /\ delivery'[d].step = "ok" /\ delivery'[d].event = f
      /\ \A q \in Deliveries : q # d => delivery'[q] = delivery[q]
  BY <1>a, GotoEffect DEF Commit
<1>3. processed' = processed \cup {f} /\ UNCHANGED <<event, acked>>
  BY DEF Commit
<1>4. \A s \in Slots :
        IF t = s THEN entitlements'[s] = delivery[d].row
                 ELSE entitlements'[s] = entitlements[s]
  BY <1>a, <1>1, NoneAssumption DEF Commit, TypeOK, Delivery
<1>5. \A s \in Slots : t = s =>
        /\ delivery[d].row.lastEventAt = event[f].created
        /\ delivery[d].row.lastEventAt # None
        /\ delivery[d].row.lastEventAt >= event[f].created
        /\ delivery[d].row.status # "none"
  <2> SUFFICES ASSUME NEW s \in Slots, t = s
               PROVE  /\ delivery[d].row.lastEventAt = event[f].created
                      /\ delivery[d].row.lastEventAt # None
                      /\ delivery[d].row.lastEventAt >= event[f].created
                      /\ delivery[d].row.status # "none"
    OBVIOUS
  <2>1. Writing(d)
    BY <1>1, NoneAssumption DEF Writing
  <2>2. /\ delivery[d].row.lastEventAt = event[f].created
        /\ event[f].created \in Times
        /\ delivery[d].row.status # "none"
    BY <1>a, <2>1, WrittenTimes DEF EventOf
  <2>3. event[f].created \in Nat /\ event[f].created # None
    BY <2>2, TimesAssumption, NoneAssumption
  <2>4. QED
    BY <2>2, <2>3
<1>6. \A e \in EventIds : Reflected(e) => Reflected(e)'
  BY <1>0, <1>a, StaysReflected
(* What was committed is in force. *)
<1>7. Reflected(f)'
  <2> SUFFICES ASSUME event[f].type = "checkout", event[f].metadata = "complete"
               PROVE  /\ entitlements'[event[f].slot].lastEventAt # None
                      /\ entitlements'[event[f].slot].lastEventAt >= event[f].created
    BY <1>3 DEF Reflected
  <2>1. Writing(d)
    BY <1>a, <1>1 DEF WritesItsRow, Writing, EventOf
  <2>2. event[f].slot = t /\ t \in Slots
    BY <1>a, <1>1, <2>1, CompleteNames DEF WebhookInv, RowsFollowEvents, EventOf
  <2>3. QED
    BY <1>4, <1>5, <2>2
<1>8. SubscriptionsOwned'
  BY <1>3 DEF ReflectedInv, SubscriptionsOwned
<1>9. SubsExplained'
  <2>1. ASSUME NEW s \in Slots
        PROVE  /\ CameWithCheckout(entitlements'[s].sub, s)
               /\ entitlements'[s].sub # None => Exists(s)'
    <3>1. CASE t = s
      <4>1. entitlements'[s] = delivery[d].row /\ entitlements'[s].status # "none"
        BY <1>4, <1>5, <3>1
      <4>2. CameWithCheckout(delivery[d].row.sub, s)
        BY <1>a, <1>1, <3>1 DEF SubsExplained
      <4>3. QED
        BY <4>1, <4>2 DEF Exists
    <3>2. CASE t # s
      BY <1>a, <1>4, <3>2 DEF SubsExplained, Exists
    <3>3. QED
      BY <3>1, <3>2
  <2>2. ASSUME NEW q \in Deliveries, NEW s \in Slots,
               delivery'[q].step = "commit", delivery'[q].slot = s
        PROVE  CameWithCheckout(delivery'[q].row.sub, s)
    BY <1>a, <1>2, <2>2 DEF SubsExplained
  <2>3. QED
    BY <1>3, <2>1, <2>2 DEF SubsExplained, CameWithCheckout
(* No row goes away. *)
<1>10. \A s \in Slots : Exists(s) => Exists(s)'
  BY <1>4, <1>5 DEF Exists
<1>11. WritesItsRow'
  <2> SUFFICES ASSUME NEW q \in Deliveries, delivery'[q].step = "commit"
               PROVE  IF event[delivery'[q].event].type = "checkout"
                      THEN delivery'[q].slot # None
                      ELSE delivery'[q].slot # None =>
                             /\ delivery'[q].slot \in Slots
                             /\ entitlements'[delivery'[q].slot].status # "none"
    BY <1>3 DEF WritesItsRow, EventOf, Exists
  <2>1. q # d /\ delivery'[q] = delivery[q]
    BY <1>2
  <2>2. delivery[q].slot \in Slots \cup {None}
    BY <1>a, <2>1, DeliveryShape DEF Delivery
  <2>3. QED
    BY <1>a, <1>10, <2>1, <2>2 DEF WritesItsRow, EventOf, Exists
<1>12. AnswersReflected'
  <2>1. ASSUME NEW q \in Deliveries, NEW e \in EventIds,
               delivery'[q].step = "create", delivery'[q].event = e,
               entitlements'[event[e].slot].status # "none"
        PROVE  Reflected(e)'
    <3>1. q # d /\ delivery'[q] = delivery[q]
      BY <1>2, <2>1
    <3>2. CASE Reflected(e)
      BY <1>6, <3>2
    <3>3. CASE ~Reflected(e)
      <4>1. event[e].type = "checkout" /\ event[e].metadata = "complete"
        BY <3>3 DEF Reflected
      <4>2. event[e].slot \in Slots
        BY <1>a, <4>1, CompleteNames
      <4>3. ~Exists(event[e].slot)
        BY <1>a, <2>1, <3>1, <3>3 DEF AnswersReflected
      <4>4. t = event[e].slot
        BY <1>4, <2>1, <4>2, <4>3 DEF Exists
      <4>5. event[f].type = "checkout" /\ event[f].slot = t /\ event[f].metadata = "complete"
        <5>1. Writing(d)
          BY <1>1, <4>2, <4>4, NoneAssumption DEF Writing
        <5>2. event[f].type = "checkout"
          BY <1>a, <1>1, <4>2, <4>3, <4>4, NoneAssumption DEF WritesItsRow, EventOf
        <5>3. QED
          BY <1>a, <1>1, <5>1, <5>2 DEF WebhookInv, RowsFollowEvents, AnswersAttributed, EventOf
      <4>6. CheckoutOpen(d)
        BY <1>1, <4>5 DEF CheckoutOpen, EventOf
      <4>7. CheckoutOpen(q)
        BY <2>1, <3>1, <4>1 DEF CheckoutOpen, Recording, InTransaction, EventOf
      <4>8. EventOf(q).slot = EventOf(d).slot
        BY <2>1, <3>1, <4>4, <4>5 DEF EventOf
      <4>9. QED
        BY <3>1, <4>6, <4>7, <4>8 DEF CheckoutsApart
    <3>4. QED
      BY <3>2, <3>3
  <2>2. \A e \in processed' : Reflected(e)'
    BY <1>3, <1>6, <1>7, <1>a DEF AnswersReflected, TypeOK
  <2>3. ASSUME NEW q \in Deliveries, NEW e \in EventIds,
               delivery'[q].step = "ok", delivery'[q].event = e
        PROVE  Reflected(e)'
    <3>1. CASE q = d
      BY <1>2, <1>7, <2>3, <3>1
    <3>2. CASE q # d
      BY <1>2, <1>6, <1>a, <2>3, <3>2 DEF AnswersReflected
    <3>3. QED
      BY <3>1, <3>2
  <2>4. QED
    BY <1>3, <2>1, <2>2, <2>3 DEF AnswersReflected, Exists
<1>13. CheckoutReflected'
  <2>1. \A e \in acked : Reflected(e)' /\ e \in EventIds
    BY <1>6, <1>a DEF ReflectedInv, CheckoutReflected, Reflected, TypeOK
  <2>2. QED
    BY <1>3, <2>1 DEF CheckoutReflected, Reflected
<1>14. QED
  BY <1>b, <1>8, <1>9, <1>11, <1>12, <1>13 DEF ReflectedInv


(* The statements that write a row: a subscription that enters it came     *)
(* with the checkout that writes it, or was in the row before.             *)
LEMMA ReflectedWrite ==
  ASSUME ReflectedInv, NEW d \in Deliveries,
         Reactivate(d) \/ Create(d) \/ UpdateStatus(d)
  PROVE  ReflectedInv'
<1>0. [Next]_vars
  BY DEF Next, Step
<1>a. WebhookInv /\ TypeOK /\ SubsExplained
  BY DEF ReflectedInv, WebhookInv
<1>1. /\ delivery[d].step \in {"apply", "create"}
      /\ UNCHANGED <<event, entitlements, processed, acked, applied>>
  BY DEF Reactivate, Reactivates, Create, Creates, UpdateStatus, IsStatus, Unchanged
<1>2. delivery[d].event \in EventIds /\ EventOf(d) \in Checkout \cup StatusEvent \cup OtherEvent
  BY <1>a, <1>1, DeliveryShape
<1>3. CASE Reactivate(d) \/ Create(d)
  <2> DEFINE e == EventOf(d)
  <2>1. e.type = "checkout" /\ e.metadata = "complete" /\ e.slot \in Slots
    BY <1>a, <1>3, WrittenCheckout
  <2>2. e \in Checkout
    BY <1>a, <1>3, WrittenCheckout
  <2>3. Activated(e.slot, e) \in Row
    BY <1>a, <2>1, <2>2 DEF Activated, Checkout, Row, TypeOK
  <2>4. /\ delivery'[d].step = "commit" /\ delivery'[d].event = delivery[d].event
        /\ delivery'[d].slot = e.slot /\ delivery'[d].row = Activated(e.slot, e)
        /\ \A q \in Deliveries : q # d => delivery'[q] = delivery[q]
    <3>1. Write(d, e.slot, Activated(e.slot, e))
      BY <1>3 DEF Reactivate, Create
    <3>2. delivery[d].step # "idle"
      BY <1>1
    <3> HIDE DEF e
    <3>3. QED
      BY <1>a, <2>1, <2>3, <3>1, <3>2, WriteEffect
  <2>5. CameWithCheckout(Activated(e.slot, e).sub, e.slot)
    <3>1. CASE e.sub = None
      BY <1>a, <2>1, <3>1 DEF Activated, SubsExplained
    <3>2. CASE e.sub # None
      BY <1>2, <2>1, <3>2 DEF Activated, CameWithCheckout, EventOf
    <3>3. QED
      BY <3>1, <3>2
  <2>6. event[delivery'[d].event].type = "checkout" /\ delivery'[d].slot # None
    BY <2>1, <2>4, NoneAssumption DEF EventOf
  <2>7. \A s \in Slots : delivery'[d].slot = s => CameWithCheckout(delivery'[d].row.sub, s)
    BY <2>4, <2>5
  <2> HIDE DEF e
  <2>8. QED
    BY <1>0, <1>a, <1>1, <2>4, <2>6, <2>7, ReflectedQuiet DEF TypeOK
<1>4. CASE UpdateStatus(d)
  <2>1. PICK s \in Matching(EventOf(d)) :
          Write(d, s, [entitlements[s] EXCEPT !.status = StatusOf(delivery[d].event),
                                              !.lastEventAt = EventOf(d).created])
    BY <1>4 DEF UpdateStatus
  <2> DEFINE row == [entitlements[s] EXCEPT !.status = StatusOf(delivery[d].event),
                                            !.lastEventAt = EventOf(d).created]
  <2>2. EventOf(d).type \in {"payment_failed", "payment_succeeded", "deleted"}
    BY <1>4 DEF UpdateStatus, IsStatus
  <2>3. /\ s \in Slots /\ entitlements[s] \in Row
        /\ entitlements[s].sub # None
    BY <1>a, <2>1 DEF Matching, TypeOK
  <2>4. Exists(s) /\ CameWithCheckout(entitlements[s].sub, s)
    BY <1>a, <2>3 DEF SubsExplained
  <2>5. StatusOf(delivery[d].event) \in {"active", "past_due", "canceled"}
    BY <2>2 DEF StatusOf, EventOf
  <2>6. EventOf(d).created \in Times
    BY <1>2, <2>2 DEF Checkout, StatusEvent, OtherEvent
  <2>7. row \in Row /\ row.sub = entitlements[s].sub
    BY <2>3, <2>5, <2>6 DEF Row
  <2>8. /\ delivery'[d].step = "commit" /\ delivery'[d].event = delivery[d].event
        /\ delivery'[d].slot = s /\ delivery'[d].row = row
        /\ \A q \in Deliveries : q # d => delivery'[q] = delivery[q]
    <3>1. Write(d, s, row)
      BY <2>1
    <3>2. delivery[d].step # "idle"
      BY <1>1
    <3> HIDE DEF row
    <3>3. QED
      BY <1>a, <2>3, <2>7, <3>1, <3>2, WriteEffect
  <2>9. event[delivery'[d].event].type # "checkout" /\ Exists(delivery'[d].slot)
    BY <2>2, <2>4, <2>8 DEF EventOf
  <2>10. \A u \in Slots : delivery'[d].slot = u => CameWithCheckout(delivery'[d].row.sub, u)
    BY <2>4, <2>7, <2>8
  <2> HIDE DEF row
  <2>11. QED
    BY <1>0, <1>a, <1>1, <2>8, <2>9, <2>10, ReflectedQuiet DEF TypeOK
<1>5. QED
  BY <1>3, <1>4

(* The answers without a commit: an event that is recorded, an insert that *)
(* fails because the row is there; no update fails on a subscription.      *)
LEMMA ReflectedAnswer ==
  ASSUME ReflectedInv, NEW d \in Deliveries,
         AlreadyProcessed(d) \/ ReactivateRejected(d) \/ CreateRejected(d)
  PROVE  Reflected(delivery[d].event)
<1>a. WebhookInv /\ TypeOK /\ AnswersReflected
  BY DEF ReflectedInv, WebhookInv
<1>1. delivery[d].event \in EventIds
  BY <1>a, DeliveryShape
     DEF AlreadyProcessed, ReactivateRejected, Reactivates, CreateRejected, Creates
<1>2. CASE AlreadyProcessed(d)
  BY <1>a, <1>2 DEF AlreadyProcessed, AnswersReflected
<1>3. CASE ReactivateRejected(d)
  BY <1>1, <1>3, NoConflict DEF ReactivateRejected, Reactivates, EventOf, Reflected
<1>4. CASE CreateRejected(d)
  <2> SUFFICES ASSUME EventOf(d).type = "checkout", EventOf(d).metadata = "complete"
               PROVE  Reflected(delivery[d].event)
    BY DEF Reflected, EventOf
  <2>1. Exists(EventOf(d).slot)
    BY <1>1, <1>4, NoConflict DEF CreateRejected, EventOf
  <2>2. QED
    BY <1>a, <1>1, <1>4, <2>1 DEF CreateRejected, Creates, AnswersReflected, EventOf
<1>5. QED
  BY <1>2, <1>3, <1>4

(* An update that finds nothing: the row is newer, or there is none.       *)
LEMMA NothingToUpdateMeans ==
  ASSUME ReflectedInv, NEW d \in Deliveries, NothingToUpdate(d)
  PROVE  ~Exists(EventOf(d).slot) \/ Reflected(delivery[d].event)
<1> DEFINE e == EventOf(d)
           at == entitlements[e.slot].lastEventAt
<1>a. TypeOK
  BY DEF ReflectedInv, WebhookInv
<1> SUFFICES ASSUME Exists(e.slot) PROVE Reflected(delivery[d].event)
  OBVIOUS
<1>1. /\ delivery[d].step = "apply" /\ e.type = "checkout" /\ e.slot \in Slots
      /\ ~NotStale(entitlements[e.slot], e.created)
  BY DEF NothingToUpdate, Exists
<1>2. at # None /\ ~(at <= e.created)
  BY <1>1 DEF NotStale
<1>3. e.created \in Times
  BY <1>a, <1>1, DeliveryShape DEF Checkout, StatusEvent, OtherEvent
<1>4. at \in Times
  BY <1>a, <1>1, <1>2 DEF TypeOK, Row
<1>5. at \in Nat /\ e.created \in Nat
  BY <1>3, <1>4, TimesAssumption
<1>6. at >= e.created
  <2> HIDE DEF at, e
  <2>1. QED
    BY <1>2, <1>5
<1>7. QED
  BY <1>2, <1>6 DEF Reflected, EventOf

(* The statements that move on. *)
LEMMA ReflectedGoto ==
  ASSUME ReflectedInv, [Next]_vars, Unchanged,
         NEW d \in Deliveries, delivery[d].step # "idle",
         NEW step \in {"record", "ok"} \cup InTransaction, Goto(d, step),
         step = "commit" => delivery[d].slot = None /\ EventOf(d).type # "checkout",
         step = "create" => ~Exists(EventOf(d).slot) \/ Reflected(delivery[d].event),
         step = "ok" => Reflected(delivery[d].event)
  PROVE  ReflectedInv'
<1>a. TypeOK
  BY DEF ReflectedInv, WebhookInv
<1>1. /\ delivery'[d].step = step
      /\ delivery'[d].event = delivery[d].event
      /\ delivery'[d].slot = delivery[d].slot
      /\ \A q \in Deliveries : q # d => delivery'[q] = delivery[q]
  BY <1>a, GotoEffect
<1>2. delivery'[d].step = "commit" =>
        /\ event[delivery'[d].event].type # "checkout" /\ delivery'[d].slot = None
        /\ \A s \in Slots : delivery'[d].slot # s
  BY <1>1, NoneAssumption DEF EventOf
<1>3. \A e \in EventIds : delivery'[d].event = e =>
        /\ delivery'[d].step = "create" => ~Exists(event[e].slot) \/ Reflected(e)
        /\ delivery'[d].step = "ok" => Reflected(e)
  BY <1>1 DEF EventOf
<1>4. QED
  BY <1>a, <1>1, <1>2, <1>3, ReflectedQuiet DEF Unchanged, TypeOK


(* Where checkouts of one slot are apart, every step keeps what is         *)
(* recorded, and what is answered, in force.                               *)
LEMMA ReflectedStep ==
  ReflectedInv /\ CheckoutsApart /\ [Next]_vars => ReflectedInv'
<1> SUFFICES ASSUME ReflectedInv, CheckoutsApart, [Next]_vars
             PROVE  ReflectedInv'
  OBVIOUS
<1>a. WebhookInv /\ TypeOK
  BY DEF ReflectedInv, WebhookInv
(* A delivery that begins, ends or is lost. *)
<1>1. ASSUME NEW d \in Deliveries,
             \/ \E e \in EventIds : Deliver(d, e)
             \/ IncompleteMetadata(d) \/ UnknownReference(d) \/ Respond(d) \/ Crash(d)
      PROVE  ReflectedInv'
  <2>1. /\ UNCHANGED <<event, entitlements, processed>>
        /\ \A q \in Deliveries : q # d => delivery'[q] = delivery[q]
        /\ delivery'[d].step \in {"idle", "record"}
    BY <1>a, <1>1 DEF Deliver, IncompleteMetadata, UnknownReference, Respond, Crash,
                          Unchanged, Idle, TypeOK
  <2>2. acked' \subseteq EventIds /\ \A e \in acked' : e \notin acked => Reflected(e)
    <3>1. CASE Respond(d)
      <4>1. delivery[d].step = "ok" /\ acked' = acked \cup {delivery[d].event}
        BY <3>1 DEF Respond
      <4>2. delivery[d].event \in EventIds
        BY <1>a, <4>1, DeliveryShape
      <4>3. Reflected(delivery[d].event)
        BY <4>1, <4>2 DEF ReflectedInv, AnswersReflected
      <4>4. QED
        BY <1>a, <4>1, <4>2, <4>3 DEF TypeOK
    <3>2. CASE ~Respond(d)
      BY <1>a, <1>1, <3>2
         DEF Deliver, IncompleteMetadata, UnknownReference, Crash, Unchanged, TypeOK
    <3>3. QED
      BY <3>1, <3>2
  <2>3. QED
    BY <2>1, <2>2, ReflectedQuiet
<1>2. ASSUME NEW d \in Deliveries, RecordEvent(d)
      PROVE  ReflectedInv'
  BY <1>2, ReflectedGoto DEF RecordEvent, InTransaction
<1>3. ASSUME NEW d \in Deliveries,
             AlreadyProcessed(d) \/ ReactivateRejected(d) \/ CreateRejected(d)
      PROVE  ReflectedInv'
  <2>1. delivery[d].step # "idle" /\ Goto(d, "ok") /\ Unchanged
    BY <1>3 DEF AlreadyProcessed, ReactivateRejected, Reactivates, CreateRejected, Creates
  <2>2. QED
    BY <1>3, <2>1, ReflectedAnswer, ReflectedGoto
<1>4. ASSUME NEW d \in Deliveries, NothingToUpdate(d)
      PROVE  ReflectedInv'
  <2>1. delivery[d].step # "idle" /\ Goto(d, "create") /\ Unchanged
    BY <1>4 DEF NothingToUpdate
  <2>2. QED
    BY <1>4, <2>1, NothingToUpdateMeans, ReflectedGoto DEF InTransaction
<1>5. ASSUME NEW d \in Deliveries, Reactivate(d) \/ Create(d) \/ UpdateStatus(d)
      PROVE  ReflectedInv'
  BY <1>5, ReflectedWrite
<1>6. ASSUME NEW d \in Deliveries, StatusUnmatched(d) \/ IgnoreOther(d)
      PROVE  ReflectedInv'
  <2>1. /\ delivery[d].step = "apply" /\ Goto(d, "commit") /\ Unchanged
        /\ EventOf(d).type # "checkout"
    BY <1>6 DEF StatusUnmatched, IsStatus, IgnoreOther
  <2>2. delivery[d].slot = None
    BY <1>a, <2>1 DEF WebhookInv, NothingWrittenYet
  <2>3. QED
    BY <2>1, <2>2, ReflectedGoto DEF InTransaction
<1>7. ASSUME NEW d \in Deliveries, Commit(d)
      PROVE  ReflectedInv'
  BY <1>7, ReflectedCommit
<1>8. CASE UNCHANGED vars
  <2>1. WebhookInv'
    BY <1>a, WebhookStep
  <2>2. SubscriptionsOwned' /\ SubsExplained' /\ WritesItsRow'
    BY <1>8 DEF vars, ReflectedInv, SubscriptionsOwned, SubsExplained, CameWithCheckout,
                WritesItsRow, Exists, EventOf
  <2>3. AnswersReflected' /\ CheckoutReflected'
    BY <1>8 DEF vars, ReflectedInv, AnswersReflected, CheckoutReflected, Reflected, Exists
  <2>4. QED
    BY <2>1, <2>2, <2>3 DEF ReflectedInv
<1>9. QED
  BY <1>1, <1>2, <1>3, <1>4, <1>5, <1>6, <1>7, <1>8 DEF Next, Step

LEMMA ReflectedInit == Init /\ SubscriptionsOwned => ReflectedInv
<1> SUFFICES ASSUME Init, SubscriptionsOwned PROVE ReflectedInv
  OBVIOUS
<1>1. WebhookInv
  BY WebhookInit
<1>2. \A d \in Deliveries : delivery[d].step = "idle"
  BY DEF Init, Idle
<1>3. \A s \in Slots : entitlements[s].sub = None
  BY DEF Init, NoRow, TrialRow
<1>4. SubsExplained
  BY <1>2, <1>3 DEF SubsExplained, CameWithCheckout
<1>5. WritesItsRow /\ AnswersReflected /\ CheckoutReflected
  BY <1>2 DEF Init, WritesItsRow, AnswersReflected, CheckoutReflected
<1>6. QED
  BY <1>1, <1>4, <1>5 DEF ReflectedInv

(* Where the transactions of two checkouts of one slot do not overlap, and *)
(* no two slots' checkouts share a subscription, entitlements, recorded    *)
(* events, deliveries and answers fit together: what is recorded or about  *)
(* to be answered is in force, whatever crashes and is delivered again.    *)
THEOREM ReflectedInvariant ==
  Spec /\ SubscriptionsOwned /\ []CheckoutsApart => []ReflectedInv
  BY ReflectedInit, ReflectedStep, PTL DEF Spec

(* So a lock on the slot before the updateMany is all that is missing for  *)
(* what handleCheckoutSessionCompleted takes for granted: an acknowledged  *)
(* checkout is in force, or a newer event is.                              *)
THEOREM CheckoutInForce == Spec => CheckoutWhereApart
<1>1. ReflectedInv => CheckoutReflected
  BY DEF ReflectedInv
<1>2. QED
  BY <1>1, ReflectedInvariant, PTL DEF CheckoutWhereApart


-----------------------------------------------------------------------------
(* The table as a register of events. *)

(* The subscription of a row that nobody is writing is nobody else's.      *)
LEMMA KeptSub ==
  ASSUME RegisterInv, NEW s \in Slots, ~Locked(s)
  PROVE  /\ ~SubTaken(s, entitlements[s].sub)
         /\ \A q \in Deliveries : Writing(q) =>
              entitlements[s].sub = None \/ delivery[q].row.sub # entitlements[s].sub
<1>1. ~SubTaken(s, entitlements[s].sub)
  BY DEF RegisterInv, SubsUnique, SubTaken
<1>2. ASSUME NEW q \in Deliveries, Writing(q), entitlements[s].sub # None,
             delivery[q].row.sub = entitlements[s].sub
      PROVE  FALSE
  <2>1. delivery[q].slot # s
    BY <1>2 DEF Writing, Locked
  <2>2. ~SubTaken(delivery[q].slot, delivery[q].row.sub)
    BY <1>2 DEF RegisterInv, SubsUnique
  <2>3. QED
    BY <1>2, <2>1, <2>2 DEF SubTaken
<1>3. QED
  BY <1>1, <1>2

(* What the writing statements do with the subscription of the row: the    *)
(* unique key, and the wait for keys under way, keep it to one slot.       *)
LEMMA WrittenSub ==
  ASSUME RegisterInv, NEW d \in Deliveries,
         Reactivate(d) \/ Create(d) \/ UpdateStatus(d)
  PROVE  \E s \in Slots, row \in Row :
           /\ Write(d, s, row)
           /\ ~Locked(s)
           /\ IF EventOf(d).type = "checkout"
              THEN row.sub = IF EventOf(d).sub = None THEN entitlements[s].sub
                                                      ELSE EventOf(d).sub
              ELSE row.sub = entitlements[s].sub /\ row.sub # None
           /\ ~SubTaken(s, row.sub)
           /\ \A q \in Deliveries : Writing(q) =>
                row.sub = None \/ delivery[q].row.sub # row.sub
<1> DEFINE e == EventOf(d)
<1>a. WebhookInv /\ TypeOK
  BY DEF RegisterInv, WebhookInv
<1>1. delivery[d].step \in {"apply", "create"}
  BY DEF Reactivate, Reactivates, Create, Creates, UpdateStatus, IsStatus
<1>2. e \in Checkout \cup StatusEvent \cup OtherEvent
  BY <1>a, <1>1, DeliveryShape
<1>3. CASE Reactivate(d) \/ Create(d)
  <2>1. e.type = "checkout" /\ e.metadata = "complete" /\ e.slot \in Slots
    BY <1>a, <1>3, WrittenCheckout
  <2>2. e \in Checkout
    BY <1>a, <1>3, WrittenCheckout
  <2>3. Activated(e.slot, e) \in Row
    BY <1>a, <2>1, <2>2 DEF Activated, Checkout, Row, TypeOK
  <2>4. /\ Write(d, e.slot, Activated(e.slot, e))
        /\ ~Locked(e.slot) /\ SubSettled(e.slot, e.sub) /\ ~SubTaken(e.slot, e.sub)
    BY <1>3 DEF Reactivate, Reactivates, Create, Creates
  <2>5. Activated(e.slot, e).sub = IF e.sub = None THEN entitlements[e.slot].sub ELSE e.sub
    BY DEF Activated
  <2>6. CASE e.sub = None
    BY <2>1, <2>3, <2>4, <2>5, <2>6, KeptSub
  <2>7. CASE e.sub # None
    <3>1. \A q \in Deliveries : Writing(q) => delivery[q].row.sub # e.sub
      BY <2>4, <2>7 DEF SubSettled, Writing, Locked
    <3> HIDE DEF e
    <3>2. QED
      BY <2>1, <2>3, <2>4, <2>5, <2>7, <3>1 DEF e
  <2>8. QED
    BY <2>6, <2>7
<1>4. CASE UpdateStatus(d)
  <2>1. PICK s \in Matching(e) :
          /\ ~Locked(s)
          /\ Write(d, s, [entitlements[s] EXCEPT !.status = StatusOf(delivery[d].event),
                                                !.lastEventAt = e.created])
    BY <1>4 DEF UpdateStatus
  <2> DEFINE row == [entitlements[s] EXCEPT !.status = StatusOf(delivery[d].event),
                                            !.lastEventAt = e.created]
  <2>2. e.type \in {"payment_failed", "payment_succeeded", "deleted"}
    BY <1>4 DEF UpdateStatus, IsStatus
  <2>3. s \in Slots /\ entitlements[s] \in Row /\ entitlements[s].sub # None
    BY <1>a, <2>1 DEF Matching, TypeOK
  <2>4. StatusOf(delivery[d].event) \in {"active", "past_due", "canceled"}
    BY <2>2 DEF StatusOf, EventOf
  <2>5. e.created \in Times
    BY <1>2, <2>2 DEF Checkout, StatusEvent, OtherEvent
  <2>6. row \in Row /\ row.sub = entitlements[s].sub
    BY <2>3, <2>4, <2>5 DEF Row
  <2>7. Write(d, s, row) /\ ~Locked(s)
    BY <2>1
  <2> HIDE DEF row
  <2>8. QED
    BY <2>2, <2>3, <2>6, <2>7, KeptSub
<1>5. QED
  BY <1>3, <1>4

(* A step that writes no row, and leaves the committed ones.               *)
LEMMA RegisterQuiet ==
  ASSUME RegisterInv, WebhookInv', UNCHANGED <<event, entitlements>>,
         NEW d \in Deliveries,
         \A q \in Deliveries : q # d => delivery'[q] = delivery[q],
         delivery'[d].step = "commit" =>
           delivery'[d].slot = None /\ event[delivery'[d].event].type # "checkout"
  PROVE  RegisterInv'
<1>1. \A q \in Deliveries : Writing(q)' => q # d /\ Writing(q)
  BY DEF Writing
<1>2. WrittenSubs'
  BY <1>1 DEF RegisterInv, WrittenSubs, EventOf
<1>3. SubsUnique'
  BY <1>1 DEF RegisterInv, SubsUnique, SubTaken
<1>4. CheckoutsWrite'
  BY DEF RegisterInv, CheckoutsWrite, EventOf
<1>5. QED
  BY <1>2, <1>3, <1>4 DEF RegisterInv

LEMMA RegisterWrite ==
  ASSUME RegisterInv, WebhookInv', NEW d \in Deliveries,
         Reactivate(d) \/ Create(d) \/ UpdateStatus(d)
  PROVE  RegisterInv'
<1>a. TypeOK
  BY DEF RegisterInv, WebhookInv
<1>1. /\ delivery[d].step \in {"apply", "create"}
      /\ UNCHANGED <<event, entitlements>>
  BY DEF Reactivate, Reactivates, Create, Creates, UpdateStatus, IsStatus, Unchanged
<1>2. PICK s \in Slots, row \in Row :
        /\ Write(d, s, row)
        /\ ~Locked(s)
        /\ IF EventOf(d).type = "checkout"
           THEN row.sub = IF EventOf(d).sub = None THEN entitlements[s].sub
                                                   ELSE EventOf(d).sub
           ELSE row.sub = entitlements[s].sub /\ row.sub # None
        /\ ~SubTaken(s, row.sub)
        /\ \A q \in Deliveries : Writing(q) =>
             row.sub = None \/ delivery[q].row.sub # row.sub
  BY WrittenSub
<1>3. /\ delivery'[d].step = "commit" /\ delivery'[d].event = delivery[d].event
      /\ delivery'[d].slot = s /\ delivery'[d].row = row
      /\ \A q \in Deliveries : q # d => delivery'[q] = delivery[q]
  BY <1>a, <1>1, <1>2, WriteEffect
<1>4. \A q \in Deliveries : q # d => (Writing(q)' <=> Writing(q))
  BY <1>3 DEF Writing
<1>5. WrittenSubs'
  BY <1>1, <1>2, <1>3, <1>4 DEF RegisterInv, WrittenSubs, EventOf
<1>6. SubsUnique'
  BY <1>1, <1>2, <1>3, <1>4 DEF RegisterInv, SubsUnique, SubTaken
<1>7. CheckoutsWrite'
  BY <1>1, <1>2, <1>3, NoneAssumption DEF RegisterInv, CheckoutsWrite, EventOf
<1>8. QED
  BY <1>5, <1>6, <1>7 DEF RegisterInv

LEMMA RegisterCommit ==
  ASSUME RegisterInv, WebhookInv', NEW d \in Deliveries, Commit(d)
  PROVE  RegisterInv'
<1>a. WebhookInv /\ TypeOK
  BY DEF RegisterInv, WebhookInv
<1>1. /\ delivery[d].step = "commit" /\ delivery[d] \in Delivery
      /\ event' = event
  BY <1>a, DeliveryShape DEF Commit
<1>2. /\ delivery'[d].step = "ok"
      /\ \A q \in Deliveries : q # d => delivery'[q] = delivery[q]
  BY <1>a, GotoEffect DEF Commit
<1>3. CASE delivery[d].slot = None
  <2>1. entitlements' = entitlements
    BY <1>3 DEF Commit
  <2>2. QED
    BY <1>1, <1>2, <2>1, RegisterQuiet
<1>4. CASE delivery[d].slot # None
  <2> DEFINE s == delivery[d].slot
             new == delivery[d].row.sub
  <2>1. s \in Slots /\ Writing(d)
    BY <1>1, <1>4 DEF Delivery, Writing
  <2>2. /\ entitlements'[s].sub = new
        /\ \A t \in Slots : t # s => entitlements'[t] = entitlements[t]
    BY <1>a, <1>4, <2>1 DEF Commit, TypeOK
  <2>3. \A q \in Deliveries : Writing(q)' =>
          /\ q # d /\ Writing(q) /\ delivery[q].slot # s
          /\ delivery[q].slot \in Slots
          /\ delivery'[q] = delivery[q]
    BY <1>a, <1>2, <2>1, WrittenTimes DEF Writing, WebhookInv, RowsExclusive
  <2>4. /\ ~SubTaken(s, new)
        /\ \A q \in Deliveries : Writing(q) /\ q # d /\ new # None =>
             delivery[q].row.sub # new
    BY <2>1 DEF RegisterInv, SubsUnique
  <2> HIDE DEF s, new
  <2>5. WrittenSubs'
    BY <1>1, <2>2, <2>3 DEF RegisterInv, WrittenSubs, EventOf
  <2>6. \A t, u \in Slots : t # u /\ entitlements'[t].sub # None =>
          entitlements'[u].sub # entitlements'[t].sub
    BY <2>1, <2>2, <2>4 DEF RegisterInv, SubsUnique, SubTaken
  <2>7. ASSUME NEW q \in Deliveries, Writing(q)'
        PROVE  ~SubTaken(delivery[q].slot, delivery[q].row.sub)'
    BY <2>2, <2>3, <2>4, <2>7 DEF RegisterInv, SubsUnique, SubTaken
  <2>8. \A p, q \in Deliveries :
          Writing(p)' /\ Writing(q)' /\ q # p /\ delivery'[p].row.sub # None =>
            delivery'[q].row.sub # delivery'[p].row.sub
    BY <2>3 DEF RegisterInv, SubsUnique
  <2>9. SubsUnique'
    BY <2>6, <2>7, <2>8 DEF SubsUnique
  <2>10. CheckoutsWrite'
    BY <1>1, <1>2 DEF RegisterInv, CheckoutsWrite, EventOf
  <2>11. QED
    BY <2>5, <2>9, <2>10 DEF RegisterInv
<1>5. QED
  BY <1>3, <1>4

LEMMA RegisterKept == RegisterInv /\ [Next]_vars => RegisterInv'
<1> SUFFICES ASSUME RegisterInv, [Next]_vars PROVE RegisterInv'
  OBVIOUS
<1>a. WebhookInv /\ TypeOK /\ WebhookInv'
  BY WebhookStep DEF RegisterInv, WebhookInv
<1>1. ASSUME NEW d \in Deliveries,
             \/ \E e \in EventIds : Deliver(d, e)
             \/ IncompleteMetadata(d) \/ UnknownReference(d) \/ Respond(d) \/ Crash(d)
      PROVE  RegisterInv'
  <2>1. /\ UNCHANGED <<event, entitlements>>
        /\ \A q \in Deliveries : q # d => delivery'[q] = delivery[q]
        /\ delivery'[d].step \in {"idle", "record"}
    BY <1>a, <1>1 DEF Deliver, IncompleteMetadata, UnknownReference, Respond, Crash,
                          Unchanged, Idle, TypeOK
  <2>2. QED
    BY <1>a, <2>1, RegisterQuiet
<1>2. ASSUME NEW d \in Deliveries,
             \/ RecordEvent(d) \/ AlreadyProcessed(d) \/ NothingToUpdate(d)
             \/ ReactivateRejected(d) \/ CreateRejected(d)
      PROVE  RegisterInv'
  <2>1. /\ UNCHANGED <<event, entitlements>> /\ delivery[d].step # "idle"
        /\ Goto(d, "apply") \/ Goto(d, "ok") \/ Goto(d, "create")
    BY <1>2 DEF RecordEvent, AlreadyProcessed, NothingToUpdate, ReactivateRejected,
                Reactivates, CreateRejected, Creates, Unchanged
  <2>2. /\ \A q \in Deliveries : q # d => delivery'[q] = delivery[q]
        /\ delivery'[d].step \in {"apply", "ok", "create"}
    BY <1>a, <2>1, GotoEffect DEF InTransaction
  <2>3. QED
    BY <1>a, <2>1, <2>2, RegisterQuiet
<1>3. ASSUME NEW d \in Deliveries, StatusUnmatched(d) \/ IgnoreOther(d)
      PROVE  RegisterInv'
  <2>1. /\ delivery[d].step = "apply" /\ Goto(d, "commit")
        /\ UNCHANGED <<event, entitlements>> /\ EventOf(d).type # "checkout"
    BY <1>3 DEF StatusUnmatched, IsStatus, IgnoreOther, Unchanged
  <2>2. delivery[d].slot = None
    BY <1>a, <2>1 DEF WebhookInv, NothingWrittenYet
  <2>3. /\ \A q \in Deliveries : q # d => delivery'[q] = delivery[q]
        /\ delivery'[d].event = delivery[d].event
        /\ delivery'[d].slot = delivery[d].slot
    BY <1>a, <2>1, GotoEffect DEF InTransaction
  <2>4. QED
    BY <1>a, <2>1, <2>2, <2>3, RegisterQuiet DEF EventOf
<1>4. ASSUME NEW d \in Deliveries, Reactivate(d) \/ Create(d) \/ UpdateStatus(d)
      PROVE  RegisterInv'
  BY <1>a, <1>4, RegisterWrite
<1>5. ASSUME NEW d \in Deliveries, Commit(d)
      PROVE  RegisterInv'
  BY <1>a, <1>5, RegisterCommit
<1>6. CASE UNCHANGED vars
  BY <1>a, <1>6 DEF vars, RegisterInv, WrittenSubs, SubsUnique, SubTaken, CheckoutsWrite,
                    Writing, EventOf
<1>7. QED
  BY <1>1, <1>2, <1>3, <1>4, <1>5, <1>6 DEF Next, Step

(* A commit is the one step of the register: its event has not had its     *)
(* effect before, and the row is still the one the effect was computed on. *)
LEMMA CommitHandles ==
  ASSUME RegisterInv, NEW d \in Deliveries, Commit(d)
  PROVE  Register!Next
<1> DEFINE e == delivery[d].event
           s == delivery[d].slot
           row == delivery[d].row
<1>a. WebhookInv /\ TypeOK
  BY DEF RegisterInv, WebhookInv
<1>1. /\ delivery[d].step = "commit" /\ delivery[d] \in Delivery
      /\ e \in EventIds /\ s \in Slots \cup {None} /\ row \in Row
      /\ EventOf(d) = event[e]
      /\ event[e] \in Checkout \cup StatusEvent \cup OtherEvent
  BY <1>a, DeliveryShape DEF Commit, Delivery, EventOf
<1>2. e \in EventIds \ processed
  BY <1>a, <1>1 DEF WebhookInv, IdsExclusive, Recording, InTransaction
<1>3. processed' = processed \cup {e} /\ event' = event
  BY DEF Commit
<1>4. CASE s = None
  <2>1. event[e].type # "checkout"
    BY <1>1, <1>4 DEF RegisterInv, CheckoutsWrite
  <2>2. entitlements' = entitlements
    BY <1>4 DEF Commit
  <2>3. Register!PassOver(e)
    BY <2>1, <2>2 DEF Register!PassOver
  <2>4. QED
    BY <1>2, <1>3, <2>3 DEF Register!Next
<1>5. CASE s # None
  <2>1. s \in Slots /\ Writing(d)
    BY <1>1, <1>5 DEF Writing
  <2>2. entitlements' = [entitlements EXCEPT ![s] = row]
    BY <1>5 DEF Commit
  <2>3. /\ event[e].type # "other"
        /\ row.lastEventAt = event[e].created
        /\ row.status = StatusOf(e)
        /\ NotStale(entitlements[s], event[e].created)
        /\ IF event[e].type = "checkout" THEN event[e].slot = s ELSE event[e].sub = row.sub
        /\ event[e].type = "checkout" => event[e].metadata = "complete"
    BY <1>1, <1>a, <2>1 DEF WebhookInv, RowsFollowEvents, AnswersAttributed
  <2>4. row = [status |-> row.status, sub |-> row.sub, lastEventAt |-> row.lastEventAt]
    BY <1>1 DEF Row
  <2>5. Register!NotNewer(s, event[e].created)
    BY <2>3 DEF NotStale, Register!NotNewer
  <2>6. Register!Owned(s, row.sub)
    BY <2>1 DEF RegisterInv, SubsUnique, SubTaken, Register!Owned
  <2>7. IF event[e].type = "checkout"
        THEN row.sub = IF event[e].sub = None THEN entitlements[s].sub ELSE event[e].sub
        ELSE row.sub = entitlements[s].sub /\ row.sub # None
    BY <1>1, <2>1 DEF RegisterInv, WrittenSubs
  <2> HIDE DEF e, s, row
  <2>8. CASE event[e].type = "checkout"
    <3>1. row.status = "active"
      BY <2>3, <2>8 DEF StatusOf
    <3>2. Register!Activate(e, s)
      BY <2>2, <2>3, <2>4, <2>5, <2>6, <2>7, <2>8, <3>1 DEF Register!Activate
    <3>3. QED
      BY <1>2, <1>3, <2>1, <3>2 DEF Register!Next
  <2>9. CASE event[e].type # "checkout"
    <3>1. event[e].type \in {"payment_failed", "payment_succeeded", "deleted"}
      BY <1>1, <2>3, <2>9 DEF Checkout, StatusEvent, OtherEvent
    <3>2. row.status = Register!StatusAskedBy[event[e].type]
          /\ event[e].type \in DOMAIN Register!StatusAskedBy
      BY <2>3, <3>1 DEF StatusOf, Register!StatusAskedBy
    <3>3. Register!ChangeStatus(e, s)
      BY <2>2, <2>3, <2>4, <2>5, <2>6, <2>7, <2>9, <3>2 DEF Register!ChangeStatus
    <3>4. QED
      BY <1>2, <1>3, <2>1, <3>3 DEF Register!Next
  <2>10. QED
    BY <2>8, <2>9
<1>6. QED
  BY <1>4, <1>5

LEMMA RegisterStep == RegisterInv /\ [Next]_vars => [Register!Next]_(Register!vars)
<1> SUFFICES ASSUME RegisterInv, [Next]_vars
             PROVE  Register!Next \/ UNCHANGED <<event, entitlements, processed>>
  BY DEF Register!vars
<1>1. ASSUME NEW d \in Deliveries, Commit(d)
      PROVE  Register!Next
  BY <1>1, CommitHandles
<1>2. ASSUME ~\E d \in Deliveries : Commit(d)
      PROVE  UNCHANGED <<event, entitlements, processed>>
  BY <1>2 DEF vars, Next, Step, Unchanged, Deliver, RecordEvent, AlreadyProcessed,
         IncompleteMetadata, UnknownReference, Reactivate, ReactivateRejected, NothingToUpdate, Create,
         CreateRejected, UpdateStatus, StatusUnmatched, IgnoreOther, Respond, Crash
<1>3. QED
  BY <1>1, <1>2

LEMMA RegisterInit == Init => RegisterInv /\ Register!Init
<1> SUFFICES ASSUME Init PROVE RegisterInv /\ Register!Init
  OBVIOUS
<1>1. WebhookInv
  BY WebhookInit
<1>2. \A d \in Deliveries : delivery[d].step = "idle"
  BY DEF Init, Idle
<1>3. \A s \in Slots : entitlements[s].sub = None
  BY DEF Init, NoRow, TrialRow
<1>4. WrittenSubs /\ SubsUnique /\ CheckoutsWrite
  BY <1>2, <1>3 DEF WrittenSubs, SubsUnique, CheckoutsWrite, Writing
<1>5. QED
  BY <1>1, <1>4 DEF RegisterInv, Init, Register!Init

(* handleEvent implements the register: seen from tenant_modules and the   *)
(* recorded ids, every step of the webhook has the whole effect of one     *)
(* event on the present row, or records an event that asks for none, or    *)
(* does nothing, for any number of events, deliveries and slots.           *)
THEOREM RegisterImplemented == Spec => ImplementsRegister
<1>1. Spec => []RegisterInv
  BY RegisterInit, RegisterKept, PTL DEF Spec
<1>2. QED
  BY <1>1, RegisterInit, RegisterStep, PTL DEF Spec, ImplementsRegister, Register!Spec

=============================================================================
