---------------------------- MODULE StripeWebhook ----------------------------
(***************************************************************************)
(* StripeWebhookService: the only writer of entitlements (tenant_modules). *)
(*                                                                         *)
(* Stripe delivers its events in any order, several at a time, and again   *)
(* and again until it gets a 200.  A delivery runs handleEvent: one        *)
(* READ COMMITTED transaction that records the event's id and applies its  *)
(* effect, one statement per action.  The variables hold the COMMITTED     *)
(* rows; what an open transaction has written is kept in its delivery.     *)
(***************************************************************************)
EXTENDS Naturals, FiniteSets

CONSTANTS
  Deliveries,   \* webhook requests the server works on at the same time
  EventIds,     \* event.id
  Slots,        \* pairs <<tenantId, moduleCode>> that exist
  Subs,         \* Stripe subscription ids
  Times,        \* event.created, in seconds
  Faults,       \* may a delivery die, or its response get lost?
  None          \* SQL NULL, and "not given"

ASSUME TimesAssumption == Times \subseteq Nat
ASSUME FaultsAssumption == Faults \in BOOLEAN
ASSUME NoneAssumption == None \notin Slots \cup Subs \cup Times

VARIABLES
  event,         \* what each event says; never changes
  entitlements,  \* tenant_modules: one row per slot
  processed,     \* processed_webhook_events
  acked,         \* events answered with 200: Stripe need not send them again
  delivery,      \* what each webhook request is doing
  applied        \* history: committed writes to tenant_modules per event

vars == <<event, entitlements, processed, acked, delivery, applied>>

-----------------------------------------------------------------------------
(* The metadata of a checkout (tenantId, moduleCode, planId) may be        *)
(* missing, then nothing else is looked at, or name something that does    *)
(* not exist: a tenant or a module, then it has no slot, or only the plan  *)
(* of a slot that exists.                                                  *)
Checkout ==
  {c \in [type: {"checkout"}, metadata: {"missing", "unknown", "complete"},
          slot: Slots \cup {None}, sub: Subs \cup {None}, created: Times] :
     /\ c.metadata = "missing" => c.slot = None /\ c.sub = None
     /\ c.metadata = "complete" => c.slot # None}
StatusEvent == [type: {"payment_failed", "payment_succeeded"},
                sub: Subs \cup {None}, created: Times]
                 \cup [type: {"deleted"}, sub: Subs, created: Times]
OtherEvent == [type: {"other"}]

(* The status an event asks for. *)
StatusOf(e) ==
  CASE event[e].type \in {"checkout", "payment_succeeded"} -> "active"
    [] event[e].type = "payment_failed" -> "past_due"
    [] event[e].type = "deleted" -> "canceled"

Row == [status: {"none", "trial", "active", "past_due", "canceled"},
        sub: Subs \cup {None}, lastEventAt: Times \cup {None}]
NoRow == [status |-> "none", sub |-> None, lastEventAt |-> None]
TrialRow == [NoRow EXCEPT !.status = "trial"]

Exists(s) == s \in Slots /\ entitlements[s].status # "none"

(* The steps of handleEvent; from "apply" to "commit" the transaction is   *)
(* open and its id is already in processed_webhook_events.                 *)
InTransaction == {"apply", "create", "commit"}
Idle == [step |-> "idle"]
Delivery == [step: {"record", "ok"} \cup InTransaction, event: EventIds,
             slot: Slots \cup {None}, row: Row]

EventOf(d) == event[delivery[d].event]
Goto(d, step) == delivery' = [delivery EXCEPT ![d].step = step]
Unchanged == UNCHANGED <<event, entitlements, processed, acked, applied>>

-----------------------------------------------------------------------------
(* What other open transactions hold: their rows, and the key of the row   *)
(* they are inserting...                                                   *)
Locked(s) == s # None /\ \E d \in Deliveries :
                            delivery[d].step = "commit" /\ delivery[d].slot = s

(* ...and the unique key on stripe_subscription_id, given up or taken.     *)
SubSettled(s, sub) ==
  \A d \in Deliveries :
    delivery[d].step = "commit" /\ delivery[d].slot \notin {s, None} =>
      sub \notin {delivery[d].row.sub, entitlements[delivery[d].slot].sub} \ {None}

SubTaken(s, sub) == sub # None /\ \E t \in Slots \ {s} : entitlements[t].sub = sub

(* Mutant of NotStale: no ordering guard. *)
NotStaleEver(row, created) == TRUE

NotStale(row, created) == row.lastEventAt # None => row.lastEventAt <= created

(* The statement writes a row; it becomes visible in Commit.               *)
Write(d, s, row) ==
  delivery' = [delivery EXCEPT ![d] = [@ EXCEPT !.step = "commit", !.slot = s,
                                                !.row = row]]

-----------------------------------------------------------------------------
(* Stripe sends an event: for the first time, or again. *)
Deliver(d, e) ==
  /\ delivery[d] = Idle
  /\ delivery' = [delivery EXCEPT ![d] = [step |-> "record", event |-> e,
                                          slot |-> None, row |-> NoRow]]
  /\ Unchanged

(* Mutant of RecordEvent: looks the id up instead of inserting it first. *)
RecordAfterLookup(d) ==
  /\ delivery[d].step = "record"
  /\ delivery[d].event \notin processed
  /\ Goto(d, "apply")
  /\ Unchanged

(* The insert waits while another transaction has inserted the same id.    *)
RecordEvent(d) ==
  /\ delivery[d].step = "record"
  /\ delivery[d].event \notin processed
  /\ ~\E q \in Deliveries : /\ delivery[q].step \in InTransaction
                            /\ delivery[q].event = delivery[d].event
  /\ Goto(d, "apply")
  /\ Unchanged

AlreadyProcessed(d) ==
  /\ delivery[d].step = "record"
  /\ delivery[d].event \in processed
  /\ Goto(d, "ok")
  /\ Unchanged

-----------------------------------------------------------------------------
(* handleCheckoutSessionCompleted *)

(* Mutant of IncompleteMetadata: logs and returns. *)
IncompleteMetadataLogged(d) ==
  /\ delivery[d].step = "apply"
  /\ EventOf(d).type = "checkout"
  /\ EventOf(d).metadata = "missing"
  /\ Goto(d, "commit")
  /\ Unchanged

(* The exception rolls the transaction back, and Stripe gets a 500.        *)
IncompleteMetadata(d) ==
  /\ delivery[d].step = "apply"
  /\ EventOf(d).type = "checkout"
  /\ EventOf(d).metadata = "missing"
  /\ delivery' = [delivery EXCEPT ![d] = Idle]
  /\ Unchanged

(* Mutant of Activated: a checkout without a subscription empties it. *)
ActivatedEmptying(s, e) ==
  [status |-> "active", lastEventAt |-> e.created, sub |-> e.sub]

(* A checkout without a subscription leaves the column as it is.           *)
Activated(s, e) ==
  [status |-> "active", lastEventAt |-> e.created,
   sub |-> IF e.sub = None THEN entitlements[s].sub ELSE e.sub]

(* updateMany on the slot finds a row that is not newer; the unique key on *)
(* the subscription decides whether it may be written.                     *)
Reactivates(d) ==
  LET e == EventOf(d)
  IN  /\ delivery[d].step = "apply"
      /\ e.type = "checkout"
      /\ Exists(e.slot)
      /\ NotStale(entitlements[e.slot], e.created)
      /\ ~Locked(e.slot)
      /\ SubSettled(e.slot, e.sub)

Reactivate(d) ==
  /\ Reactivates(d)
  /\ LET e == EventOf(d)
     IN  /\ e.metadata = "complete"
         /\ ~SubTaken(e.slot, e.sub)
         /\ Write(d, e.slot, Activated(e.slot, e))
  /\ Unchanged

(* The conflict reaches handleEvent, which takes any P2002 for "already    *)
(* processed": the transaction is rolled back and the answer is 200.       *)
ReactivateRejected(d) ==
  /\ Reactivates(d)
  /\ SubTaken(EventOf(d).slot, EventOf(d).sub)
  /\ Goto(d, "ok")
  /\ Unchanged

(* updateMany finds no row: there is none, or it is newer.                 *)
NothingToUpdate(d) ==
  LET e == EventOf(d)
  IN  /\ delivery[d].step = "apply"
      /\ e.type = "checkout"
      /\ e.metadata # "missing"
      /\ ~(Exists(e.slot) /\ NotStale(entitlements[e.slot], e.created))
      /\ Goto(d, "create")
      /\ Unchanged

Creates(d) ==
  LET e == EventOf(d)
  IN  /\ delivery[d].step = "create"
      /\ ~Locked(e.slot)
      /\ SubSettled(e.slot, e.sub)

(* Mutant of Create: the ordering column is forgotten. *)
CreateWithoutTimestamp(d) ==
  /\ Creates(d)
  /\ LET e == EventOf(d)
     IN  /\ e.metadata = "complete"
         /\ ~Exists(e.slot)
         /\ ~SubTaken(e.slot, e.sub)
         /\ Write(d, e.slot, [status |-> "active", lastEventAt |-> None, sub |-> e.sub])
  /\ Unchanged

Create(d) ==
  /\ Creates(d)
  /\ LET e == EventOf(d)
     IN  /\ e.metadata = "complete"
         /\ ~Exists(e.slot)
         /\ ~SubTaken(e.slot, e.sub)
         /\ Write(d, e.slot, Activated(e.slot, e))
  /\ Unchanged

(* The handler swallows the P2002, but PostgreSQL has aborted the          *)
(* transaction: its COMMIT rolls back, the id is not recorded, yet 200.    *)
CreateRejected(d) ==
  /\ Creates(d)
  /\ LET e == EventOf(d)
     IN  Exists(e.slot) \/ SubTaken(e.slot, e.sub)
  /\ Goto(d, "ok")
  /\ Unchanged

(* PostgreSQL checks unique keys as it writes a row and foreign keys after *)
(* the statement: only a row that conflicts with none gets so far that its *)
(* tenant, module or plan is missed.  That error is no P2002: the          *)
(* transaction is rolled back, and Stripe gets a 500.                      *)
UnknownReference(d) ==
  /\ Reactivates(d) \/ (Creates(d) /\ ~Exists(EventOf(d).slot))
  /\ LET e == EventOf(d)
     IN  e.metadata = "unknown" /\ ~SubTaken(e.slot, e.sub)
  /\ delivery' = [delivery EXCEPT ![d] = Idle]
  /\ Unchanged

-----------------------------------------------------------------------------
(* handleInvoiceStatusEvent, handleSubscriptionDeleted and                 *)
(* updateStatusBySubscription                                              *)

IsStatus(d) ==
  /\ delivery[d].step = "apply"
  /\ EventOf(d).type \in {"payment_failed", "payment_succeeded", "deleted"}

Matching(e) == {s \in Slots : /\ e.sub # None
                              /\ entitlements[s].sub = e.sub
                              /\ NotStale(entitlements[s], e.created)}

UpdateStatus(d) ==
  /\ IsStatus(d)
  /\ \E s \in Matching(EventOf(d)) :
       /\ ~Locked(s)
       /\ Write(d, s, [entitlements[s] EXCEPT !.status = StatusOf(delivery[d].event),
                                             !.lastEventAt = EventOf(d).created])
  /\ Unchanged

(* Mutant of StatusUnmatched: an unknown subscription is an error. *)
StatusUnmatchedThrows(d) ==
  /\ IsStatus(d)
  /\ Matching(EventOf(d)) = {}
  /\ delivery' = [delivery EXCEPT ![d] = Idle]
  /\ Unchanged

(* No subscription, an unknown one, or a newer state: a warning, and the   *)
(* event counts as processed all the same.                                 *)
StatusUnmatched(d) ==
  /\ IsStatus(d)
  /\ Matching(EventOf(d)) = {}
  /\ Goto(d, "commit")
  /\ Unchanged

IgnoreOther(d) ==
  /\ delivery[d].step = "apply"
  /\ EventOf(d).type = "other"
  /\ Goto(d, "commit")
  /\ Unchanged

-----------------------------------------------------------------------------
(* Mutant of Commit: the id is not part of the transaction. *)
CommitEffectOnly(d) ==
  /\ delivery[d].step = "commit"
  /\ LET e == delivery[d].event
         s == delivery[d].slot
     IN  IF s = None
         THEN processed' = processed \cup {e} /\ UNCHANGED <<entitlements, applied>>
         ELSE /\ entitlements' = [entitlements EXCEPT ![s] = delivery[d].row]
              /\ applied' = [applied EXCEPT ![e] = @ + 1]
              /\ UNCHANGED processed
  /\ Goto(d, "ok")
  /\ UNCHANGED <<event, acked>>

(* The id and the effect become visible together. *)
Commit(d) ==
  /\ delivery[d].step = "commit"
  /\ LET e == delivery[d].event
         s == delivery[d].slot
     IN  /\ processed' = processed \cup {e}
         /\ IF s = None
            THEN UNCHANGED <<entitlements, applied>>
            ELSE /\ entitlements' = [entitlements EXCEPT ![s] = delivery[d].row]
                 /\ applied' = [applied EXCEPT ![e] = @ + 1]
  /\ Goto(d, "ok")
  /\ UNCHANGED <<event, acked>>

Respond(d) ==
  /\ delivery[d].step = "ok"
  /\ acked' = acked \cup {delivery[d].event}
  /\ delivery' = [delivery EXCEPT ![d] = Idle]
  /\ UNCHANGED <<event, entitlements, processed, applied>>

(* The process dies, an error that is no P2002 escapes, or the response is *)
(* lost: an open transaction is rolled back, a committed one stays.        *)
Crash(d) ==
  /\ Faults
  /\ delivery[d] # Idle
  /\ delivery' = [delivery EXCEPT ![d] = Idle]
  /\ Unchanged

-----------------------------------------------------------------------------
Init ==
  /\ event \in [EventIds -> Checkout \cup StatusEvent \cup OtherEvent]
  /\ entitlements \in [Slots -> {NoRow, TrialRow}]
  /\ processed = {}
  /\ acked = {}
  /\ delivery = [d \in Deliveries |-> Idle]
  /\ applied = [e \in EventIds |-> 0]

Step(d) ==
  \/ RecordEvent(d) \/ AlreadyProcessed(d)
  \/ IncompleteMetadata(d)
  \/ Reactivate(d) \/ ReactivateRejected(d)
  \/ NothingToUpdate(d)
  \/ Create(d) \/ CreateRejected(d)
  \/ UnknownReference(d)
  \/ UpdateStatus(d) \/ StatusUnmatched(d)
  \/ IgnoreOther(d)
  \/ Commit(d) \/ Respond(d)

Next == \E d \in Deliveries : \/ \E e \in EventIds : Deliver(d, e)
                              \/ Step(d)
                              \/ Crash(d)

Spec == Init /\ [][Next]_vars

(* Stripe sends every event again until it is acknowledged, and the server *)
(* runs every delivery on; PostgreSQL queues whoever waits for a row.      *)
Fairness ==
  /\ \A d \in Deliveries : SF_vars(Step(d))
  /\ \A e \in EventIds : SF_vars(e \notin acked /\ \E d \in Deliveries : Deliver(d, e))

-----------------------------------------------------------------------------
(* Every row, event and delivery has the shape the code gives it. *)
TypeOK ==
  /\ event \in [EventIds -> Checkout \cup StatusEvent \cup OtherEvent]
  /\ entitlements \in [Slots -> Row]
  /\ processed \subseteq EventIds
  /\ acked \subseteq EventIds
  /\ delivery \in [Deliveries -> {Idle} \cup Delivery]
  /\ applied \in [EventIds -> Nat]

(* However often and however concurrently an event is delivered, its       *)
(* effect happens at most once, and never without being recorded.          *)
AppliedOnce ==
  \A e \in EventIds : applied[e] <= IF e \in processed THEN 1 ELSE 0

(* "Money taken, access not granted, nobody notices": a checkout that      *)
(* cannot be attributed is answered with 200 in no case when its metadata  *)
(* is missing, and when it names something unknown only if a unique key    *)
(* was in its way: another event wrote its slot, or a recorded checkout    *)
(* brought its subscription.                                               *)
ConflictExplained(e) ==
  \/ event[e].slot \in Slots /\ entitlements[event[e].slot].lastEventAt # None
  \/ /\ event[e].sub # None
     /\ \E p \in processed : event[p].type = "checkout" /\ event[p].sub = event[e].sub

MayBeAcked(e) ==
  event[e].type = "checkout" =>
    /\ event[e].metadata # "missing"
    /\ event[e].metadata = "unknown" => ConflictExplained(e)

UnattributedRefused == \A e \in acked : MayBeAcked(e)

(* Every state a webhook wrote is the effect of an event that is recorded: *)
(* no status without a payment event behind it, also after rollbacks.      *)
StateIsExplained ==
  \A s \in Slots : entitlements[s].lastEventAt # None =>
    \E e \in processed :
      /\ event[e].type # "other"
      /\ event[e].created = entitlements[s].lastEventAt
      /\ StatusOf(e) = entitlements[s].status
      /\ \/ event[e].type = "checkout" /\ event[e].slot = s
         \/ event[e].type # "checkout" /\ event[e].sub = entitlements[s].sub

(* An older event never overwrites a newer state, and rows never go away.  *)
NeverRegresses ==
  [][\A s \in Slots : Exists(s) =>
       /\ Exists(s)'
       /\ entitlements'[s] # entitlements[s] /\ entitlements[s].lastEventAt # None =>
            entitlements'[s].lastEventAt >= entitlements[s].lastEventAt]_vars

(* Seen from the table, a step of the webhook handles one event at once or *)
(* does nothing: each event at most once, checkouts never without effect,  *)
(* newer states and other slots' subscriptions untouched, whatever         *)
(* deliveries overlap, fail, die or come again (handleEvent).              *)
Register == INSTANCE EntitlementRegister WITH
  Events <- EventIds,
  Meanings <- Checkout \cup StatusEvent \cup OtherEvent,
  FreshRows <- {NoRow, TrialRow},
  says <- event,
  row <- entitlements,
  handled <- processed

ImplementsRegister == Register!Spec

(* An acknowledged checkout is in force, or a newer event is: what the     *)
(* comments in handleCheckoutSessionCompleted take for granted when the    *)
(* insert fails.                                                           *)
CheckoutReflected ==
  \A e \in acked :
    event[e].type = "checkout" /\ event[e].metadata = "complete" =>
      LET row == entitlements[event[e].slot]
      IN  row.lastEventAt # None /\ row.lastEventAt >= event[e].created

(* Stripe gets its 200 for every event that can be attributed: no delivery *)
(* waits for ever, and no event is retried for ever.                       *)
EventuallyAcked ==
  \A e \in EventIds :
    (event[e].type = "checkout" => event[e].metadata = "complete") => <>(e \in acked)

=============================================================================
