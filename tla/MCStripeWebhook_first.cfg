SPECIFICATION Spec
CONSTANTS
  d1 = d1
  d2 = d2
  e1 = e1
  e2 = e2
  e3 = e3
  slot1 = slot1
  slot2 = slot2
  sub1 = sub1
  sub2 = sub2
  None = None
  Deliveries <- TwoDeliveries
  EventIds <- TwoEvents
  Slots <- OneSlot
  Subs <- TwoSubs
  Times = {1, 2}
  Faults = FALSE
INVARIANT CheckoutReflected
CHECK_DEADLOCK FALSE
