CONSTANTS
    ann = ann
    bob = bob
    eve = eve
    t1 = t1
    t2 = t2
    j1 = j1
    j2 = j2
    j3 = j3
    Nil = Nil
    User = {ann, bob, eve}
    Tenant = {t1, t2}
    Job = {j1, j2, j3}
    Scenarios <- MCScenarios
    Worlds <- MCWorlds
    Changes <- MCChanges
SPECIFICATION Spec
CHECK_DEADLOCK FALSE
INVARIANTS EntitledSinceArrival RunsForOwnFirm RolesOfMembers GateInv
PROPERTIES ResetTouchesOneFirm
