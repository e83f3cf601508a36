SPECIFICATION Spec
CONSTANTS
  r1 = r1
  r2 = r2
  r3 = r3
  u1 = u1
  u2 = u2
  None = None
  Requests <- ThreeRequests
  Users <- TwoUsers
  Roles = {"owner", "admin"}
SYMMETRY Symmetry
INVARIANTS
  TenantHasOwner
  NoLostUpdate
  OwnerInv
CHECK_DEADLOCK FALSE
