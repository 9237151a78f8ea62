SPECIFICATION Spec
CONSTANTS
  NRings = 2
  Admins = {a1}
  a1 = a1
  a2 = a2
  AdminOps = {"promote"}
  Serial = FALSE
  AbortMayFail = FALSE
  MaxCrashes = 0
INVARIANTS OneRingAtATime
CHECK_DEADLOCK FALSE
