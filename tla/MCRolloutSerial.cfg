SPECIFICATION FairSerialSpec
CONSTANTS
  NRings = 2
  Admins = {a1}
  a1 = a1
  a2 = a2
  AdminOps = {"promote", "pause", "resume", "abort"}
  Serial = TRUE
  AbortMayFail = TRUE
  MaxCrashes = 2
INVARIANTS GateHolds
PROPERTIES ImplementsStaged RunningEnds
CHECK_DEADLOCK FALSE
