SPECIFICATION FairSpec
CONSTANTS
  NRings = 3
  Admins = {a1, a2}
  a1 = a1
  a2 = a2
  AdminOps = {"pause", "abort"}
  Serial = FALSE
  AbortMayFail = FALSE
  MaxCrashes = 1
INVARIANTS OneRingAtATime
PROPERTIES HaltIsFinal ResultsStand NoRingForgotten ImplementsStaged
CHECK_DEADLOCK FALSE
