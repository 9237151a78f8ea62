SPECIFICATION Spec
CONSTANTS
  s1 = s1  s2 = s2  r1 = r1  noCall = noCall
  NoCall = noCall
  Servers = {s1, s2}
  Rivals = {}
  Contended = {s2}
  Calls = {s1, s2}
  First = s1
  Canary = FALSE
  Concurrency = 2
  DbMayFail = FALSE
  ProbeMayFail = FALSE
  Slow = TRUE
INVARIANTS AnyFailureStops
CHECK_DEADLOCK FALSE
