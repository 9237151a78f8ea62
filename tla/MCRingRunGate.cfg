SPECIFICATION FairSpec
CONSTANTS
  s1 = s1  s2 = s2  r1 = r1  noCall = noCall
  NoCall = noCall
  Servers = {s1, s2}
  Rivals = {r1}
  Contended = {s2}
  Calls = {s1, s2, r1}
  First = s1
  Canary = TRUE
  Concurrency = 2
  DbMayFail = TRUE
  ProbeMayFail = FALSE
  Slow = TRUE
INVARIANTS RecentFailureStops PassedMeansHealthy CanaryGoesFirst
PROPERTIES RingEnds
CHECK_DEADLOCK FALSE
