SPECIFICATION FairSpec
CONSTANTS
  s1 = s1  s2 = s2  s3 = s3  r1 = r1  p1 = p1  noCall = noCall
  NoCall = noCall
  Servers = {s1, s2}
  Rivals = {r1}
  Contended = {s1}
  Calls = {s1, s2, r1}
  Admins = {p1}
  Concurrency = 1
  DbMayFail = TRUE
  ReturnExceptions = TRUE
INVARIANTS OneAptPerServer NothingLeaks CancelHeard
PROPERTIES CancelStops TerminalStands TaskEnds
CHECK_DEADLOCK FALSE
