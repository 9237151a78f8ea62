SPECIFICATION Spec
CONSTANTS
  s1 = s1
  s2 = s2
  fleet = fleet
  Fleet = fleet
  Servers <- MCServers
  Scopes <- MCScopes
  Days = 2
  DayLength = 3
  Lookahead = 12
  Rows <- MCRows
  MaxWindows = 2
  MaxQueue = 1
PROPERTY AutoPermitted
