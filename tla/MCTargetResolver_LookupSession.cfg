CONSTANTS
  s1 = s1  s2 = s2  s3 = s3
  w1 = w1  w2 = w2  w3 = w3
  c1 = c1  c2 = c2
  NULL = NULL
  Garbage = Garbage
  Fault = Fault
  SessIds <- MCThreeSessions
  WindowIds <- MCThreeWindows
  ClientIds <- MCClientIds
  SessionNames <- MCThreeNames
  WindowNames <- MCWindowNames
  Indices <- MCIndices
  ClientPath <- MCClientPath
  PaneCount <- MCPaneCount
  Queries <- MCQueries
  MaxEnvIdx = 2

SPECIFICATION TableSpec
CHECK_DEADLOCK FALSE
SYMMETRY Symmetry
INVARIANT LookupSessionMatchesSpec
