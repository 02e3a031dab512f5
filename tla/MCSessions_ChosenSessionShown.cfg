CONSTANTS
  s1 = s1  s2 = s2  s3 = s3
  w1 = w1  w2 = w2  w3 = w3
  c1 = c1  c2 = c2  c3 = c3
  NULL = NULL
  SessIds <- MCThreeSessions
  WindowIds <- MCThreeWindows
  ClientIds <- MCClientIds
  SessionNames <- MCSessionNames
  WindowNames <- MCWindowNames
  Indices <- MCOneIndex
  Templates <- MCTemplates


SPECIFICATION ChooserSpec
CONSTRAINT ChooserBound

PROPERTY ChosenSessionShown
