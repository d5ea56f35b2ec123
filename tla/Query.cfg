SPECIFICATION Spec
CONSTANTS
  u1 = u1
  u2 = u2
  p1 = p1
  p2 = p2
  i1 = i1
  i2 = i2
  Users = {u1}
  PostLogin <- One
  Inline = {i1, i2}
  Isolated = {i1}
  Messages = 1
INVARIANTS
  ReaderSurvives
  CloseReleases
PROPERTIES
  QueriesEnd
CHECK_DEADLOCK FALSE
