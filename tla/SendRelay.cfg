SPECIFICATION Spec
CONSTANTS
  d1 = d1
  g1 = g1
  g2 = g2
  mine = mine
  r1 = r1
  hosted = hosted
  self = self
  Sends = {d1, g1, g2}
  Groups = {g1, g2}
  Media = {d1}
  Devices = {self, mine, r1, hosted}
  Own = {self, mine}
  Hosted = {hosted}
  Listed <- SameList
INVARIANTS
  WireOrder
  FreshKeys
  GroupReadable
  ReachesAll
PROPERTIES
  SendsEnd
CHECK_DEADLOCK FALSE
