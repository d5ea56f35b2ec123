SPECIFICATION Spec
CONSTANTS
  h1 = h1
  h2 = h2
  Alphabet <- Symbols
  SingleTokens <- Singles
  DoubleTokens <- Doubles
  LongList = 20
  LengthBase = 10
  MaxFutures = 2
  Handlers <- Both
  Routes <- Registered
  Scenarios <- All
INVARIANTS
  NodesArrive
  NamesKept
  Routed
CHECK_DEADLOCK FALSE
