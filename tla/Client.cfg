SPECIFICATION Spec
CONSTANTS
  MaxConns = 3
  Scenarios <- PlainAndFaulty
INVARIANTS
  OneSocket
  StopLeavesNothing
  NewLoginExact
PROPERTIES
  LogoutIsFinal
  DropsRecovered
  StopEnds
CHECK_DEADLOCK FALSE
