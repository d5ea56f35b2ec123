SPECIFICATION Spec
CONSTANTS
  MaxConns = 2
  Scenarios <- EarlyStop
INVARIANTS
  StopLeavesNothing
CHECK_DEADLOCK FALSE
