SPECIFICATION Spec
CONSTANTS
  Initial = 3
  Refill = 2
  Low = 1
  CrashBetweenFiles = FALSE
  MaxDrawn = 8
INVARIANTS
  PreKeysUsable
CHECK_DEADLOCK FALSE
