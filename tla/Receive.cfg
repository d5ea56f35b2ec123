SPECIFICATION Spec
CONSTANTS
  Script <- Mixed
  Durable = TRUE
  StoreMayFail = FALSE
  MaxDrops = 2
  MaxRestarts = 1
INVARIANTS
  ToldInOrder
  NothingVanishes
  OnlyRepeatsFail
  HistoryComplete
PROPERTIES
  AllAcked
CHECK_DEADLOCK FALSE
