SPECIFICATION ServerSpec
CONSTANTS
  t1 = t1
  t2 = t2
  a = a
  b = b
  Callers = {t1, t2}
  Chats = {a, b}
  Polls = 1
  MaxConns = 3
  Scenarios <- Clients
  Settings <- All
INVARIANTS
  OnlineExact
  ShutdownLeavesNothing
  HandedOnce
  MediaArrives
CHECK_DEADLOCK FALSE
