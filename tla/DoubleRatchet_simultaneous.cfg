SPECIFICATION Spec
CONSTANTS
  alice = alice
  bob = bob
  Parties <- Both
  SignedPreKey <- SignedOf
  OneTime = TRUE
  ArchivedLimit = 6
  MaxSessions = 1
  MaxSends = 7
  MaxKeys = 24
  Scenarios <- Simultaneous
INVARIANTS
  EveryMessageReadable
CHECK_DEADLOCK FALSE
