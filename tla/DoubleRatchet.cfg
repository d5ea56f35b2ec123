SPECIFICATION Spec
CONSTANTS
  alice = alice
  bob = bob
  Parties <- Both
  SignedPreKey <- SignedOf
  OneTime = TRUE
  ArchivedLimit = 6
  MaxSessions = 1
  MaxSends = 7
  MaxKeys = 20
  Scenarios <- OneOrBoth
INVARIANTS
  OneSidedReadable
  OneOpenSession
  PeerKnowsSession
  NoKeyReuse
PROPERTIES
  Implements
CHECK_DEADLOCK FALSE
