SPECIFICATION Spec
CONSTANTS
  me = me
  phone = phone
  peer = peer
  Devices <- Pair
  Primary <- OwnPrimaries
  Authors = {me}
  MaxKeys = 3
  MaxIteration = 8
  MaxStates = 2
  SaveMayFail = FALSE
INVARIANTS
  TypeOK
  NoKeyReuse
  AtMostOncePerState
  SkippedKeysBounded
  LateMessagesReadable
CHECK_DEADLOCK FALSE
