SPECIFICATION Spec
CONSTANTS
  s1 = s1
  s2 = s2
  s3 = s3
  Senders = {s1, s2, s3}
  Base = 4
  Sizes = {1}
  MaxSends = 3
  MaxFrames = 2
INVARIANTS
  InStep
PROPERTIES
  ImplementsOutbound
  ImplementsInbound
CHECK_DEADLOCK FALSE
