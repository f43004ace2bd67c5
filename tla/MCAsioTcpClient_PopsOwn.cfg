\* PopsOwn does not hold.
SPECIFICATION Spec
CONSTANTS
  MaxAttempts = 2
  QueueLimit = 2
  QueueKept = 2
  MaxSends = 3
  MaxConnects = 1
INVARIANT PopsOwn
CHECK_DEADLOCK FALSE
