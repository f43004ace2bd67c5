\* NoOrphans does not hold.
SPECIFICATION Spec
CONSTANTS
  Triples <- SomeTriples
  BlockSize = 2
  MaxStarts = 3
  MaxForeign = 1
  MaxSignals = 2
INVARIANT NoOrphans
CHECK_DEADLOCK FALSE
