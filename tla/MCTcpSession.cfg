\* A queue of two packets, so that it fills, overflows and drains; five sends
\* and three chunks: every order of loss, overflow and timeout is reached.
CONSTANTS
  QueueLimit = 2
  MaxSends = 5
  MaxCalls = 3
SPECIFICATION FairSpec
INVARIANTS
  TypeOK
  QueueIsWritten
  LossIsBounded
PROPERTIES
  ImplementsLink
  NoSessionHangs
\* A session ends for good.
CHECK_DEADLOCK FALSE
