\* Three packets overflow the queue; two attempts in a row fail.
SPECIFICATION FairSpec
CONSTANTS
  MaxAttempts = 2
  QueueLimit = 2
  QueueKept = 2
  MaxSends = 3
  MaxConnects = 1
INVARIANTS
  TypeOK
  ConnectionIsWatched
  NotForgotten
  
PROPERTIES
  Settles
\* A client that was closed, or has given up, stops.
CHECK_DEADLOCK FALSE
