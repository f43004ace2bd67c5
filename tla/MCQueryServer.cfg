\* Three connections: one served, two waiting in the backlog.
\* The io loop ends when a handler throws, so the system may stop.
CONSTANTS
  c1 = c1
  c2 = c2
  c3 = c3
  Conns <- ThreeConns
  NoConn = NoConn
SPECIFICATION FairSpec
INVARIANTS
  TypeOK
  OneOperation
  SocketHeld
PROPERTIES
  ServerFreed
CHECK_DEADLOCK FALSE
