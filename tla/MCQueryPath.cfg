\* One login and two char clients, two bus connections, one retry, two challenges.
CONSTANTS
  c1 = c1
  c2 = c2
  login1 = login1
  char1 = char1
  char2 = char2
  Conns <- MCConns
  NoConn = NoConn
  Sessions <- ThreeSessions
  NoSession = NoSession
  RoleOf <- MCRoleOf
  MaxRetries = 1
  MaxQueries = 2
SPECIFICATION Spec
INVARIANTS
  NeverMisdirected
  StaleOnlyAfterResend
PROPERTIES
  AnswerIsWritten
  BusContract
CHECK_DEADLOCK FALSE
