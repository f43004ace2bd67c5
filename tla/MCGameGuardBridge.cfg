\* The login and the char wire, two challenges, the configured limit of three
\* retries, three challenges asked in one run.
CONSTANTS
  loginWire = loginWire
  charWire  = charWire
  q1 = q1
  q2 = q2
  Wires   <- MCWires
  Queries <- MCQueries
  NoWire  = NoWire
  NoQuery = NoQuery
  MaxRetries = 3
  MaxQueries = 3
SPECIFICATION FairSpec
INVARIANTS
  TypeOK
  BooksBalance
PROPERTIES
  NoEarlyGiveUp
  ImplementsExchange
  PendingSettles
