\* DecodeErrorReaccepts does not hold.
CONSTANTS
  c1 = c1
  c2 = c2
  c3 = c3
  Conns <- TwoConns
  NoConn = NoConn
SPECIFICATION FairSpec
PROPERTY DecodeErrorReaccepts
CHECK_DEADLOCK FALSE
