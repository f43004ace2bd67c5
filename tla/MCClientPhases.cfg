\* Two clients that come one after the other or together, break off anywhere and
\* may be unruly.
CONSTANTS
  c1 = c1
  c2 = c2
  Clients <- TwoClients
  Rogues <- TwoClients
  MaxConnected = 2
  MaxTokens = 2
  MaxUnlisted = 2
SPECIFICATION FairSpec
INVARIANTS
  TypeOK
  EachLoginOnce
  EachRequestOnce
  ServedInOrder
  OwnAccount
PROPERTIES
  ReachesMap
\* All clients have left in the end.
CHECK_DEADLOCK FALSE
