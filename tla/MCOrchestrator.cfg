\* Blocks of two, three processes, one port that is taken from outside, and a
\* second signal.
SPECIFICATION FairSpec
CONSTANTS
  Triples <- SomeTriples
  BlockSize = 2
  MaxStarts = 3
  MaxForeign = 1
  MaxSignals = 2
INVARIANTS
  TypeOK
  OneServerPerPort
  LosesNoServer
PROPERTIES
  CommandsEnd
\* The program ends.
CHECK_DEADLOCK FALSE
