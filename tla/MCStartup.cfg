\* Two processes, two sets, and other programs on any of the ports.
CONSTANTS
  p1 = p1
  p2 = p2
  Free = Free
  Other = Other
  Procs <- TwoProcs
  NSets = 2
  Contended <- Ports
SPECIFICATION Spec
INVARIANTS
  TypeOK
  KeepsOneSet
  EveryoneStarts
