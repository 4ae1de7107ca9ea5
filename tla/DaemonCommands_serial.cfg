\* Commands that come one after the other, any number of them; three daemons,
\* each killed or signalled anywhere.
SPECIFICATION FairCommands
CONSTANTS
  d1 = d1
  d2 = d2
  d3 = d3
  None = None
  Empty = Empty
  Daemons <- Three
  Commands = {k1}
  Overlap = FALSE
  Slow = FALSE
INVARIANTS
  CommandsTypeOK
  ServerIsReachable
  TruthfulCommands
PROPERTIES
  RefusalJustified
  StopStops
  CommandsEnd
CHECK_DEADLOCK FALSE
