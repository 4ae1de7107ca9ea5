\* Two commands at once.
SPECIFICATION CommandsSpec
CONSTANTS
  d1 = d1
  d2 = d2
  d3 = d3
  None = None
  Empty = Empty
  Daemons <- Three
  Commands = {k1, k2}
  Overlap = TRUE
  Slow = FALSE
SYMMETRY AnyOrder
INVARIANT
  OneServing
CHECK_DEADLOCK FALSE
