\* Prompt hooks and commands that come one after the other.
SPECIFICATION CommandsSpec
CONSTANTS
  d1 = d1
  d2 = d2
  d3 = d3
  None = None
  Empty = Empty
  Daemons <- Three
  Commands = {k1}
  Overlap = FALSE
  Slow = FALSE
PROPERTY
  PromptStartsDaemon
CHECK_DEADLOCK FALSE
