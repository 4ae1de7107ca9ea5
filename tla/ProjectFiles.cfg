\* Index runs, every save of a content never seen before; runs of both set-up
\* commands that meet, die and are repeated, and an edit of the user.
SPECIFICATION ProjectSpec
CONSTANTS
  \* FileIndex
  Order <- TwoPaths
  ModuleOf <- OneDir
  Kinds = {"text", "garbled", "large"}
  Repeats = FALSE
  Coarse = FALSE
  None = None
  MaxEdits = 3
  \* Setup
  Installers = {i1, i2}
  Configs <- OneConfig
  Entries = {theirs}
  Own = Own
  Missing = Missing
  Garbled = Garbled
  MaxUserEdits = 1
INVARIANTS
  TypesOK
  IndexCurrent
  SummariesCurrent
  DigestMatchesIndex
  SetupIsSafe
PROPERTIES
  IdempotentRun
  FailsForCause
CHECK_DEADLOCK FALSE
