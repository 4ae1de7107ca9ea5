\* Contents come back.
SPECIFICATION Spec
CONSTANTS
  Order <- TwoPaths
  ModuleOf <- OneDir
  Kinds = {"text"}
  Repeats = TRUE
  Coarse = FALSE
  None = None
  MaxEdits = 3
INVARIANT
  DigestMatchesIndex
CHECK_DEADLOCK FALSE
