\* One run at a time and no crash: what the end of a run leaves in LanceDB.
SPECIFICATION Spec
CONSTANTS
  a = a
  b = b
  m1 = m1
  m2 = m2
  None = None
  Indexers = {run}
  Kinds = {"cli", "daemon"}
  Files = {f1, f2}
  Contents = {a, b}
  Texts <- OneChunk
  Models = {m1}
  DimOf <- SameDim
  MaxId = 3
  BatchSize = 1
  ShortReplies = FALSE
  AbortAt = {}
INVARIANT
  NoStaleVector
CHECK_DEADLOCK FALSE
