\* A worker indexing while `brain index` runs, no crash.
SPECIFICATION Spec
CONSTANTS
  a = a
  b = b
  m1 = m1
  m2 = m2
  None = None
  Indexers = {r1, r2}
  Kinds = {"cli", "daemon"}
  Files = {f1}
  Contents = {a, b}
  Texts <- OneChunk
  Models = {m1}
  DimOf <- SameDim
  MaxId = 2
  BatchSize = 1
  ShortReplies = FALSE
  AbortAt = {}
INVARIANT
  MarkedHasVector
CHECK_DEADLOCK FALSE
