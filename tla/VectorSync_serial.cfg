\* One run at a time, of either program, or of `brain index` with two models of
\* different dimension, killed anywhere.
SPECIFICATION SerialSpec
CONSTANTS
  a = a
  b = b
  m1 = m1
  m2 = m2
  f1 = f1
  f2 = f2
  None = None
  Indexers = {run}
  Kinds = {"cli", "daemon"}
  Files = {f1, f2}
  Contents = {a, b}
  Texts <- TwoChunks
  Models = {m1, m2}
  DimOf <- TwoDims
  MaxId = 3
  BatchSize = 2
  ShortReplies = FALSE
  AbortAt <- Everywhere
INVARIANTS
  TypeOK
  MarkedHasVector
  NoOrphanAfterPrune
  DoneMeansEmbedded
  PinHonest
PROPERTIES
  Incremental
  EveryRunEnds
CHECK_DEADLOCK FALSE
