\* Chunking, locator, model router, rate-limit blocks, migrations, metrics, the
\* choice of an embedder and queries, each on its own.
SPECIFICATION Spec
CONSTANTS
  \* Chunking
  Lengths = {0, 1, 2, 3, 4, 5, 6, 7}
  MaxLines = {0, 1, 2, 3, 4, 9, 15}
  Overlaps = {0, 1, 2, 3, 5}
  Width = 16
  \* Locator
  acao = acao
  Acao = Acao
  ACAO = ACAO
  io = io
  f1 = f1
  f2 = f2
  None = None
  Words = {acao, Acao, ACAO, io}
  Folded <- Lower
  AsciiFolded <- LowerAscii
  Short = {io}
  FileOrder <- ByName
  Similarities = {1, 2}
  MaxTargets = {0, 1, 2}
  Room = 2
  MaxQuoted = 1
  MaxTokens = 2
  MaxChunks = 2
  \* ModelRouter
  WordCounts = {1, 12, 13, 59, 60}
  \* LlmBlocks
  Commands = {c1, c2}
  Claude = claude
  Providers = {claude, deepseek}
  Hours = {1}
  Malformed = Malformed
  Absent = Absent
  MaxNow = 2
  MaxCommands = 3
  \* Migrations
  Openers = {p1, p2}
  \* Metrics
  Recorders = {r1, r2}
  Sessions = {s1, s2}
  NoSession = NoSession
  MaxRequests = 2
  MaxResets = 2
  \* Embedders
  Embeddings = {deepseek, local, mix}
  Backends = {"local", "api"}
  MaxNested = 4
  \* QueryCache
  Nil = Nil
  small = small
  large = large
  thisQ = thisQ
  modelA = modelA
  modelB = modelB
  Askers = {cli, worker}
  Daemon = worker
  Questions = {thisQ}
  EmbedModels = {modelA, modelB}
  Texts = {small, large}
  Tokens <- TwoTokens
  Likeness <- LargeFirst
  Alike <- AllAlike
  Threshold = 1
  Semantic = TRUE
  TTL = 1
  TopKs = {2}
  Budgets = {1}
  MaxId = 2
  MaxRows = 3
  MaxIndex = 1
  MaxAsks = 2
  MaxTime = 1
INVARIANTS
  TypeOK
  EveryLineCovered
  TargetsAreBest
  ModelChoice
  BlockHonoured
  SchemaComplete
  MetricsAgree
  FallbackIsLast
  QueryTypeOK
  CitationsMatch
  BudgetIsFilled
  KeyedAnswers
PROPERTIES
  OrderlyMigrations
  StaysServed
  NoCacheIsApart
CHECK_DEADLOCK FALSE
