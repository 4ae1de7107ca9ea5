----------------------------- MODULE MCSmallParts -----------------------------
(* The parts that touch nothing of each other, checked in one run: a         *)
(* behaviour is one of one part, the others rest.                            *)
EXTENDS Chunking, Locator, ModelRouter, LlmBlocks, Migrations, Metrics,
        Embedders, QueryCache

CONSTANTS acao, Acao, ACAO, io, f1, f2, small, large, thisQ, modelA, modelB

\* For "ação", "Ação" and "AÇÃO": the last has letters beyond ASCII in upper case.
Lower      == [w \in {acao, Acao, ACAO, io} |-> IF w = io THEN io ELSE acao]
LowerAscii == [w \in {acao, Acao, ACAO, io} |-> IF w = Acao THEN acao ELSE w]
ByName == <<f1, f2>>

\* Two texts, of which the longer is the nearer to the question, asked with two
\* models whose vectors are near each other.
TwoTokens == [t \in {small, large} |-> IF t = small THEN 1 ELSE 2]
LargeFirst == [k \in {thisQ} \X {modelA, modelB} |-> TwoTokens]
AllAlike   == [k \in {thisQ} \X {modelA, modelB} |-> [j \in {thisQ} \X {modelA, modelB} |-> 2]]

\* There is an input for a part to rest with.
ASSUME SmallPartsConstants ==
  /\ Lengths # {} /\ MaxLines # {} /\ Overlaps # {}
  /\ MaxTargets # {} /\ WordCounts # {}

VARIABLE part

ChunkingRests ==
  /\ lines = CHOOSE n \in Lengths : TRUE
  /\ cfg = CHOOSE c \in [max : MaxLines, overlap : Overlaps] : TRUE
  /\ start = 0 /\ chunks = <<>> /\ looping = FALSE

LocatorRests ==
  /\ named = <<>> /\ action = FALSE /\ ranked = <<>> /\ max = CHOOSE m \in MaxTargets : TRUE
  /\ words = <<>> /\ byFile = [f \in Files |-> None] /\ report = <<>> /\ turn = 0

RouterRests ==
  /\ prompt = CHOOSE p \in Prompt : TRUE
  /\ tried = 0 /\ best = [model |-> "sonnet", score |-> -1]

EmbeddersRest ==
  /\ registry = [p \in Embeddings |-> [runtime |-> "unknown", next |-> <<>>]]
  /\ trying = [name |-> Asked, instead |-> {}]
  /\ pending = <<>> /\ refused = {} /\ embedder = Looking

MigrationsRest == /\ schema = {} /\ userVersion = 0 /\ apart = TRUE
                  /\ opener = [p \in Openers |-> ClosedDb]

\* An empty project.
QueryRests == QueryInit /\ chunkRows = [i \in ChunkIds |-> Nil]

Init ==
  /\ part \in {"chunking", "locator", "router", "blocks", "migrations", "metrics", "embedders",
               "queries"}
  /\ IF part = "chunking" THEN ChunkInit ELSE ChunkingRests
  /\ IF part = "locator" THEN LocatorInit ELSE LocatorRests
  /\ IF part = "router" THEN RouterInit ELSE RouterRests
  /\ BlocksInit
  /\ IF part = "migrations" THEN MigrationsInit ELSE MigrationsRest
  /\ MetricsInit
  /\ IF part = "embedders" THEN EmbeddersInit ELSE EmbeddersRest
  /\ IF part = "queries" THEN QueryInit ELSE QueryRests

ChunkStep ==
  /\ part = "chunking" /\ NextWindow
  /\ UNCHANGED <<part, locatorVars, routerVars, blockVars, migrationVars, metricVars,
                embedderVars, queryVars>>
LocatorStep ==
  /\ part = "locator" /\ LocatorNext
  /\ UNCHANGED <<part, chunkVars, routerVars, blockVars, migrationVars, metricVars,
                embedderVars, queryVars>>
RouterStep ==
  /\ part = "router" /\ Pick
  /\ UNCHANGED <<part, chunkVars, locatorVars, blockVars, migrationVars, metricVars,
                embedderVars, queryVars>>
BlocksStep ==
  /\ part = "blocks" /\ BlocksNext
  /\ UNCHANGED <<part, chunkVars, locatorVars, routerVars, migrationVars, metricVars,
                embedderVars, queryVars>>
MigrationsStep ==
  /\ part = "migrations" /\ MigrationsNext
  /\ UNCHANGED <<part, chunkVars, locatorVars, routerVars, blockVars, metricVars,
                embedderVars, queryVars>>
MetricsStep ==
  /\ part = "metrics" /\ MetricsNext
  /\ UNCHANGED <<part, chunkVars, locatorVars, routerVars, blockVars, migrationVars,
                embedderVars, queryVars>>
EmbeddersStep ==
  /\ part = "embedders" /\ EmbeddersNext
  /\ UNCHANGED <<part, chunkVars, locatorVars, routerVars, blockVars, migrationVars,
                metricVars, queryVars>>
QueriesStep ==
  /\ part = "queries" /\ QueryNext
  /\ UNCHANGED <<part, chunkVars, locatorVars, routerVars, blockVars, migrationVars,
                metricVars, embedderVars>>

Next == ChunkStep \/ LocatorStep \/ RouterStep \/ BlocksStep \/ MigrationsStep
        \/ MetricsStep \/ EmbeddersStep \/ QueriesStep

allVars == <<chunkVars, locatorVars, routerVars, blockVars, migrationVars, metricVars,
             embedderVars, queryVars>>

Spec == Init /\ [][Next]_<<part, allVars>>

\* The variables of each part have their types.
TypeOK == ChunkTypeOK /\ LocatorTypeOK /\ RouterTypeOK /\ BlocksTypeOK
          /\ MigrationsTypeOK /\ MetricsTypeOK /\ EmbeddersTypeOK
=============================================================================
