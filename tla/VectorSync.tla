----------------------------- MODULE VectorSync -----------------------------
(***************************************************************************)
(* The indexing pipeline of brain-engine: how one run of `brain index`     *)
(* (or of the daemon's Index request) brings two stores that share no      *)
(* transaction into step.                                                  *)
(*                                                                         *)
(*   SQLite   tables files and chunks, and the two meta rows that pin the  *)
(*            embedding model; one writer at a time (WAL)                  *)
(*   LanceDB  one append-only table of (chunk_id, content, vector) rows    *)
(*                                                                         *)
(* A run commits the changed files in one SQLite transaction, prunes the   *)
(* vectors whose chunk is gone, embeds the chunks that carry no mark       *)
(* (vector_id IS NULL) batch by batch, and marks each chunk once its       *)
(* vector is written.  Every one of these is a separate step: the process  *)
(* can die, or another run can act, between any two of them.               *)
(***************************************************************************)
EXTENDS Integers, Sequences, FiniteSets

CONSTANTS
  Indexers,      \* slots in which a run can execute; two slots: two runs at once
  Kinds,         \* which programs run: "cli" (brain index), "daemon" (worker)
  Files,         \* paths of the project
  Contents,      \* contents of a chunk
  Texts,         \* texts a file can have: non-empty sequences of contents
  Models,        \* embedding models a run can be configured with
  DimOf,         \* the dimension of each model's vectors
  None,          \* absent: no file, no pin, no table
  MaxId,         \* BOUND: the largest chunk rowid
  BatchSize,     \* chunks embedded per call (64 in the code)
  ShortReplies,  \* whether the embedder may answer with fewer vectors than texts
  AbortAt        \* program points where a run may die or return an error

ChunkIds == 1 .. MaxId

Points == {"load", "write", "remove", "pin", "unmark", "ifabsent", "setmodel",
           "setdim", "clear", "ids", "prune", "pending", "batch", "upsert",
           "add", "mark"}

ASSUME SyncConstants ==
  /\ Kinds \subseteq {"cli", "daemon"}
  /\ Texts \subseteq Seq(Contents) \ {<<>>}
  /\ DimOf \in [Models -> Nat]
  /\ None \notin Files \cup Contents \cup Models \cup Nat
  /\ MaxId \in Nat
  /\ BatchSize \in Nat \ {0}
  /\ ShortReplies \in BOOLEAN
  /\ AbortAt \subseteq Points

VARIABLES
  files,   \* table files: the text whose chunks are stored, by path
  chunks,  \* table chunks, by rowid
  pin,     \* meta rows embedding.model_id and embedding.dim
  table,   \* dimension of the LanceDB table's schema, None before it exists
  store,   \* rows of the LanceDB table (equal rows count once)
  pc,      \* where each run is; "done" after a run that embedded everything
  job,     \* what each run was asked, and which model it embeds with
  seen,    \* each run's snapshot of files (load_existing)
  holder,  \* the file that now has the row (files.id) each run saw for a path
  tx,      \* the uncommitted rows of the run that holds the write lock
  ids,     \* each run's snapshot of the chunk ids, for the prune
  pend,    \* each run's snapshot of the unmarked chunks still to embed
  batch    \* each run's current batch

sqlite  == <<files, chunks, pin>>
lancedb == <<table, store>>
locals  == <<job, seen, holder, tx, ids, pend, batch>>
vars    == <<sqlite, lancedb, pc, locals>>

-----------------------------------------------------------------------------
NoChunk == [file |-> None, content |-> None, marked |-> FALSE]
Slot    == [file : Files \cup {None}, content : Contents \cup {None}, marked : BOOLEAN]
Chunk   == {c \in Slot :
              /\ c.file = None => ~c.marked
              /\ (c.file = None) <=> (c.content = None)}
Row     == [id : ChunkIds, content : Contents, model : Models]
Pending == [id : ChunkIds, content : Contents]
Job     == [kind : Kinds, model : Models, full : BOOLEAN, noEmbed : BOOLEAN]
NoJob   == [kind |-> None, model |-> None, full |-> FALSE, noEmbed |-> FALSE]
NoText  == <<>>
NoTx    == [files   |-> [f \in Files |-> NoText],
            chunks  |-> [i \in ChunkIds |-> NoChunk],
            written |-> {}]

Live(rows) == {i \in ChunkIds : rows[i].file # None}

\* SQLite gives a new row the largest rowid in use plus one: `chunks.id` is
\* INTEGER PRIMARY KEY without AUTOINCREMENT, so the id of a deleted row comes
\* back when that row had the largest one.
NextRowid(rows) ==
  CHOOSE i \in 1 .. MaxId + 1 :
    /\ \A j \in Live(rows) : j < i
    /\ i = 1 \/ i - 1 \in Live(rows)

\* Mutant: the deletion of a file clears the columns and leaves the mark.
WithoutButMark(rows, f) ==
  [i \in ChunkIds |-> IF rows[i].file = f
                      THEN [NoChunk EXCEPT !.marked = rows[i].marked]
                      ELSE rows[i]]

Without(rows, f) ==
  [i \in ChunkIds |-> IF rows[i].file = f THEN NoChunk ELSE rows[i]]

\* Mutant: the rows of a rewritten file are updated in place and keep their mark.
ReplacedInPlace(rows, f, t) ==
  LET kept == Without(rows, f)
      base == NextRowid(kept)
  IN  [i \in ChunkIds |->
         IF i \in base .. base + Len(t) - 1
         THEN [file |-> f, content |-> t[i - base + 1], marked |-> rows[i].marked]
         ELSE kept[i]]

\* Table chunks after the chunks of `f` were replaced wholesale by those of `t`.
Replaced(rows, f, t) ==
  LET kept == Without(rows, f)
      base == NextRowid(kept)
  IN  [i \in ChunkIds |->
         IF i \in base .. base + Len(t) - 1
         THEN [file |-> f, content |-> t[i - base + 1], marked |-> FALSE]
         ELSE kept[i]]

\* The bound MaxId leaves room for the new rows.
Fits(rows, f, t) ==
  LET base == NextRowid(Without(rows, f))
  IN  base \in ChunkIds /\ base + Len(t) - 1 <= MaxId

-----------------------------------------------------------------------------
Init ==
  /\ files  = [f \in Files |-> NoText]
  /\ chunks = [i \in ChunkIds |-> NoChunk]
  /\ pin    = [model |-> None, dim |-> None]
  /\ table  = None
  /\ store  = {}
  /\ pc     = [p \in Indexers |-> "idle"]
  /\ job    = [p \in Indexers |-> NoJob]
  /\ seen   = [p \in Indexers |-> [f \in Files |-> NoText]]
  /\ holder = [p \in Indexers |-> [f \in Files |-> f]]
  /\ tx     = NoTx
  /\ ids    = [p \in Indexers |-> {}]
  /\ pend   = [p \in Indexers |-> {}]
  /\ batch  = [p \in Indexers |-> {}]

At(p, l)   == pc[p] = l
Goto(p, l) == pc' = [pc EXCEPT ![p] = l]
InTx(p)    == pc[p] \in {"write", "remove"}
Unlocked   == \A p \in Indexers : ~InTx(p)
Idle(p)    == pc[p] \in {"idle", "done"}

\* What a run that ends takes with it.
Forget(p) ==
  /\ job'   = [job EXCEPT ![p] = NoJob]
  /\ seen'  = [seen EXCEPT ![p] = [f \in Files |-> NoText]]
  /\ ids'   = [ids EXCEPT ![p] = {}]
  /\ pend'  = [pend EXCEPT ![p] = {}]
  /\ batch' = [batch EXCEPT ![p] = {}]

\* A run begins: its arguments, its configured embedder, and load_existing.
Start(p) ==
  /\ Idle(p)
  /\ \E k \in Kinds, m \in Models, reindex, noEmbed \in BOOLEAN :
       job' = [job EXCEPT ![p] = [kind |-> k, model |-> m, full |-> reindex,
                                  noEmbed |-> noEmbed]]
  /\ seen' = [seen EXCEPT ![p] = files]
  /\ holder' = [holder EXCEPT ![p] = [f \in Files |-> f]]
  /\ Goto(p, "load")
  /\ UNCHANGED <<sqlite, lancedb, tx, ids, pend, batch>>

\* The transaction of index_project.  Its first write takes SQLite's write
\* lock; a run that waits longer than the busy timeout fails (Abort).
BeginTx(p) ==
  /\ At(p, "load")
  /\ Unlocked
  /\ tx' = [files |-> files, chunks |-> chunks, written |-> {}]
  /\ Goto(p, "write")
  /\ UNCHANGED <<sqlite, lancedb, job, seen, holder, ids, pend, batch>>

\* Mutant: the hash is not compared.
RewriteAlways(p, f, t) ==
  /\ At(p, "write")
  /\ f \notin tx.written
  /\ Fits(tx.chunks, f, t)
  /\ tx' = [files   |-> [tx.files EXCEPT ![f] = t],
            chunks  |-> Replaced(tx.chunks, f, t),
            written |-> tx.written \cup {f}]
  /\ UNCHANGED <<sqlite, lancedb, pc, job, seen, holder, ids, pend, batch>>

\* write_changed: a file whose hash differs from the one load_existing saw.
RewriteFile(p, f, t) ==
  /\ At(p, "write")
  /\ f \notin tx.written
  /\ t # seen[p][f]
  /\ Fits(tx.chunks, f, t)
  /\ tx' = [files   |-> [tx.files EXCEPT ![f] = t],
            chunks  |-> Replaced(tx.chunks, f, t),
            written |-> tx.written \cup {f}]
  /\ UNCHANGED <<sqlite, lancedb, pc, job, seen, holder, ids, pend, batch>>

\* A file load_existing saw and the walk did not: the row that had its id then is
\* deleted, whoever has that id now, and the chunks cascade.
RemoveFile(p, f) ==
  /\ InTx(p)
  /\ f \notin tx.written
  /\ seen[p][f] # NoText
  /\ tx' = [files   |-> [g \in Files |-> IF g = holder[p][f] THEN NoText ELSE tx.files[g]],
            chunks  |-> Without(tx.chunks, holder[p][f]),
            written |-> tx.written \cup {f}]
  /\ Goto(p, "remove")
  /\ UNCHANGED <<sqlite, lancedb, job, seen, holder, ids, pend, batch>>

\* index_project has returned; with --no-embed the run is over.
EndIndexing(p) ==
  IF job[p].noEmbed
  THEN Forget(p) /\ Goto(p, "idle")
  ELSE /\ seen' = [seen EXCEPT ![p] = [f \in Files |-> NoText]]
       /\ Goto(p, "pin")
       /\ UNCHANGED <<job, ids, pend, batch>>

\* A row that another run saw is nobody's once its file is deleted, and perhaps that
\* of a file inserted later: files.id is no AUTOINCREMENT either.
HoldersAfter(p) ==
  /\ holder' \in [Indexers -> [Files -> Files \cup {None}]]
  /\ \A q \in Indexers, f \in Files :
       LET h == holder[q][f] IN
       IF q = p \/ ~At(q, "load") THEN holder'[q][f] = h
       ELSE IF h # None THEN holder'[q][f] = IF tx.files[h] = NoText THEN None ELSE h
       ELSE holder'[q][f] \in {None} \cup
              {g \in Files : files[g] = NoText /\ tx.files[g] # NoText}

Commit(p) ==
  /\ InTx(p)
  /\ files'  = tx.files
  /\ chunks' = tx.chunks
  /\ tx'     = NoTx
  /\ HoldersAfter(p)
  /\ EndIndexing(p)
  /\ UNCHANGED <<pin, lancedb>>

\* A transaction without a statement takes no lock.
CommitNothing(p) ==
  /\ At(p, "load")
  /\ EndIndexing(p)
  /\ UNCHANGED <<sqlite, lancedb, holder, tx>>

-----------------------------------------------------------------------------
(* The model pin.                                                          *)

PinComplete    == pin.model # None /\ pin.dim # None
PinMatches(m)  == pin.model = m /\ pin.dim = DimOf[m]

\* check_model_pin: a missing row counts as "no pin recorded yet".
PinMismatch(m) == PinComplete /\ ~PinMatches(m)

\* Only `brain index` compares the pin; the worker rebuilds on request only.
CheckPin(p) ==
  /\ At(p, "pin")
  /\ LET cli  == job[p].kind = "cli"
         full == job[p].full \/ (cli /\ PinMismatch(job[p].model))
     IN  /\ job' = [job EXCEPT ![p].full = full]
         /\ Goto(p, IF full THEN "unmark" ELSE IF cli THEN "ifabsent" ELSE "ids")
  /\ UNCHANGED <<sqlite, lancedb, seen, holder, tx, ids, pend, batch>>

\* set_model_pin_if_absent looks at the model row alone.
SetIfAbsent(p) ==
  /\ At(p, "ifabsent")
  /\ Goto(p, IF pin.model = None THEN "setmodel" ELSE "ids")
  /\ UNCHANGED <<sqlite, lancedb, locals>>

\* Mutant: the rebuild keeps the marks of the chunks.
UnmarkForgotten(p) ==
  /\ At(p, "unmark")
  /\ Goto(p, IF job[p].kind = "cli" THEN "setmodel" ELSE "clear")
  /\ UNCHANGED <<sqlite, lancedb, locals>>

\* UPDATE chunks SET vector_id = NULL
Unmark(p) ==
  /\ At(p, "unmark")
  /\ Unlocked
  /\ chunks' = [i \in ChunkIds |-> [chunks[i] EXCEPT !.marked = FALSE]]
  /\ Goto(p, IF job[p].kind = "cli" THEN "setmodel" ELSE "clear")
  /\ UNCHANGED <<files, pin, lancedb, locals>>

SetModel(p) ==
  /\ At(p, "setmodel")
  /\ Unlocked
  /\ pin' = [pin EXCEPT !.model = job[p].model]
  /\ Goto(p, "setdim")
  /\ UNCHANGED <<files, chunks, lancedb, locals>>

SetDim(p) ==
  /\ At(p, "setdim")
  /\ Unlocked
  /\ pin' = [pin EXCEPT !.dim = DimOf[job[p].model]]
  /\ Goto(p, IF job[p].kind = "cli" /\ job[p].full THEN "clear" ELSE "ids")
  /\ UNCHANGED <<files, chunks, lancedb, locals>>

\* VectorStore::clear drops the table, and its schema with it.
Clear(p) ==
  /\ At(p, "clear")
  /\ table' = None
  /\ store' = {}
  /\ Goto(p, IF job[p].kind = "cli" THEN "ids" ELSE "setmodel")
  /\ UNCHANGED <<sqlite, locals>>

-----------------------------------------------------------------------------
(* The prune and the embedding loop.                                       *)

SnapshotIds(p) ==
  /\ At(p, "ids")
  /\ ids' = [ids EXCEPT ![p] = Live(chunks)]
  /\ Goto(p, "prune")
  /\ UNCHANGED <<sqlite, lancedb, job, seen, holder, tx, pend, batch>>

\* Mutant: an empty list of ids prunes nothing.
DeleteSomeOrphans(p) ==
  /\ At(p, "prune")
  /\ store' = IF ids[p] = {} THEN store ELSE {r \in store : r.id \in ids[p]}
  /\ ids'   = [ids EXCEPT ![p] = {}]
  /\ Goto(p, "pending")
  /\ UNCHANGED <<sqlite, table, job, seen, holder, tx, pend, batch>>

\* delete_orphans: every row whose chunk_id is NOT IN the snapshot.
DeleteOrphans(p) ==
  /\ At(p, "prune")
  /\ store' = {r \in store : r.id \in ids[p]}
  /\ ids'   = [ids EXCEPT ![p] = {}]
  /\ Goto(p, "pending")
  /\ UNCHANGED <<sqlite, table, job, seen, holder, tx, pend, batch>>

Unmarked(rows) ==
  {[id |-> i, content |-> rows[i].content] :
     i \in {j \in Live(rows) : ~rows[j].marked}}

SnapshotPending(p) ==
  /\ At(p, "pending")
  /\ pend' = [pend EXCEPT ![p] = Unmarked(chunks)]
  /\ Goto(p, "batch")
  /\ UNCHANGED <<sqlite, lancedb, job, seen, holder, tx, ids, batch>>

\* Mutant: the loop embeds the first batch again and again.
TakeFirstBatch(p) ==
  /\ At(p, "batch")
  /\ pend[p] # {}
  /\ batch' = [batch EXCEPT ![p] = {CHOOSE x \in pend[p] : TRUE}]
  /\ Goto(p, "upsert")
  /\ UNCHANGED <<sqlite, lancedb, job, seen, holder, tx, ids, pend>>

\* The next batch is sent to the embedder; an error reply is Abort.
TakeBatch(p) ==
  /\ At(p, "batch")
  /\ \E b \in SUBSET pend[p] :
       /\ b # {}
       /\ Cardinality(b) = BatchSize \/ (b = pend[p] /\ Cardinality(b) < BatchSize)
       /\ batch' = [batch EXCEPT ![p] = b]
       /\ pend'  = [pend EXCEPT ![p] = @ \ b]
  /\ Goto(p, "upsert")
  /\ UNCHANGED <<sqlite, lancedb, job, seen, holder, tx, ids>>

\* The part of a batch that got a vector: zip stops at the shorter list.
Answered(b) == IF ShortReplies THEN SUBSET b ELSE {b}

RowOf(x, m) == [id |-> x.id, content |-> x.content, model |-> m]

\* get_or_create_table: the first upsert creates an empty table.
OpenTable(p) ==
  /\ At(p, "upsert")
  /\ table' = IF table = None THEN DimOf[job[p].model] ELSE table
  /\ Goto(p, "add")
  /\ UNCHANGED <<sqlite, store, locals>>

\* VectorStore::upsert appends; nothing replaces a row that is there.  Without a
\* vector it returns before it opens the table.
Upsert(p) ==
  /\ \E got \in Answered(batch[p]) :
       /\ IF got = {} THEN At(p, "upsert") ELSE At(p, "add") /\ table = DimOf[job[p].model]
       /\ store' = store \cup {RowOf(x, job[p].model) : x \in got}
  /\ Goto(p, "mark")
  /\ UNCHANGED <<sqlite, table, locals>>

\* The table refuses rows of another dimension, or another run has dropped it since
\* it was opened: the run returns the error.
UpsertRejected(p) ==
  /\ At(p, "add")
  /\ table # DimOf[job[p].model]
  /\ Forget(p)
  /\ Goto(p, "idle")
  /\ UNCHANGED <<sqlite, lancedb, holder, tx>>

\* UPDATE chunks SET vector_id = id WHERE id = ?, one statement per chunk; it
\* touches whatever row has that id now, or none.
MarkOne(p) ==
  /\ At(p, "mark")
  /\ Unlocked
  /\ \E x \in batch[p] :
       /\ chunks' = IF x.id \in Live(chunks)
                    THEN [chunks EXCEPT ![x.id].marked = TRUE]
                    ELSE chunks
       /\ batch' = [batch EXCEPT ![p] = @ \ {x}]
       /\ Goto(p, IF batch[p] = {x} THEN "batch" ELSE "mark")
  /\ UNCHANGED <<files, pin, lancedb, job, seen, holder, tx, ids, pend>>

\* Mutant: the loop ends after one batch.
FinishEarly(p) ==
  /\ At(p, "batch")
  /\ Forget(p)
  /\ Goto(p, "done")
  /\ UNCHANGED <<sqlite, lancedb, holder, tx>>

Finish(p) ==
  /\ At(p, "batch")
  /\ pend[p] = {}
  /\ Forget(p)
  /\ Goto(p, "done")
  /\ UNCHANGED <<sqlite, lancedb, holder, tx>>

-----------------------------------------------------------------------------
\* The process dies, or a call returns an error: an open transaction is rolled
\* back, everything already written stays.
Abort(p) ==
  /\ pc[p] \in AbortAt
  /\ tx' = IF InTx(p) THEN NoTx ELSE tx
  /\ Forget(p)
  /\ Goto(p, "idle")
  /\ UNCHANGED <<sqlite, lancedb, holder>>

IndexProject(p) ==
  \/ BeginTx(p)
  \/ \E f \in Files, t \in Texts : RewriteFile(p, f, t)
  \/ \E f \in Files : RemoveFile(p, f)
  \/ Commit(p)
  \/ CommitNothing(p)

PinModel(p) ==
  \/ CheckPin(p)
  \/ SetIfAbsent(p)
  \/ Unmark(p)
  \/ SetModel(p)
  \/ SetDim(p)
  \/ Clear(p)

EmbedPending(p) ==
  \/ SnapshotIds(p)
  \/ DeleteOrphans(p)
  \/ SnapshotPending(p)
  \/ TakeBatch(p)
  \/ OpenTable(p)
  \/ Upsert(p)
  \/ UpsertRejected(p)
  \/ MarkOne(p)
  \/ Finish(p)

Step(p) == IndexProject(p) \/ PinModel(p) \/ EmbedPending(p)

Next == \E p \in Indexers : Start(p) \/ Step(p) \/ Abort(p)

Spec     == Init /\ [][Next]_vars
FairSpec == Spec /\ \A p \in Indexers : WF_vars(Step(p))

-----------------------------------------------------------------------------
(* What must hold.                                                         *)

TypeOK ==
  /\ files \in [Files -> Texts \cup {NoText}]
  /\ chunks \in [ChunkIds -> Chunk]
  /\ pin \in [model : Models \cup {None}, dim : Nat \cup {None}]
  /\ table \in Nat \cup {None}
  /\ store \subseteq Row
  /\ pc \in [Indexers -> Points \cup {"idle", "done"}]
  /\ job \in [Indexers -> Job \cup {NoJob}]
  /\ \A p \in Indexers : ~Idle(p) => job[p] \in Job
  /\ seen \in [Indexers -> [Files -> Texts \cup {NoText}]]
  /\ holder \in [Indexers -> [Files -> Files \cup {None}]]
  /\ tx \in [files : [Files -> Texts \cup {NoText}],
             chunks : [ChunkIds -> Chunk], written : SUBSET Files]
  /\ ids \in [Indexers -> SUBSET ChunkIds]
  /\ pend \in [Indexers -> SUBSET Pending]
  /\ batch \in [Indexers -> SUBSET Pending]

HasVector(i, m) == [id |-> i, content |-> chunks[i].content, model |-> m] \in store

\* A chunk that SQLite says is embedded has a vector of its own content: no
\* crash, retry, rewrite, prune or rebuild leaves a chunk that is neither
\* searchable nor due for embedding.
MarkedHasVector ==
  \A i \in ChunkIds : chunks[i].marked => \E m \in Models : HasVector(i, m)

\* While the pin is complete, every chunk that counts as embedded has a vector
\* of the pinned model, so that a query embedded with that model finds it.
PinHonest ==
  PinComplete =>
    \A i \in ChunkIds : chunks[i].marked => HasVector(i, pin.model)

\* From the prune to the end of the run no vector refers to a chunk id that
\* SQLite does not know.
NoOrphanAfterPrune ==
  \A p \in Indexers :
    pc[p] \in {"pending", "batch", "upsert", "add", "mark"} =>
      \A r \in store : r.id \in Live(chunks)

\* A run that gets through its embedding loop has left no chunk unembedded.
DoneMeansEmbedded ==
  \A p \in Indexers :
    At(p, "done") =>
      \A i \in Live(chunks) : chunks[i].marked

\* Indexing is incremental: a chunk whose file is not rewritten keeps its mark
\* and its id, unless the run rebuilds everything.
Incremental ==
  [][\A i \in Live(chunks) :
       chunks'[i] # chunks[i] =>
         \/ files'[chunks[i].file] # files[chunks[i].file]
         \/ chunks'[i] = [chunks[i] EXCEPT !.marked = TRUE]
         \/ \E p \in Indexers : At(p, "unmark") /\ job[p].full]_chunks

\* Every run ends, with success or with an error.
EveryRunEnds == \A p \in Indexers : ~Idle(p) ~> Idle(p)

\* After a run that embedded everything, no vector row holds a text that its
\* chunk does not hold: the embeddings of replaced chunks are gone.
NoStaleVector ==
  \A p \in Indexers :
    At(p, "done") =>
      \A r \in store : chunks[r.id].content = r.content
=============================================================================
