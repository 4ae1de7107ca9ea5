-------------------------- MODULE VectorSyncProofs --------------------------
(***************************************************************************)
(* Theorems about VectorSync.  Type correctness holds for any number of    *)
(* concurrent runs.  The safety theorems are about runs that do not        *)
(* overlap (Serial) and an embedder that answers with one vector per text  *)
(* (Incremental holds with any embedder); a run may die at any point,      *)
(* whatever AbortAt allows.  That runs get on holds of any number of them. *)
(***************************************************************************)
EXTENDS VectorSync, DataLemmas, TLAPS

Serial == \A p, q \in Indexers : p = q

-----------------------------------------------------------------------------
(* Type correctness.                                                       *)

LEMMA NoChunkType == NoChunk \in Chunk
BY DEF NoChunk, Chunk, Slot

\* Clearing a mark, or setting the mark of a row in use, yields a row.
LEMMA MarkType ==
  ASSUME NEW c \in Chunk
  PROVE  /\ [c EXCEPT !.marked = FALSE] \in Chunk
         /\ c.file # None => [c EXCEPT !.marked = TRUE] \in Chunk
<1>1. c \in Slot
  BY DEF Chunk
<1>3. (c.file = None) <=> (c.content = None)
  BY DEF Chunk
<1>2. ASSUME NEW m \in BOOLEAN, m => c.file # None
      PROVE  [c EXCEPT !.marked = m] \in Chunk
  <2> DEFINE d == [c EXCEPT !.marked = m]
  <2>1. d \in Slot /\ d.file = c.file /\ d.content = c.content
    BY <1>1 DEF Slot
  <2>2. d.marked = m
    BY <1>1 DEF Slot
  <2> HIDE DEF d
  <2>3. d \in Chunk
    BY <1>1, <1>2, <1>3, <2>1, <2>2 DEF Chunk
  <2> QED
    BY <2>3 DEF d
<1> QED
  BY <1>2

LEMMA WithoutType ==
  ASSUME NEW rows \in [ChunkIds -> Chunk], NEW f
  PROVE  Without(rows, f) \in [ChunkIds -> Chunk]
BY NoChunkType DEF Without

\* Rewriting a file yields well-formed rows when the new rowids fit the bound.
LEMMA ReplacedType ==
  ASSUME NEW rows \in [ChunkIds -> Chunk], NEW f \in Files, NEW t \in Texts,
         Fits(rows, f, t)
  PROVE  Replaced(rows, f, t) \in [ChunkIds -> Chunk]
<1> DEFINE kept == Without(rows, f)
           base == NextRowid(kept)
<1>1. base \in ChunkIds
  BY DEF Fits
<1>2. kept \in [ChunkIds -> Chunk]
  BY WithoutType
<1>3. t \in Seq(Contents)
  BY SyncConstants
<1>4. ASSUME NEW i \in ChunkIds, i \in base .. base + Len(t) - 1
      PROVE  t[i - base + 1] \in Contents
  <2>1. base \in Int /\ i \in Int /\ Len(t) \in Nat
    BY <1>1, <1>3, SyncConstants DEF ChunkIds
  <2>2. i - base + 1 \in 1 .. Len(t)
    BY <1>4, <2>1
  <2> QED
    BY <1>3, <2>2
<1>5. ASSUME NEW i \in ChunkIds, i \in base .. base + Len(t) - 1
      PROVE  [file |-> f, content |-> t[i - base + 1], marked |-> FALSE] \in Chunk
  BY <1>4, <1>5, SyncConstants DEF Chunk, Slot
<1> HIDE DEF kept, base
<1>6. [i \in ChunkIds |->
         IF i \in base .. base + Len(t) - 1
         THEN [file |-> f, content |-> t[i - base + 1], marked |-> FALSE]
         ELSE kept[i]] \in [ChunkIds -> Chunk]
  BY <1>2, <1>5
<1> QED
  BY <1>6 DEF Replaced, kept, base

LEMMA UnmarkedType ==
  ASSUME NEW rows \in [ChunkIds -> Chunk]
  PROVE  Unmarked(rows) \subseteq Pending
BY DEF Unmarked, Pending, Live, Chunk, Slot

LEMMA NoTxType ==
  NoTx \in [files : [Files -> Texts \cup {NoText}],
            chunks : [ChunkIds -> Chunk], written : SUBSET Files]
BY NoChunkType DEF NoTx

LEMMA ForgetType ==
  ASSUME TypeOK, NEW p \in Indexers, Forget(p)
  PROVE  /\ job' \in [Indexers -> Job \cup {NoJob}]
         /\ \A q \in Indexers : q # p => job'[q] = job[q]
         /\ seen' \in [Indexers -> [Files -> Texts \cup {NoText}]]
         /\ ids' \in [Indexers -> SUBSET ChunkIds]
         /\ pend' \in [Indexers -> SUBSET Pending]
         /\ batch' \in [Indexers -> SUBSET Pending]
BY DEF TypeOK, Forget

\* What the pin check decides is a Boolean, and the run goes where it says.
LEMMA CheckPinFull ==
  ASSUME NEW p \in Indexers, CheckPin(p)
  PROVE  \E full \in BOOLEAN :
           /\ job' = [job EXCEPT ![p].full = full]
           /\ \/ full /\ pc' = [pc EXCEPT ![p] = "unmark"]
              \/ ~full /\ pc' = [pc EXCEPT ![p] = "ifabsent"]
              \/ ~full /\ pc' = [pc EXCEPT ![p] = "ids"] /\ job[p].kind # "cli"
           /\ job[p].kind = "cli" /\ ~full => ~PinMismatch(job[p].model)
<1> DEFINE cli  == job[p].kind = "cli"
           full == job[p].full \/ (cli /\ PinMismatch(job[p].model))
<1>1. full \in BOOLEAN /\ cli \in BOOLEAN
  OBVIOUS
<1>2. /\ job' = [job EXCEPT ![p].full = full]
      /\ pc' = [pc EXCEPT ![p] =
                  IF full THEN "unmark" ELSE IF cli THEN "ifabsent" ELSE "ids"]
  BY DEF CheckPin, Goto
<1>3. cli /\ ~full => ~PinMismatch(job[p].model)
  OBVIOUS
<1>4. cli <=> job[p].kind = "cli"
  OBVIOUS
<1> HIDE DEF full, cli
<1> QED
  BY <1>1, <1>2, <1>3, <1>4

LEMMA TypeInit == Init => TypeOK
BY SyncConstants, NoChunkType, NoTxType DEF Init, TypeOK, Idle

LEMMA TypeStep == TypeOK /\ [Next]_vars => TypeOK'
<1> SUFFICES ASSUME TypeOK, [Next]_vars PROVE TypeOK'
  OBVIOUS
<1> USE SyncConstants DEF At, Goto, Points
<1>1. ASSUME NEW p \in Indexers, Start(p) PROVE TypeOK'
  <2>1. job' \in [Indexers -> Job \cup {NoJob}] /\ job'[p] \in Job
        /\ \A q \in Indexers \ {p} : job'[q] = job[q]
    BY <1>1 DEF Start, TypeOK, Job
  <2> QED
    BY <1>1, <2>1 DEF Start, TypeOK, sqlite, lancedb, Idle
<1>2. ASSUME NEW p \in Indexers, BeginTx(p) PROVE TypeOK'
  BY <1>2 DEF BeginTx, TypeOK, sqlite, lancedb, Idle
<1>3. ASSUME NEW p \in Indexers, NEW f \in Files, NEW t \in Texts,
             RewriteFile(p, f, t)
      PROVE  TypeOK'
  <2>1. tx.chunks \in [ChunkIds -> Chunk]
    BY DEF TypeOK
  <2>2. Replaced(tx.chunks, f, t) \in [ChunkIds -> Chunk]
    BY <1>3, <2>1, ReplacedType DEF RewriteFile
  <2>3. tx' \in [files : [Files -> Texts \cup {NoText}],
                 chunks : [ChunkIds -> Chunk], written : SUBSET Files]
    BY <1>3, <2>2 DEF RewriteFile, TypeOK
  <2> QED
    BY <1>3, <2>3 DEF RewriteFile, TypeOK, sqlite, lancedb, Idle
<1>4. ASSUME NEW p \in Indexers, NEW f \in Files, RemoveFile(p, f) PROVE TypeOK'
  <2>1. Without(tx.chunks, holder[p][f]) \in [ChunkIds -> Chunk]
    BY WithoutType DEF TypeOK
  <2>2. tx' \in [files : [Files -> Texts \cup {NoText}],
                 chunks : [ChunkIds -> Chunk], written : SUBSET Files]
    BY <1>4, <2>1 DEF RemoveFile, TypeOK
  <2> QED
    BY <1>4, <2>2 DEF RemoveFile, TypeOK, sqlite, lancedb, Idle, InTx
<1>5. ASSUME NEW p \in Indexers, Commit(p) PROVE TypeOK'
  <2>1. /\ files' \in [Files -> Texts \cup {NoText}]
        /\ chunks' \in [ChunkIds -> Chunk]
        /\ pin' = pin /\ table' = table /\ store' = store
        /\ holder' \in [Indexers -> [Files -> Files \cup {None}]]
    BY <1>5 DEF Commit, HoldersAfter, TypeOK, lancedb
  <2>2. tx' \in [files : [Files -> Texts \cup {NoText}],
                 chunks : [ChunkIds -> Chunk], written : SUBSET Files]
    BY <1>5, NoTxType DEF Commit
  <2>3. CASE job[p].noEmbed
    <3>1. Forget(p) /\ pc' = [pc EXCEPT ![p] = "idle"]
      BY <1>5, <2>3 DEF Commit, EndIndexing
    <3> QED
      BY <2>1, <2>2, <3>1, ForgetType DEF TypeOK, Idle
  <2>4. CASE ~job[p].noEmbed
    <3>1. /\ seen' = [seen EXCEPT ![p] = [f \in Files |-> NoText]]
          /\ pc' = [pc EXCEPT ![p] = "pin"]
          /\ UNCHANGED <<job, ids, pend, batch>>
          /\ job[p] \in Job
      BY <1>5, <2>4 DEF Commit, EndIndexing, InTx, TypeOK, Idle
    <3> QED
      BY <2>1, <2>2, <3>1 DEF TypeOK, Idle
  <2> QED
    BY <2>3, <2>4
<1>6. ASSUME NEW p \in Indexers, CheckPin(p) PROVE TypeOK'
  <2>1. job[p] \in Job
    BY <1>6 DEF CheckPin, TypeOK, Idle
  <2>a. PICK full \in BOOLEAN : job' = [job EXCEPT ![p].full = full]
    BY <1>6, CheckPinFull
  <2>2. job'[p] \in Job /\ job' \in [Indexers -> Job \cup {NoJob}]
        /\ \A q \in Indexers \ {p} : job'[q] = job[q]
    <3>1. [job[p] EXCEPT !.full = full] \in Job
      BY <2>1 DEF Job
    <3>2. job \in [Indexers -> Job \cup {NoJob}]
      BY DEF TypeOK
    <3>3. job' \in [Indexers -> Job \cup {NoJob}]
          /\ job'[p] = [job[p] EXCEPT !.full = full]
      BY <2>a, <3>1, <3>2
    <3> QED
      BY <2>a, <3>1, <3>2, <3>3
  <2>3. /\ pc' \in [Indexers -> Points \cup {"idle", "done"}]
        /\ \A q \in Indexers \ {p} : pc'[q] = pc[q]
    BY <1>6, CheckPinFull DEF TypeOK, CheckPin
  <2>5. \A q \in Indexers : ~Idle(q)' => job'[q] \in Job
    BY <2>2, <2>3 DEF TypeOK, Idle
  <2>4. UNCHANGED <<files, chunks, pin, table, store, seen, holder, tx, ids, pend, batch>>
    BY <1>6 DEF CheckPin, sqlite, lancedb
  <2> QED
    BY <2>2, <2>3, <2>4, <2>5 DEF TypeOK
<1>7. ASSUME NEW p \in Indexers, SetIfAbsent(p) PROVE TypeOK'
  BY <1>7 DEF SetIfAbsent, TypeOK, sqlite, lancedb, locals, Idle
<1>8. ASSUME NEW p \in Indexers, Unmark(p) PROVE TypeOK'
  <2>1. chunks' \in [ChunkIds -> Chunk]
    BY <1>8, MarkType DEF Unmark, TypeOK
  <2> QED
    BY <1>8, <2>1 DEF Unmark, TypeOK, lancedb, locals, Idle
<1>9. ASSUME NEW p \in Indexers, SetModel(p) PROVE TypeOK'
  <2>1. job[p].model \in Models
    BY <1>9 DEF SetModel, TypeOK, Idle, Job
  <2>2. pin' \in [model : Models \cup {None}, dim : Nat \cup {None}]
    BY <1>9, <2>1 DEF SetModel, TypeOK
  <2> QED
    BY <1>9, <2>2 DEF SetModel, TypeOK, lancedb, locals, Idle
<1>10. ASSUME NEW p \in Indexers, SetDim(p) PROVE TypeOK'
  <2>1. DimOf[job[p].model] \in Nat
    BY <1>10 DEF SetDim, TypeOK, Idle, Job
  <2> QED
    BY <1>10, <2>1 DEF SetDim, TypeOK, lancedb, locals, Idle
<1>11. ASSUME NEW p \in Indexers, Clear(p) PROVE TypeOK'
  BY <1>11 DEF Clear, TypeOK, sqlite, locals, Idle
<1>12. ASSUME NEW p \in Indexers, SnapshotIds(p) PROVE TypeOK'
  BY <1>12 DEF SnapshotIds, TypeOK, sqlite, lancedb, Idle, Live
<1>13. ASSUME NEW p \in Indexers, DeleteOrphans(p) PROVE TypeOK'
  BY <1>13 DEF DeleteOrphans, TypeOK, sqlite, Idle
<1>14. ASSUME NEW p \in Indexers, SnapshotPending(p) PROVE TypeOK'
  BY <1>14, UnmarkedType DEF SnapshotPending, TypeOK, sqlite, lancedb, Idle
<1>15. ASSUME NEW p \in Indexers, TakeBatch(p) PROVE TypeOK'
  BY <1>15 DEF TakeBatch, TypeOK, sqlite, lancedb, Idle
<1>16. ASSUME NEW p \in Indexers, OpenTable(p) PROVE TypeOK'
  <2>1. DimOf[job[p].model] \in Nat
    BY <1>16 DEF OpenTable, TypeOK, Idle, Job
  <2> QED
    BY <1>16, <2>1 DEF OpenTable, TypeOK, sqlite, locals, Idle
<1>17. ASSUME NEW p \in Indexers, Upsert(p) PROVE TypeOK'
  <2>1. PICK got \in Answered(batch[p]) :
          store' = store \cup {RowOf(x, job[p].model) : x \in got}
    BY <1>17 DEF Upsert
  <2>2. got \subseteq Pending
    BY <2>1 DEF Answered, TypeOK
  <2>4. job[p].model \in Models
    BY <1>17 DEF TypeOK, Upsert, Idle, Job
  <2>3. store' \subseteq Row
    BY <2>1, <2>2, <2>4 DEF TypeOK, Row, RowOf, Pending
  <2> QED
    BY <1>17, <2>3 DEF Upsert, TypeOK, sqlite, locals, Idle
<1>18. ASSUME NEW p \in Indexers, UpsertRejected(p) PROVE TypeOK'
  BY <1>18, ForgetType DEF UpsertRejected, TypeOK, sqlite, lancedb, Idle
<1>19. ASSUME NEW p \in Indexers, MarkOne(p) PROVE TypeOK'
  <2>1. chunks' \in [ChunkIds -> Chunk]
    <3>1. PICK x \in batch[p] :
            chunks' = IF x.id \in Live(chunks)
                      THEN [chunks EXCEPT ![x.id].marked = TRUE]
                      ELSE chunks
      BY <1>19 DEF MarkOne
    <3>2. CASE x.id \in Live(chunks)
      <4>1. x.id \in ChunkIds /\ chunks[x.id] \in Chunk /\ chunks[x.id].file # None
        BY <3>2 DEF TypeOK, Live
      <4>2. [chunks[x.id] EXCEPT !.marked = TRUE] \in Chunk
        BY <4>1, MarkType
      <4> QED
        BY <3>1, <3>2, <4>1, <4>2 DEF TypeOK
    <3> QED
      BY <3>1, <3>2 DEF TypeOK
  <2>2. batch' \in [Indexers -> SUBSET Pending]
    BY <1>19 DEF MarkOne, TypeOK
  <2> QED
    BY <1>19, <2>1, <2>2 DEF MarkOne, TypeOK, lancedb, Idle
<1>20. ASSUME NEW p \in Indexers, Finish(p) PROVE TypeOK'
  BY <1>20, ForgetType DEF Finish, TypeOK, sqlite, lancedb, Idle
<1>21. ASSUME NEW p \in Indexers, Abort(p) PROVE TypeOK'
  BY <1>21, ForgetType, NoTxType DEF Abort, TypeOK, sqlite, lancedb, Idle
<1>23. ASSUME NEW p \in Indexers, CommitNothing(p) PROVE TypeOK'
  <2>1. CASE job[p].noEmbed
    <3>1. Forget(p) /\ pc' = [pc EXCEPT ![p] = "idle"]
      BY <1>23, <2>1 DEF CommitNothing, EndIndexing
    <3> QED
      BY <1>23, <3>1, ForgetType DEF CommitNothing, TypeOK, sqlite, lancedb, Idle
  <2>2. CASE ~job[p].noEmbed
    <3>1. /\ seen' = [seen EXCEPT ![p] = [f \in Files |-> NoText]]
          /\ pc' = [pc EXCEPT ![p] = "pin"]
          /\ UNCHANGED <<job, ids, pend, batch>>
          /\ job[p] \in Job
      BY <1>23, <2>2 DEF CommitNothing, EndIndexing, TypeOK, Idle
    <3> QED
      BY <1>23, <3>1 DEF CommitNothing, TypeOK, sqlite, lancedb, Idle
  <2> QED
    BY <2>1, <2>2
<1>22. CASE UNCHANGED vars
  BY <1>22 DEF TypeOK, vars, sqlite, lancedb, locals, Idle
<1> QED
  BY <1>1, <1>2, <1>3, <1>4, <1>5, <1>6, <1>7, <1>8, <1>9, <1>10, <1>11,
     <1>12, <1>13, <1>14, <1>15, <1>16, <1>17, <1>18, <1>19, <1>20, <1>21,
     <1>22, <1>23
  DEF Next, Step, IndexProject, PinModel, EmbedPending

\* However many runs interleave and wherever they die, every table, snapshot
\* and program point keeps its type.
THEOREM TypeCorrect == Spec => []TypeOK
BY TypeInit, TypeStep, PTL DEF Spec

-----------------------------------------------------------------------------
(* The inductive invariant of runs that do not overlap.                    *)

Embedding(p) == pc[p] \in {"batch", "upsert", "add", "mark"}
Todo(p)      == pend[p] \cup batch[p]

\* A marked row of the open transaction is a row that is already committed.
TxKeepsMarked(p) ==
  InTx(p) => \A i \in ChunkIds :
               tx.chunks[i].marked => tx.chunks[i] = chunks[i]

\* While a rebuild replaces the pin and drops the table, nothing is marked.
RebuildUnmarked(p) ==
  /\ pc[p] \in {"unmark", "clear"} => job[p].full
  /\ pc[p] = "ifabsent" => ~job[p].full
  /\ job[p].full /\ pc[p] \in {"setmodel", "setdim", "clear"} =>
       \A i \in ChunkIds : ~chunks[i].marked

\* The snapshots of the ids and of the pending chunks are still accurate.
SnapshotsFresh(p) ==
  /\ At(p, "prune") => ids[p] = Live(chunks)
  /\ Embedding(p) => \A x \in Todo(p) : /\ x.id \in Live(chunks)
                                        /\ chunks[x.id].content = x.content

\* No unmarked chunk is forgotten by the loop.
TodoCovers(p) ==
  /\ Embedding(p) =>
       \A i \in Live(chunks) : chunks[i].marked \/ \E x \in Todo(p) : x.id = i
  /\ At(p, "done") => \A i \in Live(chunks) : chunks[i].marked

\* Chunks are marked after their vectors are written.
BatchWritten(p) ==
  /\ pc[p] \notin {"upsert", "add", "mark"} => batch[p] = {}
  /\ At(p, "mark") => \A x \in batch[p] : RowOf(x, job[p].model) \in store

NoOrphan(p) ==
  pc[p] \in {"pending", "batch", "upsert", "add", "mark"} =>
    \A r \in store : r.id \in Live(chunks)

RunInv(p) ==
  /\ TxKeepsMarked(p)
  /\ RebuildUnmarked(p)
  /\ SnapshotsFresh(p)
  /\ TodoCovers(p)
  /\ BatchWritten(p)
  /\ NoOrphan(p)

SerialInv == MarkedHasVector /\ \A p \in Indexers : RunInv(p)

\* Rewriting a file leaves only rows that were there, or that carry no mark.
LEMMA ReplacedMarks ==
  ASSUME NEW rows \in [ChunkIds -> Chunk], NEW f, NEW t, NEW i \in ChunkIds,
         Replaced(rows, f, t)[i].marked
  PROVE  Replaced(rows, f, t)[i] = rows[i]
<1> DEFINE kept == Without(rows, f)
           base == NextRowid(kept)
           fresh(j) == [file |-> f, content |-> t[j - base + 1], marked |-> FALSE]
<1>1. Replaced(rows, f, t)[i] = IF i \in base .. base + Len(t) - 1 THEN fresh(i) ELSE kept[i]
  BY DEF Replaced
<1>2. ~fresh(i).marked
  OBVIOUS
<1> HIDE DEF kept, base, fresh
<1>3. Replaced(rows, f, t)[i] = kept[i] /\ kept[i].marked
  BY <1>1, <1>2
<1>4. kept[i] = IF rows[i].file = f THEN NoChunk ELSE rows[i]
  BY DEF kept, Without
<1> QED
  BY <1>3, <1>4 DEF NoChunk

LEMMA WithoutMarks ==
  ASSUME NEW rows \in [ChunkIds -> Chunk], NEW f, NEW i \in ChunkIds,
         Without(rows, f)[i].marked
  PROVE  Without(rows, f)[i] = rows[i]
BY DEF Without, NoChunk

\* A marked slot holds a chunk.
LEMMA MarkedIsLive ==
  ASSUME TypeOK, NEW i \in ChunkIds, chunks[i].marked
  PROVE  i \in Live(chunks)
BY DEF TypeOK, Chunk, Live

LEMMA SerialInit == Init => SerialInv
BY DEF Init, SerialInv, RunInv, MarkedHasVector, TxKeepsMarked, RebuildUnmarked,
       SnapshotsFresh, TodoCovers, BatchWritten, NoOrphan, Embedding, InTx, At,
       NoChunk, NoTx

LEMMA SerialStep ==
  ASSUME Serial, ~ShortReplies
  PROVE  TypeOK /\ SerialInv /\ [Next]_vars => SerialInv'
<1> SUFFICES ASSUME TypeOK, SerialInv, [Next]_vars PROVE SerialInv'
  OBVIOUS
<1> USE SyncConstants DEF At, Goto, InTx, Embedding, Todo
<1>a. ASSUME NEW p \in Indexers, RunInv(p)', MarkedHasVector' PROVE SerialInv'
  BY <1>a, Serial DEF SerialInv, Serial
<1>b. ASSUME NEW p \in Indexers PROVE RunInv(p)
  BY <1>b DEF SerialInv
<1>c. ASSUME chunks' = chunks, store' = store PROVE MarkedHasVector'
  BY <1>c DEF SerialInv, MarkedHasVector, HasVector
<1>1. ASSUME NEW p \in Indexers, Start(p) PROVE SerialInv'
  <2>1. chunks' = chunks /\ store' = store /\ batch' = batch /\ pc'[p] = "load"
    BY <1>1 DEF Start, TypeOK, sqlite, lancedb
  <2>2. batch[p] = {}
    BY <1>1, <1>b DEF Start, Idle, RunInv, BatchWritten
  <2>3. RunInv(p)'
    BY <2>1, <2>2 DEF RunInv, TxKeepsMarked, RebuildUnmarked, SnapshotsFresh,
                      TodoCovers, BatchWritten, NoOrphan
  <2> QED
    BY <2>1, <2>3, <1>a, <1>c
<1>2. ASSUME NEW p \in Indexers, BeginTx(p) PROVE SerialInv'
  <2>1. /\ chunks' = chunks /\ store' = store /\ batch' = batch
        /\ pc[p] = "load" /\ pc'[p] = "write" /\ tx'.chunks = chunks
    BY <1>2 DEF BeginTx, TypeOK, sqlite, lancedb
  <2>2. RunInv(p)'
    BY <2>1, <1>b DEF RunInv, TxKeepsMarked, RebuildUnmarked, SnapshotsFresh,
                      TodoCovers, BatchWritten, NoOrphan
  <2> QED
    BY <2>1, <2>2, <1>a, <1>c
<1>3. ASSUME NEW p \in Indexers, NEW f \in Files, NEW t \in Texts,
             RewriteFile(p, f, t)
      PROVE  SerialInv'
  <2>1. /\ chunks' = chunks /\ store' = store /\ batch' = batch /\ pc' = pc
        /\ pc[p] = "write" /\ tx'.chunks = Replaced(tx.chunks, f, t)
    BY <1>3 DEF RewriteFile, TypeOK, sqlite, lancedb
  <2>2. tx.chunks \in [ChunkIds -> Chunk]
    BY DEF TypeOK
  <2>3. ASSUME NEW i \in ChunkIds, tx'.chunks[i].marked
        PROVE  tx'.chunks[i] = chunks[i]
    <3>1. tx'.chunks[i] = tx.chunks[i]
      BY <2>1, <2>2, <2>3, ReplacedMarks
    <3> QED
      BY <3>1, <2>1, <2>3, <1>b DEF RunInv, TxKeepsMarked
  <2>4. RunInv(p)'
    BY <2>1, <2>3, <1>b DEF RunInv, TxKeepsMarked, RebuildUnmarked,
                            SnapshotsFresh, TodoCovers, BatchWritten, NoOrphan
  <2> QED
    BY <2>1, <2>4, <1>a, <1>c
<1>4. ASSUME NEW p \in Indexers, NEW f \in Files, RemoveFile(p, f) PROVE SerialInv'
  <2>1. /\ chunks' = chunks /\ store' = store /\ batch' = batch
        /\ InTx(p) /\ pc'[p] = "remove" /\ tx'.chunks = Without(tx.chunks, holder[p][f])
    BY <1>4 DEF RemoveFile, TypeOK, sqlite, lancedb
  <2>2. tx.chunks \in [ChunkIds -> Chunk]
    BY DEF TypeOK
  <2>3. ASSUME NEW i \in ChunkIds, tx'.chunks[i].marked
        PROVE  tx'.chunks[i] = chunks[i]
    <3>1. tx'.chunks[i] = tx.chunks[i]
      BY <2>1, <2>2, <2>3, WithoutMarks
    <3> QED
      BY <3>1, <2>1, <2>3, <1>b DEF RunInv, TxKeepsMarked
  <2>4. RunInv(p)'
    BY <2>1, <2>3, <1>b DEF RunInv, TxKeepsMarked, RebuildUnmarked,
                            SnapshotsFresh, TodoCovers, BatchWritten, NoOrphan
  <2> QED
    BY <2>1, <2>4, <1>a, <1>c
<1>5. ASSUME NEW p \in Indexers, Commit(p) PROVE SerialInv'
  <2>1. /\ chunks' = tx.chunks /\ store' = store /\ InTx(p)
        /\ pc'[p] \in {"idle", "pin"}
    BY <1>5 DEF Commit, EndIndexing, TypeOK, lancedb
  <2>2. batch'[p] = {}
    BY <1>5, <1>b DEF Commit, EndIndexing, Forget, TypeOK, RunInv, BatchWritten
  <2>3. MarkedHasVector'
    BY <2>1, <1>b DEF SerialInv, MarkedHasVector, HasVector, RunInv, TxKeepsMarked
  <2>4. RunInv(p)'
    BY <2>1, <2>2 DEF RunInv, TxKeepsMarked, RebuildUnmarked, SnapshotsFresh,
                      TodoCovers, BatchWritten, NoOrphan
  <2> QED
    BY <2>3, <2>4, <1>a
<1>6. ASSUME NEW p \in Indexers, CheckPin(p) PROVE SerialInv'
  <2>a. PICK full \in BOOLEAN :
          /\ job' = [job EXCEPT ![p].full = full]
          /\ \/ full /\ pc' = [pc EXCEPT ![p] = "unmark"]
             \/ ~full /\ pc' = [pc EXCEPT ![p] = "ifabsent"]
             \/ ~full /\ pc' = [pc EXCEPT ![p] = "ids"]
    BY <1>6, CheckPinFull
  <2>b. job[p] \in Job
    BY <1>6 DEF CheckPin, TypeOK, Idle
  <2>c. job'[p].full = full
    BY <2>a, <2>b DEF TypeOK, Job
  <2>1. /\ chunks' = chunks /\ store' = store /\ batch' = batch
        /\ pc[p] = "pin" /\ pc'[p] \in {"unmark", "ifabsent", "ids"}
        /\ pc'[p] = "unmark" => job'[p].full
        /\ pc'[p] = "ifabsent" => ~job'[p].full
    BY <1>6, <2>a, <2>c DEF CheckPin, TypeOK, sqlite, lancedb
  <2>2. RunInv(p)'
    BY <2>1, <1>b DEF RunInv, TxKeepsMarked, RebuildUnmarked,
                      SnapshotsFresh, TodoCovers, BatchWritten, NoOrphan
  <2> QED
    BY <2>1, <2>2, <1>a, <1>c
<1>7. ASSUME NEW p \in Indexers, SetIfAbsent(p) PROVE SerialInv'
  <2>1. /\ chunks' = chunks /\ store' = store /\ batch' = batch
        /\ job' = job /\ pc[p] = "ifabsent" /\ pc'[p] \in {"setmodel", "ids"}
        /\ ~job[p].full
    BY <1>7, <1>b DEF SetIfAbsent, TypeOK, sqlite, lancedb, locals, RunInv,
                      RebuildUnmarked
  <2>2. RunInv(p)'
    BY <2>1, <1>b DEF RunInv, TxKeepsMarked, RebuildUnmarked,
                      SnapshotsFresh, TodoCovers, BatchWritten, NoOrphan
  <2> QED
    BY <2>1, <2>2, <1>a, <1>c
<1>8. ASSUME NEW p \in Indexers, Unmark(p) PROVE SerialInv'
  <2>1. /\ store' = store /\ batch' = batch /\ job' = job /\ job[p].full
        /\ pc[p] = "unmark" /\ pc'[p] \in {"setmodel", "clear"}
    BY <1>8, <1>b DEF Unmark, TypeOK, lancedb, locals, RunInv, RebuildUnmarked
  <2>2. \A i \in ChunkIds : ~chunks'[i].marked
    BY <1>8 DEF Unmark, TypeOK, Chunk, Slot
  <2>3. RunInv(p)'
    BY <2>1, <2>2, <1>b DEF RunInv, TxKeepsMarked, RebuildUnmarked,
                            SnapshotsFresh, TodoCovers, BatchWritten, NoOrphan
  <2> QED
    BY <2>2, <2>3, <1>a DEF MarkedHasVector
<1>9. ASSUME NEW p \in Indexers, SetModel(p) PROVE SerialInv'
  <2>1. /\ chunks' = chunks /\ store' = store /\ batch' = batch
        /\ job' = job /\ pc[p] = "setmodel" /\ pc'[p] = "setdim"
    BY <1>9 DEF SetModel, TypeOK, lancedb, locals
  <2>2. RunInv(p)'
    BY <2>1, <1>b DEF RunInv, TxKeepsMarked, RebuildUnmarked,
                      SnapshotsFresh, TodoCovers, BatchWritten, NoOrphan
  <2> QED
    BY <2>1, <2>2, <1>a, <1>c
<1>10. ASSUME NEW p \in Indexers, SetDim(p) PROVE SerialInv'
  <2>1. /\ chunks' = chunks /\ store' = store /\ batch' = batch
        /\ job' = job /\ pc[p] = "setdim" /\ pc'[p] \in {"clear", "ids"}
        /\ pc'[p] = "clear" => job[p].full
    BY <1>10 DEF SetDim, TypeOK, lancedb, locals
  <2>2. RunInv(p)'
    BY <2>1, <1>b DEF RunInv, TxKeepsMarked, RebuildUnmarked,
                      SnapshotsFresh, TodoCovers, BatchWritten, NoOrphan
  <2> QED
    BY <2>1, <2>2, <1>a, <1>c
<1>11. ASSUME NEW p \in Indexers, Clear(p) PROVE SerialInv'
  <2>1. /\ chunks' = chunks /\ store' = {} /\ batch' = batch /\ job' = job
        /\ pc[p] = "clear" /\ pc'[p] \in {"ids", "setmodel"}
    BY <1>11 DEF Clear, TypeOK, sqlite, locals
  <2>2. \A i \in ChunkIds : ~chunks[i].marked
    BY <2>1, <1>b DEF RunInv, RebuildUnmarked
  <2>3. RunInv(p)'
    BY <2>1, <2>2, <1>b DEF RunInv, TxKeepsMarked, RebuildUnmarked,
                            SnapshotsFresh, TodoCovers, BatchWritten, NoOrphan
  <2> QED
    BY <2>1, <2>2, <2>3, <1>a DEF MarkedHasVector
<1>12. ASSUME NEW p \in Indexers, SnapshotIds(p) PROVE SerialInv'
  <2>1. /\ chunks' = chunks /\ store' = store /\ batch' = batch
        /\ pc[p] = "ids" /\ pc'[p] = "prune" /\ ids'[p] = Live(chunks)
    BY <1>12 DEF SnapshotIds, TypeOK, sqlite, lancedb
  <2>2. RunInv(p)'
    BY <2>1, <1>b DEF RunInv, TxKeepsMarked, RebuildUnmarked,
                      SnapshotsFresh, TodoCovers, BatchWritten, NoOrphan
  <2> QED
    BY <2>1, <2>2, <1>a, <1>c
<1>13. ASSUME NEW p \in Indexers, DeleteOrphans(p) PROVE SerialInv'
  <2>1. /\ chunks' = chunks /\ batch' = batch /\ pc[p] = "prune"
        /\ pc'[p] = "pending" /\ store' = {r \in store : r.id \in ids[p]}
    BY <1>13 DEF DeleteOrphans, TypeOK, sqlite
  <2>2. ids[p] = Live(chunks)
    BY <2>1, <1>b DEF RunInv, SnapshotsFresh
  <2>3. MarkedHasVector'
    <3>1. SUFFICES ASSUME NEW i \in ChunkIds, chunks[i].marked
                   PROVE  \E m \in Models : HasVector(i, m)'
      BY <2>1 DEF MarkedHasVector
    <3>2. PICK m \in Models : HasVector(i, m)
      BY <3>1 DEF SerialInv, MarkedHasVector
    <3>3. i \in Live(chunks)
      BY <3>1, MarkedIsLive
    <3> QED
      BY <2>1, <2>2, <3>2, <3>3 DEF HasVector
  <2>4. RunInv(p)'
    BY <2>1, <2>2, <1>b DEF RunInv, TxKeepsMarked, RebuildUnmarked,
                            SnapshotsFresh, TodoCovers, BatchWritten, NoOrphan
  <2> QED
    BY <2>3, <2>4, <1>a
<1>14. ASSUME NEW p \in Indexers, SnapshotPending(p) PROVE SerialInv'
  <2>1. /\ chunks' = chunks /\ store' = store /\ batch' = batch
        /\ pc[p] = "pending" /\ pc'[p] = "batch" /\ pend'[p] = Unmarked(chunks)
    BY <1>14 DEF SnapshotPending, TypeOK, sqlite, lancedb
  <2>2. batch[p] = {}
    BY <2>1, <1>b DEF RunInv, BatchWritten
  <2>3. \A x \in Unmarked(chunks) : /\ x.id \in Live(chunks)
                                    /\ chunks[x.id].content = x.content
    BY DEF Unmarked
  <2>4. \A i \in Live(chunks) :
          chunks[i].marked \/ \E x \in Unmarked(chunks) : x.id = i
    <3>1. SUFFICES ASSUME NEW i \in Live(chunks), ~chunks[i].marked
                   PROVE  \E x \in Unmarked(chunks) : x.id = i
      OBVIOUS
    <3>2. [id |-> i, content |-> chunks[i].content] \in Unmarked(chunks)
      BY <3>1 DEF Unmarked
    <3> QED
      BY <3>2
  <2>5. RunInv(p)'
    BY <2>1, <2>2, <2>3, <2>4, <1>b
    DEF RunInv, TxKeepsMarked, RebuildUnmarked, SnapshotsFresh, TodoCovers,
        BatchWritten, NoOrphan, Live
  <2> QED
    BY <2>1, <2>5, <1>a, <1>c
<1>15. ASSUME NEW p \in Indexers, TakeBatch(p) PROVE SerialInv'
  <2>1. PICK b \in SUBSET pend[p] : batch'[p] = b /\ pend'[p] = pend[p] \ b
    BY <1>15 DEF TakeBatch, TypeOK
  <2>2. /\ chunks' = chunks /\ store' = store
        /\ pc[p] = "batch" /\ pc'[p] = "upsert"
    BY <1>15 DEF TakeBatch, TypeOK, sqlite, lancedb
  <2>3. batch[p] = {}
    BY <2>2, <1>b DEF RunInv, BatchWritten
  <2>4. Todo(p)' = Todo(p)
    BY <2>1, <2>3
  <2>5. RunInv(p)'
    BY <2>2, <2>4, <1>b
    DEF RunInv, TxKeepsMarked, RebuildUnmarked, SnapshotsFresh, TodoCovers,
        BatchWritten, NoOrphan, Live
  <2> QED
    BY <2>2, <2>5, <1>a, <1>c
<1>16. ASSUME NEW p \in Indexers, OpenTable(p) PROVE SerialInv'
  <2>1. /\ chunks' = chunks /\ store' = store /\ batch' = batch
        /\ job' = job /\ pc[p] = "upsert" /\ pc'[p] = "add" /\ pend' = pend
    BY <1>16 DEF OpenTable, TypeOK, sqlite, locals
  <2>2. RunInv(p)'
    BY <2>1, <1>b DEF RunInv, TxKeepsMarked, RebuildUnmarked,
                      SnapshotsFresh, TodoCovers, BatchWritten, NoOrphan, Live
  <2> QED
    BY <2>1, <2>2, <1>a, <1>c
<1>17. ASSUME NEW p \in Indexers, Upsert(p) PROVE SerialInv'
  <2>1. /\ chunks' = chunks /\ pend' = pend /\ batch' = batch /\ job' = job
        /\ pc[p] \in {"upsert", "add"} /\ pc'[p] = "mark"
        /\ store' = store \cup {RowOf(x, job[p].model) : x \in batch[p]}
    BY <1>17 DEF Upsert, TypeOK, sqlite, locals, Answered
  <2>2. MarkedHasVector'
    BY <2>1 DEF SerialInv, MarkedHasVector, HasVector
  <2>3. NoOrphan(p)'
    <3>1. \A x \in batch[p] : RowOf(x, job[p].model).id \in Live(chunks)
      BY <2>1, <1>b DEF RunInv, SnapshotsFresh, RowOf
    <3> QED
      BY <2>1, <3>1, <1>b DEF RunInv, NoOrphan, Live
  <2>4. RunInv(p)'
    BY <2>1, <2>3, <1>b DEF RunInv, TxKeepsMarked, RebuildUnmarked,
                            SnapshotsFresh, TodoCovers, BatchWritten, Live
  <2> QED
    BY <2>2, <2>4, <1>a
<1>18. ASSUME NEW p \in Indexers, UpsertRejected(p) PROVE SerialInv'
  <2>1. /\ chunks' = chunks /\ store' = store /\ batch'[p] = {}
        /\ pc'[p] = "idle"
    BY <1>18 DEF UpsertRejected, TypeOK, sqlite, lancedb, Forget
  <2>2. RunInv(p)'
    BY <2>1, <1>b DEF RunInv, TxKeepsMarked, RebuildUnmarked,
                      SnapshotsFresh, TodoCovers, BatchWritten, NoOrphan
  <2> QED
    BY <2>1, <2>2, <1>a, <1>c
<1>19. ASSUME NEW p \in Indexers, MarkOne(p) PROVE SerialInv'
  <2>1. PICK x \in batch[p] :
          /\ chunks' = IF x.id \in Live(chunks)
                       THEN [chunks EXCEPT ![x.id].marked = TRUE]
                       ELSE chunks
          /\ batch'[p] = batch[p] \ {x}
          /\ pc'[p] = IF batch[p] = {x} THEN "batch" ELSE "mark"
    BY <1>19 DEF MarkOne, TypeOK
  <2>2. store' = store /\ pend' = pend /\ job' = job /\ pc[p] = "mark"
    BY <1>19 DEF MarkOne, lancedb
  <2>3. /\ x.id \in Live(chunks) /\ chunks[x.id].content = x.content
        /\ RowOf(x, job[p].model) \in store
    BY <2>2, <1>b DEF RunInv, SnapshotsFresh, BatchWritten
  <2>4. chunks' = [chunks EXCEPT ![x.id].marked = TRUE]
    BY <2>1, <2>3
  <2>5. /\ chunks'[x.id].marked /\ x.id \in ChunkIds
        /\ \A i \in ChunkIds : /\ chunks'[i].file = chunks[i].file
                               /\ chunks'[i].content = chunks[i].content
                               /\ i # x.id => chunks'[i] = chunks[i]
    BY <2>3, <2>4 DEF TypeOK, Chunk, Slot, Live
  <2>6. MarkedHasVector'
    <3>1. SUFFICES ASSUME NEW i \in ChunkIds, chunks'[i].marked
                   PROVE  \E m \in Models : HasVector(i, m)'
      BY DEF MarkedHasVector
    <3>2. CASE i = x.id
      <4>1. PICK m \in Models : m = job[p].model
        BY <2>2 DEF TypeOK, Idle, Job
      <4>2. HasVector(i, m)'
        BY <2>2, <2>3, <2>5, <3>2, <4>1 DEF HasVector, RowOf
      <4> QED
        BY <4>1, <4>2
    <3>3. CASE i # x.id
      <4>1. chunks[i].marked
        BY <2>5, <3>1, <3>3
      <4>2. PICK m \in Models : HasVector(i, m)
        BY <4>1 DEF SerialInv, MarkedHasVector
      <4>3. HasVector(i, m)'
        BY <2>2, <2>5, <4>2 DEF HasVector
      <4> QED
        BY <4>3
    <3> QED
      BY <3>2, <3>3
  <2>7. Live(chunks') = Live(chunks)
    BY <2>5 DEF Live
  <2>8. SnapshotsFresh(p)' /\ NoOrphan(p)'
    BY <2>1, <2>2, <2>5, <2>7, <1>b DEF RunInv, SnapshotsFresh, NoOrphan, Live
  <2>9. TodoCovers(p)'
    <3>1. SUFFICES ASSUME NEW i \in Live(chunks), ~chunks'[i].marked
                   PROVE  \E y \in Todo(p)' : y.id = i
      BY <2>1, <2>7 DEF TodoCovers
    <3>2. i # x.id /\ ~chunks[i].marked
      BY <2>5, <3>1 DEF Live
    <3>3. PICK y \in Todo(p) : y.id = i
      BY <2>2, <3>2, <1>b DEF RunInv, TodoCovers
    <3> QED
      BY <2>1, <2>2, <3>2, <3>3
  <2>10. RunInv(p)'
    BY <2>1, <2>2, <2>8, <2>9, <1>b
    DEF RunInv, TxKeepsMarked, RebuildUnmarked, BatchWritten
  <2> QED
    BY <2>6, <2>10, <1>a
<1>20. ASSUME NEW p \in Indexers, Finish(p) PROVE SerialInv'
  <2>1. /\ chunks' = chunks /\ store' = store /\ batch'[p] = {}
        /\ pc[p] = "batch" /\ pc'[p] = "done" /\ pend[p] = {}
    BY <1>20 DEF Finish, Forget, TypeOK, sqlite, lancedb
  <2>2. \A i \in Live(chunks) : chunks[i].marked
    BY <2>1, <1>b DEF RunInv, TodoCovers, BatchWritten
  <2>3. RunInv(p)'
    BY <2>1, <2>2 DEF RunInv, TxKeepsMarked, RebuildUnmarked, SnapshotsFresh,
                      TodoCovers, BatchWritten, NoOrphan, Live
  <2> QED
    BY <2>1, <2>3, <1>a, <1>c
<1>21. ASSUME NEW p \in Indexers, Abort(p) PROVE SerialInv'
  <2>1. /\ chunks' = chunks /\ store' = store /\ batch'[p] = {}
        /\ pc'[p] = "idle"
    BY <1>21 DEF Abort, TypeOK, sqlite, lancedb, Forget
  <2>2. RunInv(p)'
    BY <2>1, <1>b DEF RunInv, TxKeepsMarked, RebuildUnmarked,
                      SnapshotsFresh, TodoCovers, BatchWritten, NoOrphan
  <2> QED
    BY <2>1, <2>2, <1>a, <1>c
<1>23. ASSUME NEW p \in Indexers, CommitNothing(p) PROVE SerialInv'
  <2>1. /\ chunks' = chunks /\ store' = store /\ pc'[p] \in {"idle", "pin"}
    BY <1>23 DEF CommitNothing, EndIndexing, TypeOK, sqlite, lancedb
  <2>2. batch'[p] = {}
    BY <1>23, <1>b DEF CommitNothing, EndIndexing, Forget, TypeOK, RunInv, BatchWritten
  <2>3. RunInv(p)'
    BY <2>1, <2>2 DEF RunInv, TxKeepsMarked, RebuildUnmarked, SnapshotsFresh,
                      TodoCovers, BatchWritten, NoOrphan
  <2> QED
    BY <2>1, <2>3, <1>a, <1>c
<1>22. CASE UNCHANGED vars
  <2>1. /\ chunks' = chunks /\ store' = store /\ pc' = pc /\ job' = job /\ tx' = tx
        /\ ids' = ids /\ pend' = pend /\ batch' = batch
    BY <1>22 DEF vars, sqlite, lancedb, locals
  <2>2. ASSUME NEW p \in Indexers PROVE RunInv(p)'
    BY <2>1, <1>b DEF RunInv, TxKeepsMarked, RebuildUnmarked, SnapshotsFresh, TodoCovers,
                      BatchWritten, NoOrphan, Live
  <2> QED
    BY <2>1, <2>2, <1>c DEF SerialInv
<1> QED
  BY <1>1, <1>2, <1>3, <1>4, <1>5, <1>6, <1>7, <1>8, <1>9, <1>10, <1>11,
     <1>12, <1>13, <1>14, <1>15, <1>16, <1>17, <1>18, <1>19, <1>20, <1>21,
     <1>22, <1>23
  DEF Next, Step, IndexProject, PinModel, EmbedPending

LEMMA SerialCorrect ==
  ASSUME Serial, ~ShortReplies
  PROVE  Spec => [](TypeOK /\ SerialInv)
<1>1. Init => TypeOK /\ SerialInv
  BY TypeInit, SerialInit
<1>2. TypeOK /\ SerialInv /\ [Next]_vars => (TypeOK /\ SerialInv)'
  BY TypeStep, SerialStep
<1> QED
  BY <1>1, <1>2, PTL DEF Spec

\* Runs that do not overlap never mark a chunk without a vector of its content,
\* whatever they are killed in the middle of.
THEOREM MarkedHasVectorCorrect ==
  ASSUME Serial, ~ShortReplies
  PROVE  Spec => []MarkedHasVector
<1>1. SerialInv => MarkedHasVector
  BY DEF SerialInv
<1> QED
  BY SerialCorrect, <1>1, PTL

\* From its prune to its end, such a run sees no vector of an unknown chunk.
THEOREM NoOrphanCorrect ==
  ASSUME Serial, ~ShortReplies
  PROVE  Spec => []NoOrphanAfterPrune
<1>1. SerialInv => NoOrphanAfterPrune
  BY DEF SerialInv, RunInv, NoOrphan, NoOrphanAfterPrune
<1> QED
  BY SerialCorrect, <1>1, PTL

\* A run that gets through its loop has left no chunk unembedded.
THEOREM DoneMeansEmbeddedCorrect ==
  ASSUME Serial, ~ShortReplies
  PROVE  Spec => []DoneMeansEmbedded
<1>1. SerialInv => DoneMeansEmbedded
  BY DEF SerialInv, RunInv, TodoCovers, DoneMeansEmbedded
<1> QED
  BY SerialCorrect, <1>1, PTL

-----------------------------------------------------------------------------
(* The pin, when every run is a `brain index`.                             *)

Unmarking == \A i \in ChunkIds : ~chunks[i].marked

\* Where each run stands towards the pin, and why the pin can be trusted.
PinInv(p) ==
  /\ pin.model = None => Unmarking
  /\ pc[p] \in {"setmodel", "setdim", "clear"} => Unmarking
  /\ pc[p] \in {"setdim", "clear"} => pin.model = job[p].model
  /\ pc[p] = "clear" => pin.dim = DimOf[job[p].model]
  /\ pc[p] = "ifabsent" => ~PinMismatch(job[p].model)
  /\ pc[p] \in {"ids", "prune", "pending", "batch", "upsert", "add", "mark"} =>
       /\ pin.model # None
       /\ ~PinMismatch(job[p].model)

PinsInv == PinHonest /\ \A p \in Indexers : PinInv(p)

LEMMA PinInit == Init => PinsInv
BY DEF Init, PinsInv, PinHonest, PinInv, PinComplete, Unmarking, NoChunk

LEMMA PinStep ==
  ASSUME Serial, ~ShortReplies, Kinds = {"cli"}
  PROVE  TypeOK /\ SerialInv /\ PinsInv /\ [Next]_vars => PinsInv'
<1> SUFFICES ASSUME TypeOK, SerialInv, PinsInv, [Next]_vars PROVE PinsInv'
  OBVIOUS
<1> USE SyncConstants DEF At, Goto, InTx
<1>a. ASSUME NEW p \in Indexers, PinInv(p)', PinHonest' PROVE PinsInv'
  BY <1>a, Serial DEF PinsInv, Serial
<1>b. ASSUME NEW p \in Indexers PROVE PinInv(p) /\ RunInv(p)
  BY <1>b DEF PinsInv, SerialInv
<1>c. ASSUME chunks' = chunks, store' = store, pin' = pin PROVE PinHonest'
  BY <1>c DEF PinsInv, PinHonest, HasVector, PinComplete
<1>d. ASSUME NEW p \in Indexers, ~Idle(p)
      PROVE  job[p].kind = "cli" /\ job[p].model \in Models
  BY <1>d DEF TypeOK, Job
<1>e. ASSUME Unmarking' PROVE PinHonest'
  BY <1>e DEF Unmarking, PinHonest
\* Steps that leave the marks, the vectors and the pin alone and stay outside
\* the points where the pin matters.
<1>f. ASSUME NEW p \in Indexers, chunks' = chunks, store' = store, pin' = pin,
             pc'[p] \in {"load", "write", "remove", "pin", "idle", "done", "unmark"}
      PROVE  PinsInv'
  BY <1>f, <1>a, <1>b, <1>c DEF PinInv, Unmarking
<1>1. ASSUME NEW p \in Indexers, Start(p) PROVE PinsInv'
  BY <1>1, <1>f DEF Start, TypeOK, sqlite, lancedb
<1>2. ASSUME NEW p \in Indexers, BeginTx(p) PROVE PinsInv'
  BY <1>2, <1>f DEF BeginTx, TypeOK, sqlite, lancedb
<1>3. ASSUME NEW p \in Indexers, NEW f \in Files, NEW t \in Texts,
             RewriteFile(p, f, t)
      PROVE  PinsInv'
  BY <1>3, <1>f DEF RewriteFile, TypeOK, sqlite, lancedb
<1>4. ASSUME NEW p \in Indexers, NEW f \in Files, RemoveFile(p, f) PROVE PinsInv'
  BY <1>4, <1>f DEF RemoveFile, TypeOK, sqlite, lancedb
<1>5. ASSUME NEW p \in Indexers, Commit(p) PROVE PinsInv'
  <2>1. /\ chunks' = tx.chunks /\ store' = store /\ pin' = pin
        /\ pc'[p] \in {"idle", "pin"}
    BY <1>5 DEF Commit, EndIndexing, TypeOK, lancedb
  <2>2. \A i \in ChunkIds : chunks'[i].marked => chunks'[i] = chunks[i]
    BY <1>5, <2>1, <1>b DEF Commit, RunInv, TxKeepsMarked
  <2>3. PinHonest'
    BY <2>1, <2>2 DEF PinsInv, PinHonest, HasVector, PinComplete
  <2>4. PinInv(p)'
    BY <2>1, <2>2, <1>b DEF PinInv, Unmarking
  <2> QED
    BY <2>3, <2>4, <1>a
<1>6. ASSUME NEW p \in Indexers, CheckPin(p) PROVE PinsInv'
  <2>1. PICK full \in BOOLEAN :
           /\ job' = [job EXCEPT ![p].full = full]
           /\ \/ full /\ pc' = [pc EXCEPT ![p] = "unmark"]
              \/ ~full /\ pc' = [pc EXCEPT ![p] = "ifabsent"]
              \/ ~full /\ pc' = [pc EXCEPT ![p] = "ids"] /\ job[p].kind # "cli"
           /\ job[p].kind = "cli" /\ ~full => ~PinMismatch(job[p].model)
    BY <1>6, CheckPinFull
  <2>2. job[p].kind = "cli"
    BY <1>6, <1>d DEF CheckPin, Idle
  <2>3. /\ chunks' = chunks /\ store' = store /\ pin' = pin
        /\ pc'[p] \in {"unmark", "ifabsent"}
    BY <1>6, <2>1, <2>2 DEF CheckPin, TypeOK, sqlite, lancedb
  <2>4. CASE pc'[p] = "unmark"
    BY <2>3, <2>4, <1>f
  <2>5. CASE pc'[p] = "ifabsent"
    <3>1. ~PinMismatch(job[p].model)
      BY <2>1, <2>2, <2>5 DEF TypeOK
    <3>2. job'[p].model = job[p].model
      BY <1>6, <2>1 DEF CheckPin, TypeOK, Idle, Job
    <3>3. PinInv(p)'
      BY <2>3, <2>5, <3>1, <3>2, <1>b DEF PinInv, Unmarking, PinMismatch, PinComplete, PinMatches
    <3> QED
      BY <2>3, <3>3, <1>a, <1>c
  <2> QED
    BY <2>3, <2>4, <2>5
<1>7. ASSUME NEW p \in Indexers, SetIfAbsent(p) PROVE PinsInv'
  <2>1. /\ chunks' = chunks /\ store' = store /\ pin' = pin /\ job' = job
        /\ pc[p] = "ifabsent"
        /\ pc'[p] = IF pin.model = None THEN "setmodel" ELSE "ids"
    BY <1>7 DEF SetIfAbsent, TypeOK, sqlite, lancedb, locals
  <2>2. PinInv(p)'
    BY <2>1, <1>b DEF PinInv, Unmarking, PinMismatch, PinComplete, PinMatches
  <2> QED
    BY <2>1, <2>2, <1>a, <1>c
<1>8. ASSUME NEW p \in Indexers, Unmark(p) PROVE PinsInv'
  <2>1. pin' = pin /\ pc'[p] = "setmodel"
    BY <1>8, <1>d DEF Unmark, TypeOK, lancedb, locals, Idle
  <2>2. Unmarking'
    BY <1>8 DEF Unmark, TypeOK, Chunk, Slot, Unmarking
  <2>3. PinInv(p)'
    BY <2>1, <2>2 DEF PinInv
  <2> QED
    BY <2>2, <2>3, <1>a, <1>e
<1>9. ASSUME NEW p \in Indexers, SetModel(p) PROVE PinsInv'
  <2>1. /\ chunks' = chunks /\ job' = job /\ pc[p] = "setmodel" /\ pc'[p] = "setdim"
        /\ pin'.model = job[p].model
    BY <1>9 DEF SetModel, TypeOK, lancedb, locals
  <2>2. Unmarking'
    BY <2>1, <1>b DEF PinInv, Unmarking
  <2>3. PinInv(p)'
    BY <2>1, <2>2 DEF PinInv
  <2> QED
    BY <2>2, <2>3, <1>a, <1>e
<1>10. ASSUME NEW p \in Indexers, SetDim(p) PROVE PinsInv'
  <2>1. /\ chunks' = chunks /\ job' = job /\ pc[p] = "setdim"
        /\ pc'[p] \in {"clear", "ids"}
        /\ pin' = [pin EXCEPT !.dim = DimOf[job[p].model]]
    BY <1>10 DEF SetDim, TypeOK, lancedb, locals
  <2>2. Unmarking' /\ pin.model = job[p].model
    BY <2>1, <1>b DEF PinInv, Unmarking
  <2>3. job[p].model \in Models
    BY <2>1, <1>d DEF Idle
  <2>4. pin'.model = job[p].model /\ pin'.dim = DimOf[job[p].model]
    BY <2>1, <2>2 DEF TypeOK
  <2>5. PinInv(p)'
    BY <2>1, <2>2, <2>3, <2>4 DEF PinInv, PinMismatch, PinComplete, PinMatches
  <2> QED
    BY <2>2, <2>5, <1>a, <1>e
<1>11. ASSUME NEW p \in Indexers, Clear(p) PROVE PinsInv'
  <2>1. /\ chunks' = chunks /\ job' = job /\ pin' = pin /\ pc[p] = "clear"
        /\ pc'[p] = "ids"
    BY <1>11, <1>d DEF Clear, TypeOK, sqlite, locals, Idle
  <2>2. Unmarking' /\ pin.model = job[p].model /\ job[p].model \in Models
    BY <2>1, <1>b, <1>d DEF PinInv, Unmarking, Idle
  <2>3. PinInv(p)'
    BY <2>1, <2>2, <1>b DEF PinInv, PinMismatch, PinComplete, PinMatches
  <2> QED
    BY <2>2, <2>3, <1>a, <1>e
<1>12. ASSUME NEW p \in Indexers, SnapshotIds(p) PROVE PinsInv'
  <2>1. /\ chunks' = chunks /\ store' = store /\ pin' = pin /\ job' = job
        /\ pc[p] = "ids" /\ pc'[p] = "prune"
    BY <1>12 DEF SnapshotIds, TypeOK, sqlite, lancedb
  <2> QED
    BY <2>1, <1>a, <1>b, <1>c DEF PinInv, Unmarking, PinMismatch, PinComplete, PinMatches
<1>13. ASSUME NEW p \in Indexers, DeleteOrphans(p) PROVE PinsInv'
  <2>1. /\ chunks' = chunks /\ pin' = pin /\ job' = job
        /\ pc[p] = "prune" /\ pc'[p] = "pending"
        /\ store' = {r \in store : r.id \in ids[p]}
    BY <1>13 DEF DeleteOrphans, TypeOK, sqlite
  <2>2. ids[p] = Live(chunks)
    BY <2>1, <1>b DEF RunInv, SnapshotsFresh
  <2>3. PinHonest'
    <3>1. SUFFICES ASSUME PinComplete, NEW i \in ChunkIds, chunks[i].marked
                   PROVE  HasVector(i, pin.model)'
      BY <2>1 DEF PinHonest, PinComplete
    <3>2. HasVector(i, pin.model) /\ i \in Live(chunks)
      BY <3>1, MarkedIsLive DEF PinsInv, PinHonest
    <3> QED
      BY <2>1, <2>2, <3>2 DEF HasVector
  <2>4. PinInv(p)'
    BY <2>1, <1>b DEF PinInv, Unmarking, PinMismatch, PinComplete, PinMatches
  <2> QED
    BY <2>3, <2>4, <1>a
<1>14. ASSUME NEW p \in Indexers, SnapshotPending(p) PROVE PinsInv'
  <2>1. /\ chunks' = chunks /\ store' = store /\ pin' = pin /\ job' = job
        /\ pc[p] = "pending" /\ pc'[p] = "batch"
    BY <1>14 DEF SnapshotPending, TypeOK, sqlite, lancedb
  <2> QED
    BY <2>1, <1>a, <1>b, <1>c DEF PinInv, Unmarking, PinMismatch, PinComplete, PinMatches
<1>15. ASSUME NEW p \in Indexers, TakeBatch(p) PROVE PinsInv'
  <2>1. /\ chunks' = chunks /\ store' = store /\ pin' = pin /\ job' = job
        /\ pc[p] = "batch" /\ pc'[p] = "upsert"
    BY <1>15 DEF TakeBatch, TypeOK, sqlite, lancedb
  <2> QED
    BY <2>1, <1>a, <1>b, <1>c DEF PinInv, Unmarking, PinMismatch, PinComplete, PinMatches
<1>16. ASSUME NEW p \in Indexers, OpenTable(p) PROVE PinsInv'
  <2>1. /\ chunks' = chunks /\ store' = store /\ pin' = pin /\ job' = job
        /\ pc[p] = "upsert" /\ pc'[p] = "add"
    BY <1>16 DEF OpenTable, TypeOK, sqlite, locals
  <2> QED
    BY <2>1, <1>a, <1>b, <1>c DEF PinInv, Unmarking, PinMismatch, PinComplete, PinMatches
<1>17. ASSUME NEW p \in Indexers, Upsert(p) PROVE PinsInv'
  <2>1. /\ chunks' = chunks /\ pin' = pin /\ job' = job
        /\ pc[p] \in {"upsert", "add"} /\ pc'[p] = "mark" /\ store \subseteq store'
    BY <1>17 DEF Upsert, TypeOK, sqlite, locals
  <2>2. PinHonest'
    BY <2>1 DEF PinsInv, PinHonest, HasVector, PinComplete
  <2>3. PinInv(p)'
    BY <2>1, <1>b DEF PinInv, Unmarking, PinMismatch, PinComplete, PinMatches
  <2> QED
    BY <2>2, <2>3, <1>a
<1>18. ASSUME NEW p \in Indexers, UpsertRejected(p) PROVE PinsInv'
  BY <1>18, <1>f DEF UpsertRejected, TypeOK, sqlite, lancedb
<1>19. ASSUME NEW p \in Indexers, MarkOne(p) PROVE PinsInv'
  <2>1. PICK x \in batch[p] :
          /\ chunks' = IF x.id \in Live(chunks)
                       THEN [chunks EXCEPT ![x.id].marked = TRUE]
                       ELSE chunks
          /\ pc'[p] = IF batch[p] = {x} THEN "batch" ELSE "mark"
    BY <1>19 DEF MarkOne, TypeOK
  <2>2. store' = store /\ pin' = pin /\ job' = job /\ pc[p] = "mark"
    BY <1>19 DEF MarkOne, lancedb
  <2>3. /\ x.id \in Live(chunks) /\ chunks[x.id].content = x.content
        /\ RowOf(x, job[p].model) \in store
    BY <2>2, <1>b DEF RunInv, SnapshotsFresh, BatchWritten, Embedding, Todo
  <2>4. \A i \in ChunkIds : /\ chunks'[i].content = chunks[i].content
                            /\ i # x.id => chunks'[i] = chunks[i]
    BY <2>1 DEF TypeOK, Chunk, Slot, Live
  <2>5. pin.model # None /\ ~PinMismatch(job[p].model)
    BY <2>2, <1>b DEF PinInv
  <2>6. PinHonest'
    <3>1. SUFFICES ASSUME PinComplete, NEW i \in ChunkIds, chunks'[i].marked
                   PROVE  [id |-> i, content |-> chunks[i].content,
                           model |-> pin.model] \in store
      BY <2>2, <2>4 DEF PinHonest, PinComplete, HasVector
    <3>2. CASE i = x.id
      BY <2>3, <2>5, <3>1, <3>2 DEF RowOf, PinMismatch, PinMatches
    <3>3. CASE i # x.id
      BY <2>4, <3>1, <3>3 DEF PinsInv, PinHonest, HasVector
    <3> QED
      BY <3>2, <3>3
  <2>7. PinInv(p)'
    BY <2>1, <2>2, <2>5 DEF PinInv, PinMismatch, PinComplete, PinMatches
  <2> QED
    BY <2>6, <2>7, <1>a
<1>20. ASSUME NEW p \in Indexers, Finish(p) PROVE PinsInv'
  BY <1>20, <1>f DEF Finish, TypeOK, sqlite, lancedb
<1>21. ASSUME NEW p \in Indexers, Abort(p) PROVE PinsInv'
  BY <1>21, <1>f DEF Abort, TypeOK, sqlite, lancedb
<1>23. ASSUME NEW p \in Indexers, CommitNothing(p) PROVE PinsInv'
  BY <1>23, <1>f DEF CommitNothing, EndIndexing, TypeOK, sqlite, lancedb
<1>22. CASE UNCHANGED vars
  BY <1>22 DEF vars, sqlite, lancedb, locals, PinsInv, PinHonest, PinInv,
     HasVector, Unmarking, PinMismatch, PinComplete, PinMatches
<1> QED
  BY <1>1, <1>2, <1>3, <1>4, <1>5, <1>6, <1>7, <1>8, <1>9, <1>10, <1>11,
     <1>12, <1>13, <1>14, <1>15, <1>16, <1>17, <1>18, <1>19, <1>20, <1>21,
     <1>22, <1>23
  DEF Next, Step, IndexProject, PinModel, EmbedPending

\* When only `brain index` runs, a complete pin names the model of a vector of
\* every embedded chunk: the order in which a rebuild unmarks, pins and drops
\* the table survives a crash between any two of these steps.
THEOREM PinHonestCorrect ==
  ASSUME Serial, ~ShortReplies, Kinds = {"cli"}
  PROVE  Spec => []PinHonest
<1>1. Init => TypeOK /\ SerialInv /\ PinsInv
  BY TypeInit, SerialInit, PinInit
<1>2. TypeOK /\ SerialInv /\ PinsInv /\ [Next]_vars
      => (TypeOK /\ SerialInv /\ PinsInv)'
  BY TypeStep, SerialStep, PinStep
<1>3. PinsInv => PinHonest
  BY DEF PinsInv
<1> QED
  BY <1>1, <1>2, <1>3, PTL DEF Spec

-----------------------------------------------------------------------------
(* What a run leaves alone: every chunk of a file it does not rewrite.      *)

\* What load_existing saw is still so, the transaction has changed each file it
\* has written, and no chunk of another.
Loaded(p) ==
  /\ pc[p] \in {"load", "write", "remove"} => seen[p] = files /\ holder[p] = [f \in Files |-> f]
  /\ InTx(p) =>
       /\ \A f \in tx.written : tx.files[f] # files[f]
       /\ \A i \in Live(chunks) : chunks[i].file \notin tx.written => tx.chunks[i] = chunks[i]
  /\ At(p, "unmark") => job[p].full

\* SQLite's next rowid is above every one in use.
LEMMA NextRowidIsNew ==
  ASSUME NEW rows
  PROVE  NextRowid(rows) \in Nat /\ \A j \in Live(rows) : j < NextRowid(rows)
<1> DEFINE T == {i \in 1 .. MaxId + 1 : \A j \in Live(rows) : j < i}
<1>1. MaxId \in Nat
  BY SyncConstants
<1>2. Live(rows) \subseteq 1 .. MaxId
  BY DEF Live, ChunkIds
<1>3. MaxId + 1 \in T /\ T \in SUBSET Nat
  BY <1>1, <1>2
<1>4. PICK x \in T : \A y \in T : x <= y
  BY <1>3, LeastNat
<1>5. x = 1 \/ x - 1 \in Live(rows)
  <2>1. CASE x # 1
    <3>1. x - 1 \in 1 .. MaxId + 1 /\ x - 1 \notin T
      BY <1>1, <1>4, <2>1
    <3>2. PICK j \in Live(rows) : ~(j < x - 1)
      BY <3>1
    <3>3. j < x /\ j \in Nat
      BY <1>2, <1>4
    <3>4. j = x - 1
      BY <1>1, <3>1, <3>2, <3>3
    <3> QED
      BY <3>4
  <2> QED
    BY <2>1
<1>6. \E i \in 1 .. MaxId + 1 : /\ \A j \in Live(rows) : j < i
                                /\ i = 1 \/ i - 1 \in Live(rows)
  BY <1>4, <1>5
<1>7. NextRowid(rows) \in 1 .. MaxId + 1
  BY <1>6 DEF NextRowid
<1>8. \A j \in Live(rows) : j < NextRowid(rows)
  BY <1>6 DEF NextRowid
<1> QED
  BY <1>1, <1>7, <1>8

\* A rewrite leaves the rows of the other files where they are.
LEMMA ReplacedKeeps ==
  ASSUME NEW rows, NEW f, NEW t \in Texts, NEW i \in ChunkIds,
         rows[i].file # f, rows[i].file # None
  PROVE  Replaced(rows, f, t)[i] = rows[i]
<1> DEFINE kept == Without(rows, f)
           base == NextRowid(kept)
<1>1. kept[i] = rows[i]
  BY DEF Without
<1>2. i \in Live(kept)
  BY <1>1 DEF Live
<1>3. base \in Nat /\ i < base /\ i \in Nat /\ Len(t) \in Nat
  BY <1>2, NextRowidIsNew, SyncConstants DEF ChunkIds
<1> HIDE DEF kept
<1>4. i \notin base .. base + Len(t) - 1
  BY <1>3
<1> HIDE DEF base
<1> QED
  BY <1>1, <1>4 DEF Replaced, base, kept

LEMMA WithoutKeeps ==
  ASSUME NEW rows, NEW f, NEW i \in ChunkIds, rows[i].file # f
  PROVE  Without(rows, f)[i] = rows[i]
BY DEF Without

LEMMA LoadedStep ==
  ASSUME Serial, TypeOK, \A p \in Indexers : Loaded(p), [Next]_vars
  PROVE  \A p \in Indexers : Loaded(p)'
<1> USE DEF At, Goto, InTx
<1> SUFFICES ASSUME NEW p \in Indexers PROVE Loaded(p)'
  OBVIOUS
<1>0. \A q \in Indexers : q = p
  BY DEF Serial
<1>1. CASE UNCHANGED vars
  BY <1>1 DEF vars, sqlite, lancedb, locals, Loaded, Live
<1>2. CASE Start(p)
  BY <1>2 DEF Start, Idle, Loaded, sqlite, TypeOK
<1>3. CASE BeginTx(p)
  BY <1>3 DEF BeginTx, Loaded, sqlite, TypeOK, Live
<1>4. ASSUME NEW f \in Files, NEW t \in Texts, RewriteFile(p, f, t) PROVE Loaded(p)'
  <2>1. /\ UNCHANGED <<files, chunks, pc, seen, holder, job>> /\ pc[p] = "write" /\ t # seen[p][f]
        /\ tx' = [files   |-> [tx.files EXCEPT ![f] = t],
                  chunks  |-> Replaced(tx.chunks, f, t),
                  written |-> tx.written \cup {f}]
    BY <1>4 DEF RewriteFile, sqlite
  <2>2. \A g \in tx'.written : tx'.files[g] # files'[g]
    BY <2>1 DEF Loaded, TypeOK
  <2>3. ASSUME NEW i \in Live(chunks), chunks[i].file \notin tx'.written
        PROVE  tx'.chunks[i] = chunks[i]
    <3>1. tx.chunks[i] = chunks[i] /\ chunks[i].file # f /\ chunks[i].file # None /\ i \in ChunkIds
      BY <2>1, <2>3 DEF Loaded, Live
    <3> QED
      BY <2>1, <3>1, ReplacedKeeps
  <2> QED
    BY <2>1, <2>2, <2>3 DEF Loaded, Live
<1>5. ASSUME NEW f \in Files, RemoveFile(p, f) PROVE Loaded(p)'
  <2>a. holder[p] = [g \in Files |-> g]
    BY <1>5 DEF RemoveFile, Loaded
  <2>0. holder[p][f] = f
    BY <2>a
  <2>1. /\ UNCHANGED <<files, chunks, seen, holder, job>> /\ pc[p] \in {"write", "remove"}
        /\ seen[p][f] # NoText /\ pc' = [pc EXCEPT ![p] = "remove"]
        /\ tx' = [files   |-> [g \in Files |-> IF g = f THEN NoText ELSE tx.files[g]],
                  chunks  |-> Without(tx.chunks, f),
                  written |-> tx.written \cup {f}]
    BY <1>5, <2>0 DEF RemoveFile, sqlite
  <2>2. \A g \in tx'.written : tx'.files[g] # files'[g]
    BY <2>1 DEF Loaded, TypeOK
  <2>3. ASSUME NEW i \in Live(chunks), chunks[i].file \notin tx'.written
        PROVE  tx'.chunks[i] = chunks[i]
    <3>1. tx.chunks[i] = chunks[i] /\ chunks[i].file # f /\ i \in ChunkIds
      BY <2>1, <2>3 DEF Loaded, Live
    <3> QED
      BY <2>1, <3>1, WithoutKeeps
  <2> QED
    BY <2>1, <2>2, <2>3 DEF Loaded, Live, TypeOK
<1>6. CASE Commit(p) \/ CommitNothing(p)
  <2>1. pc' = [pc EXCEPT ![p] = pc'[p]] /\ pc'[p] \in {"idle", "pin"}
    BY <1>6 DEF Commit, CommitNothing, EndIndexing, TypeOK
  <2> QED
    BY <2>1 DEF Loaded
<1>7. CASE CheckPin(p)
  <2>1. PICK full \in BOOLEAN :
           /\ job' = [job EXCEPT ![p].full = full]
           /\ \/ full /\ pc' = [pc EXCEPT ![p] = "unmark"]
              \/ ~full /\ pc' = [pc EXCEPT ![p] = "ifabsent"]
              \/ ~full /\ pc' = [pc EXCEPT ![p] = "ids"]
    BY <1>7, CheckPinFull
  <2>2. job'[p].full = full
    <3>1. job[p] \in Job
      BY <1>7 DEF CheckPin, TypeOK, Idle
    <3> QED
      BY <2>1, <3>1 DEF TypeOK, Job
  <2> QED
    BY <2>1, <2>2 DEF Loaded, TypeOK
<1>8. CASE \/ SetIfAbsent(p) \/ Unmark(p) \/ SetModel(p) \/ SetDim(p) \/ Clear(p)
           \/ SnapshotIds(p) \/ DeleteOrphans(p) \/ SnapshotPending(p) \/ TakeBatch(p)
           \/ OpenTable(p) \/ Upsert(p) \/ UpsertRejected(p) \/ MarkOne(p) \/ Finish(p) \/ Abort(p)
  <2>1. pc'[p] \notin {"load", "write", "remove", "unmark"}
    BY <1>8 DEF SetIfAbsent, Unmark, SetModel, SetDim, Clear, SnapshotIds, DeleteOrphans,
                SnapshotPending, TakeBatch, OpenTable, Upsert, UpsertRejected, MarkOne, Finish, Abort, TypeOK
  <2> QED
    BY <2>1 DEF Loaded
<1> QED
  BY <1>0, <1>1, <1>2, <1>3, <1>4, <1>5, <1>6, <1>7, <1>8
     DEF Next, Step, IndexProject, PinModel, EmbedPending

\* Indexing is incremental: a chunk changes when its file does, when it is
\* embedded, or in a rebuild, and otherwise keeps its id, text and mark
\* (index_project, write_changed, embed_pending).
THEOREM IncrementalCorrect ==
  ASSUME Serial
  PROVE  Spec => Incremental
<1> DEFINE Inv == TypeOK /\ \A p \in Indexers : Loaded(p)
<1>1. Init => Inv
  BY TypeInit DEF Init, Loaded, InTx, At
<1>2. Inv /\ [Next]_vars => Inv'
  BY TypeStep, LoadedStep
<1>3. Inv /\ [Next]_vars =>
        [\A i \in Live(chunks) :
           chunks'[i] # chunks[i] =>
             \/ files'[chunks[i].file] # files[chunks[i].file]
             \/ chunks'[i] = [chunks[i] EXCEPT !.marked = TRUE]
             \/ \E p \in Indexers : At(p, "unmark") /\ job[p].full]_chunks
  <2> SUFFICES ASSUME Inv, [Next]_vars, chunks' # chunks, NEW i \in Live(chunks),
                      chunks'[i] # chunks[i]
               PROVE  \/ files'[chunks[i].file] # files[chunks[i].file]
                      \/ chunks'[i] = [chunks[i] EXCEPT !.marked = TRUE]
                      \/ \E p \in Indexers : At(p, "unmark") /\ job[p].full
    OBVIOUS
  <2>1. \E p \in Indexers : Commit(p) \/ Unmark(p) \/ MarkOne(p)
    BY DEF Next, Step, IndexProject, PinModel, EmbedPending, Start, BeginTx, RewriteFile, RemoveFile,
           CommitNothing, CheckPin, SetIfAbsent, SetModel, SetDim, Clear, SnapshotIds, DeleteOrphans,
           SnapshotPending, TakeBatch, OpenTable, Upsert, UpsertRejected, Finish, Abort,
           vars, sqlite
  <2>2. PICK p \in Indexers : Commit(p) \/ Unmark(p) \/ MarkOne(p)
    BY <2>1
  <2>3. CASE Commit(p)
    BY <2>3 DEF Commit, Loaded
  <2>4. CASE Unmark(p)
    BY <2>4 DEF Unmark, Loaded
  <2>5. CASE MarkOne(p)
    <3>1. PICK x \in batch[p] : chunks' = IF x.id \in Live(chunks)
                                         THEN [chunks EXCEPT ![x.id].marked = TRUE] ELSE chunks
      BY <2>5 DEF MarkOne
    <3>2. chunks' = [chunks EXCEPT ![x.id] = [chunks[x.id] EXCEPT !.marked = TRUE]]
      BY <3>1
    <3> QED
      BY <3>2 DEF TypeOK, Live
  <2> QED
    BY <2>2, <2>3, <2>4, <2>5
<1> QED
  BY <1>1, <1>2, <1>3, PTL DEF Spec, Incremental
-----------------------------------------------------------------------------
(* How far a run is from its end: what EveryRunEnds rests on.  Any number  *)
(* of runs, overlapping or not, of a project of finitely many files.       *)

\* Steps from the snapshot of the ids to the end, if all chunks are unmarked.
EmbedSteps == 4 * MaxId + 4

\* Steps left to a run of a program, at a point of it, with so many chunks to embed, so many
\* in its batch, and so many files its transaction has not written.
StepsLeft(point, kind, todo, taken, unwritten) ==
  CASE point = "load"              -> EmbedSteps + 8 + Cardinality(Files)
    [] point \in {"write", "remove"} -> EmbedSteps + 7 + unwritten
    [] point = "pin"               -> EmbedSteps + 6
    [] point = "unmark"            -> EmbedSteps + 5
    [] point = "ifabsent"          -> EmbedSteps + 4
    [] point = "setmodel"          -> EmbedSteps + 3
    [] point = "setdim"            -> EmbedSteps + 2
    [] point = "clear"             -> EmbedSteps + (IF kind = "cli" THEN 1 ELSE 4)
    [] point = "ids"               -> EmbedSteps
    [] point = "prune"             -> EmbedSteps - 1
    [] point = "pending"           -> EmbedSteps - 2
    [] point = "batch"             -> 4 * todo + 1
    [] point = "upsert"            -> 4 * todo + taken + 3
    [] point = "add"               -> 4 * todo + taken + 2
    [] point = "mark"              -> 4 * todo + taken + 1
    [] OTHER                       -> 0

Left(p) ==
  StepsLeft(pc[p], job[p].kind, Cardinality(pend[p]), Cardinality(batch[p]),
            Cardinality(Files \ tx.written))

LongestRun == EmbedSteps + 8 + Cardinality(Files)

\* No run has more steps left than one that begins.
RunsAreBounded == \A p \in Indexers : Left(p) \in 0 .. LongestRun

\* A step of a run brings it nearer to its end.
RunsGetOn == [][\A p \in Indexers : Step(p) => Left(p)' < Left(p)]_vars

\* Nothing another run does takes a run further from its end.
RunsAreNotSetBack == [][\A p \in Indexers : ~Idle(p) => Left(p)' <= Left(p)]_vars

\* One more turn of the loop has a batch.
BatchToTake(p) ==
  \E b \in SUBSET pend[p] :
    b # {} /\ (Cardinality(b) = BatchSize \/ (b = pend[p] /\ Cardinality(b) < BatchSize))

\* No run is where no step is left to it: the loop ends or takes a batch, a batch
\* being marked is not empty, and one run at most holds the lock others wait for.
NoRunIsStuck ==
  \A p \in Indexers :
    /\ At(p, "batch") => pend[p] = {} \/ BatchToTake(p)
    /\ At(p, "mark") => batch[p] # {}
    /\ \A q \in Indexers : InTx(p) /\ InTx(q) => p = q

Counted(p) ==
  /\ IsFiniteSet(pend[p]) /\ IsFiniteSet(batch[p])
  /\ pc[p] \in {"upsert", "add", "mark"} => batch[p] # {}

OneWriter == \A p, q \in Indexers : InTx(p) /\ InTx(q) => p = q

ProgressInv ==
  /\ TypeOK /\ OneWriter /\ RunsAreBounded
  /\ \A p \in Indexers : Counted(p)

LEMMA StepsLeftValues ==
  \A kind, todo, taken, unwritten :
    /\ StepsLeft("load", kind, todo, taken, unwritten) = EmbedSteps + 8 + Cardinality(Files)
    /\ StepsLeft("write", kind, todo, taken, unwritten) = EmbedSteps + 7 + unwritten
    /\ StepsLeft("remove", kind, todo, taken, unwritten) = EmbedSteps + 7 + unwritten
    /\ StepsLeft("pin", kind, todo, taken, unwritten) = EmbedSteps + 6
    /\ StepsLeft("unmark", kind, todo, taken, unwritten) = EmbedSteps + 5
    /\ StepsLeft("ifabsent", kind, todo, taken, unwritten) = EmbedSteps + 4
    /\ StepsLeft("setmodel", kind, todo, taken, unwritten) = EmbedSteps + 3
    /\ StepsLeft("setdim", kind, todo, taken, unwritten) = EmbedSteps + 2
    /\ StepsLeft("clear", "cli", todo, taken, unwritten) = EmbedSteps + 1
    /\ kind # "cli" => StepsLeft("clear", kind, todo, taken, unwritten) = EmbedSteps + 4
    /\ StepsLeft("ids", kind, todo, taken, unwritten) = EmbedSteps
    /\ StepsLeft("prune", kind, todo, taken, unwritten) = EmbedSteps - 1
    /\ StepsLeft("pending", kind, todo, taken, unwritten) = EmbedSteps - 2
    /\ StepsLeft("batch", kind, todo, taken, unwritten) = 4 * todo + 1
    /\ StepsLeft("upsert", kind, todo, taken, unwritten) = 4 * todo + taken + 3
    /\ StepsLeft("add", kind, todo, taken, unwritten) = 4 * todo + taken + 2
    /\ StepsLeft("mark", kind, todo, taken, unwritten) = 4 * todo + taken + 1
    /\ StepsLeft("idle", kind, todo, taken, unwritten) = 0
    /\ StepsLeft("done", kind, todo, taken, unwritten) = 0
BY DEF StepsLeft

\* At most one pending chunk for each id.
LEMMA UnmarkedFinite ==
  /\ IsFiniteSet(Unmarked(chunks)) /\ Cardinality(Unmarked(chunks)) \in Nat
  /\ Cardinality(Unmarked(chunks)) <= MaxId
<1> DEFINE idOf == [x \in Unmarked(chunks) |-> x.id]
<1>1. IsFiniteSet(ChunkIds) /\ Cardinality(ChunkIds) = MaxId
  BY SyncConstants, FS_Interval DEF ChunkIds
<1>2. idOf \in Injection(Unmarked(chunks), ChunkIds)
  BY DEF Injection, IsInjective, Unmarked, Live
<1>3. IsFiniteSet(Unmarked(chunks)) /\ Cardinality(Unmarked(chunks)) <= Cardinality(ChunkIds)
  BY <1>1, <1>2, FS_Injection
<1> QED
  BY <1>1, <1>3, FS_CardinalityType

\* A finite set has a subset of any smaller size.
LEMMA SomeOfSize ==
  ASSUME NEW S, IsFiniteSet(S), NEW n \in Nat, n <= Cardinality(S)
  PROVE  \E b \in SUBSET S : Cardinality(b) = n
<1>1. Cardinality(S) \in Nat /\ ExistsBijection(1 .. Cardinality(S), S)
  BY FS_CardinalityType
<1>2. PICK f \in Bijection(1 .. Cardinality(S), S) : TRUE
  BY <1>1 DEF ExistsBijection
<1> DEFINE b == {f[i] : i \in 1 .. n}
           g == [i \in 1 .. n |-> f[i]]
<1>3. 1 .. n \subseteq 1 .. Cardinality(S)
  BY <1>1
<1>4. f \in [1 .. Cardinality(S) -> S]
      /\ \A i, j \in 1 .. Cardinality(S) : f[i] = f[j] => i = j
  BY <1>2 DEF Bijection, Injection, IsInjective
<1>5. b \in SUBSET S /\ g \in Bijection(1 .. n, b)
  BY <1>3, <1>4 DEF Bijection, Injection, Surjection, IsInjective
<1>6. IsFiniteSet(1 .. n) /\ Cardinality(1 .. n) = n
  BY FS_Interval
<1>7. Cardinality(b) = n
  BY <1>5, <1>6, FS_Bijection DEF ExistsBijection
<1> QED
  BY <1>5, <1>7

LEMMA BatchIsThere ==
  ASSUME NEW p \in Indexers, IsFiniteSet(pend[p]), pend[p] # {}
  PROVE  BatchToTake(p)
<1>1. Cardinality(pend[p]) \in Nat /\ BatchSize \in Nat \ {0}
  BY SyncConstants, FS_CardinalityType
<1>2. CASE Cardinality(pend[p]) < BatchSize
  BY <1>2 DEF BatchToTake
<1>3. CASE BatchSize <= Cardinality(pend[p])
  <2>1. PICK b \in SUBSET pend[p] : Cardinality(b) = BatchSize
    BY <1>1, <1>3, SomeOfSize
  <2>2. b # {}
    BY <1>1, <2>1, FS_EmptySet
  <2> QED
    BY <2>1, <2>2 DEF BatchToTake
<1> QED
  BY <1>1, <1>2, <1>3

\* What a step of one run leaves of another, and of the lock.
LEMMA Apart ==
  ASSUME TypeOK, NEW q \in Indexers, Start(q) \/ Step(q) \/ Abort(q)
  PROVE  /\ \A p \in Indexers \ {q} :
              pc'[p] = pc[p] /\ job'[p] = job[p] /\ pend'[p] = pend[p] /\ batch'[p] = batch[p]
         /\ InTx(q)' => InTx(q) \/ Unlocked
         /\ tx' = tx \/ InTx(q) \/ Unlocked
<1> USE DEF At, Goto, TypeOK, sqlite, lancedb, locals
<1>1. CASE Start(q)
  BY <1>1 DEF Start, InTx
<1>2. CASE Abort(q)
  BY <1>2 DEF Abort, Forget, InTx
<1>3. CASE BeginTx(q)
  BY <1>3 DEF BeginTx
<1>4. ASSUME NEW f \in Files, NEW t \in Texts, RewriteFile(q, f, t)
      PROVE  UNCHANGED <<pc, job, pend, batch>> /\ InTx(q)
  BY <1>4 DEF RewriteFile, InTx
<1>5. ASSUME NEW f \in Files, RemoveFile(q, f)
      PROVE  UNCHANGED <<job, pend, batch>> /\ InTx(q) /\ pc' = [pc EXCEPT ![q] = "remove"]
  BY <1>5 DEF RemoveFile
<1>6. CASE Commit(q)
  BY <1>6 DEF Commit, EndIndexing, Forget, InTx
<1>7. CASE CommitNothing(q)
  BY <1>7 DEF CommitNothing, EndIndexing, Forget, InTx
<1>8. CASE CheckPin(q)
  BY <1>8 DEF CheckPin, InTx
<1>9. CASE SetIfAbsent(q) \/ Unmark(q) \/ SetModel(q) \/ SetDim(q) \/ Clear(q)
  BY <1>9 DEF SetIfAbsent, Unmark, SetModel, SetDim, Clear, InTx
<1>10. CASE SnapshotIds(q) \/ DeleteOrphans(q) \/ SnapshotPending(q) \/ TakeBatch(q)
  BY <1>10 DEF SnapshotIds, DeleteOrphans, SnapshotPending, TakeBatch, InTx
<1>11. CASE OpenTable(q) \/ Upsert(q) \/ UpsertRejected(q)
  BY <1>11 DEF OpenTable, Upsert, UpsertRejected, Forget, InTx
<1>12. CASE MarkOne(q) \/ Finish(q)
  BY <1>12 DEF MarkOne, Finish, Forget, InTx
<1> QED
  BY <1>1, <1>2, <1>3, <1>4, <1>5, <1>6, <1>7, <1>8, <1>9, <1>10, <1>11, <1>12
     DEF Step, IndexProject, PinModel, EmbedPending

\* A run that ends has no step left, nothing to embed and no batch.
LEMMA ForgottenIsOver ==
  ASSUME TypeOK, NEW p \in Indexers, Forget(p), pc'[p] \in {"idle", "done"}
  PROVE  Counted(p)' /\ Left(p)' = 0
<1>1. pend'[p] = {} /\ batch'[p] = {}
  BY DEF Forget, TypeOK
<1>2. Counted(p)'
  BY <1>1, FS_EmptySet DEF Counted
<1> QED
  BY <1>1, <1>2, StepsLeftValues DEF Left

LEMMA LeftIsNat ==
  ASSUME TypeOK, IsFiniteSet(Files), NEW p \in Indexers, Counted(p)
  PROVE  /\ Left(p) \in Nat /\ LongestRun \in Nat /\ EmbedSteps \in Nat
         /\ ~Idle(p) => Left(p) > 0
<1>1. Cardinality(pend[p]) \in Nat /\ Cardinality(batch[p]) \in Nat /\ Cardinality(Files) \in Nat
  BY FS_CardinalityType DEF Counted
<1>2. Cardinality(Files \ tx.written) \in Nat
  BY FS_Difference, FS_CardinalityType
<1>3. EmbedSteps \in Nat /\ EmbedSteps >= 4
  BY SyncConstants DEF EmbedSteps
<1>4. pc[p] \in Points \cup {"idle", "done"}
  BY DEF TypeOK
<1>5. Left(p) \in Nat
  BY <1>1, <1>2, <1>3, <1>4, StepsLeftValues DEF Left, Points
<1>6. ~Idle(p) => Left(p) > 0
  BY <1>1, <1>2, <1>3, <1>4, StepsLeftValues DEF Left, Points, Idle
<1> QED
  BY <1>1, <1>3, <1>5, <1>6 DEF LongestRun

\* The steps that change no more than where the run is and what SQLite and the
\* vector table hold.
LEMMA PinStepsGetOn ==
  ASSUME TypeOK, NEW p \in Indexers, Counted(p), PinModel(p) \/ SnapshotIds(p) \/ DeleteOrphans(p)
  PROVE  Counted(p)' /\ Left(p)' < Left(p)
<1> USE DEF At, Goto
<1>1. UNCHANGED <<pend, batch>>
  BY DEF PinModel, CheckPin, SetIfAbsent, Unmark, SetModel, SetDim, Clear, SnapshotIds,
         DeleteOrphans, locals
<1>2. EmbedSteps \in Nat
  BY SyncConstants DEF EmbedSteps
<1>3. pc'[p] \notin {"upsert", "add", "mark"} => Counted(p)'
  BY <1>1 DEF Counted
<1>4. pc \in [Indexers -> Points \cup {"idle", "done"}]
  BY DEF TypeOK
<1>5. CASE CheckPin(p)
  <2>1. pc[p] = "pin" /\ pc'[p] \in {"unmark", "ifabsent", "ids"}
    BY <1>4, <1>5, CheckPinFull DEF CheckPin
  <2> QED
    BY <1>2, <1>3, <2>1, StepsLeftValues DEF Left
<1>6. CASE SetIfAbsent(p)
  <2>1. pc[p] = "ifabsent" /\ pc'[p] \in {"setmodel", "ids"}
    BY <1>4, <1>6 DEF SetIfAbsent
  <2> QED
    BY <1>2, <1>3, <2>1, StepsLeftValues DEF Left
<1>7. CASE Unmark(p)
  <2>1. pc[p] = "unmark" /\ pc'[p] \in {"setmodel", "clear"}
    BY <1>4, <1>7 DEF Unmark
  <2>2. Left(p)' \in {EmbedSteps + 3, EmbedSteps + 1, EmbedSteps + 4}
    BY <2>1, StepsLeftValues DEF Left
  <2> QED
    BY <1>2, <1>3, <2>1, <2>2, StepsLeftValues DEF Left
<1>8. CASE SetModel(p)
  <2>1. pc[p] = "setmodel" /\ pc'[p] = "setdim"
    BY <1>4, <1>8 DEF SetModel
  <2> QED
    BY <1>2, <1>3, <2>1, StepsLeftValues DEF Left
<1>9. CASE SetDim(p)
  <2>1. pc[p] = "setdim" /\ job' = job
        /\ (pc'[p] = "ids" \/ (pc'[p] = "clear" /\ job[p].kind = "cli"))
    BY <1>4, <1>9 DEF SetDim, locals
  <2>2. Left(p)' \in {EmbedSteps, EmbedSteps + 1}
    BY <2>1, StepsLeftValues DEF Left
  <2> QED
    BY <1>2, <1>3, <2>1, <2>2, StepsLeftValues DEF Left
<1>10. CASE Clear(p)
  <2>1. pc[p] = "clear" /\ pc'[p] = (IF job[p].kind = "cli" THEN "ids" ELSE "setmodel")
    BY <1>4, <1>10 DEF Clear
  <2>2. CASE job[p].kind = "cli"
    BY <1>2, <1>3, <2>1, <2>2, StepsLeftValues DEF Left
  <2>3. CASE job[p].kind # "cli"
    BY <1>2, <1>3, <2>1, <2>3, StepsLeftValues DEF Left
  <2> QED
    BY <2>2, <2>3
<1>11. CASE SnapshotIds(p)
  <2>1. pc[p] = "ids" /\ pc'[p] = "prune"
    BY <1>4, <1>11 DEF SnapshotIds
  <2> QED
    BY <1>2, <1>3, <2>1, StepsLeftValues DEF Left
<1>12. CASE DeleteOrphans(p)
  <2>1. pc[p] = "prune" /\ pc'[p] = "pending"
    BY <1>4, <1>12 DEF DeleteOrphans
  <2> QED
    BY <1>2, <1>3, <2>1, StepsLeftValues DEF Left
<1> QED
  BY <1>5, <1>6, <1>7, <1>8, <1>9, <1>10, <1>11, <1>12 DEF PinModel

LEMMA IndexStepsGetOn ==
  ASSUME TypeOK, IsFiniteSet(Files), NEW p \in Indexers, Counted(p), IndexProject(p)
  PROVE  Counted(p)' /\ Left(p)' < Left(p)
<1> USE DEF At, Goto
<1> DEFINE unwritten == Cardinality(Files \ tx.written)
<1>0. IsFiniteSet(Files \ tx.written)
  BY FS_Difference
<1>1. EmbedSteps \in Nat /\ Cardinality(Files) \in Nat /\ unwritten \in Nat
  BY <1>0, SyncConstants, FS_CardinalityType DEF EmbedSteps
<1>2. pc \in [Indexers -> Points \cup {"idle", "done"}]
  BY DEF TypeOK
<1>3. ASSUME UNCHANGED <<pend, batch>>, pc'[p] \notin {"upsert", "add", "mark"} PROVE Counted(p)'
  BY <1>3 DEF Counted
<1>4. InTx(p) => Left(p) = EmbedSteps + 7 + unwritten
  BY StepsLeftValues DEF Left, InTx
<1>5. CASE BeginTx(p)
  <2>1. pc[p] = "load" /\ pc'[p] = "write" /\ tx'.written = {} /\ UNCHANGED <<pend, batch>>
    BY <1>2, <1>5 DEF BeginTx
  <2>2. Left(p)' = EmbedSteps + 7 + Cardinality(Files)
    <3>1. Files \ tx'.written = Files
      BY <2>1
    <3> QED
      BY <2>1, <3>1, StepsLeftValues DEF Left
  <2> QED
    BY <1>1, <1>3, <2>1, <2>2, StepsLeftValues DEF Left
<1>6. ASSUME NEW f \in Files, f \notin tx.written, tx'.written = tx.written \cup {f}, InTx(p),
             pc'[p] \in {"write", "remove"}, UNCHANGED <<pend, batch>>
      PROVE  Counted(p)' /\ Left(p)' < Left(p)
  <2>1. Files \ tx'.written = (Files \ tx.written) \ {f}
    BY <1>6
  <2>2. Cardinality(Files \ tx'.written) = unwritten - 1
    BY <1>0, <1>1, <1>6, <2>1, FS_RemoveElement
  <2>3. Left(p)' = EmbedSteps + 7 + (unwritten - 1)
    BY <1>6, <2>2, StepsLeftValues DEF Left
  <2> QED
    BY <1>1, <1>3, <1>4, <1>6, <2>3
<1>7. ASSUME NEW f \in Files, NEW t \in Texts, RewriteFile(p, f, t)
      PROVE  Counted(p)' /\ Left(p)' < Left(p)
  BY <1>6, <1>7 DEF RewriteFile, InTx
<1>8. ASSUME NEW f \in Files, RemoveFile(p, f) PROVE Counted(p)' /\ Left(p)' < Left(p)
  BY <1>2, <1>6, <1>8 DEF RemoveFile
<1>9. ASSUME EndIndexing(p), Left(p) \in Nat, Left(p) > EmbedSteps + 6
      PROVE  Counted(p)' /\ Left(p)' < Left(p)
  <2>1. CASE job[p].noEmbed
    <3>1. Forget(p) /\ pc'[p] = "idle"
      BY <1>2, <1>9, <2>1 DEF EndIndexing
    <3>2. Counted(p)' /\ Left(p)' = 0
      BY <3>1, ForgottenIsOver
    <3> QED
      BY <1>1, <1>9, <3>2
  <2>2. CASE ~job[p].noEmbed
    <3>1. pc'[p] = "pin" /\ UNCHANGED <<pend, batch>>
      BY <1>2, <1>9, <2>2 DEF EndIndexing
    <3> QED
      BY <1>1, <1>3, <1>9, <3>1, StepsLeftValues DEF Left
  <2> QED
    BY <2>1, <2>2
<1>10. CASE Commit(p)
  BY <1>1, <1>4, <1>9, <1>10 DEF Commit
<1>11. CASE CommitNothing(p)
  BY <1>1, <1>9, <1>11, StepsLeftValues DEF CommitNothing, Left
<1> QED
  BY <1>5, <1>7, <1>8, <1>10, <1>11 DEF IndexProject

LEMMA EmbedStepsGetOn ==
  ASSUME TypeOK, NEW p \in Indexers, Counted(p), EmbedPending(p)
  PROVE  Counted(p)' /\ Left(p)' < Left(p)
<1> USE DEF At, Goto
<1> DEFINE todo == Cardinality(pend[p])
           taken == Cardinality(batch[p])
<1>1. todo \in Nat /\ taken \in Nat /\ IsFiniteSet(pend[p]) /\ IsFiniteSet(batch[p])
  BY FS_CardinalityType DEF Counted
<1>2. pc \in [Indexers -> Points \cup {"idle", "done"}] /\ pend \in [Indexers -> SUBSET Pending]
      /\ batch \in [Indexers -> SUBSET Pending]
  BY DEF TypeOK
<1>3. pc[p] \in {"upsert", "add", "mark"} => taken > 0
  BY <1>1, FS_EmptySet DEF Counted
<1>4. CASE SnapshotIds(p) \/ DeleteOrphans(p)
  BY <1>4, PinStepsGetOn
<1>5. CASE SnapshotPending(p)
  <2>1. pc[p] = "pending" /\ pc'[p] = "batch" /\ pend'[p] = Unmarked(chunks) /\ batch' = batch
    BY <1>2, <1>5 DEF SnapshotPending
  <2>2. Counted(p)'
    BY <2>1, UnmarkedFinite DEF Counted
  <2>3. Left(p)' = 4 * Cardinality(Unmarked(chunks)) + 1 /\ Left(p) = 4 * MaxId + 2
    BY <2>1, StepsLeftValues, SyncConstants DEF Left, EmbedSteps
  <2> QED
    BY <2>2, <2>3, UnmarkedFinite, SyncConstants
<1>6. CASE TakeBatch(p)
  <2>1. PICK b \in SUBSET pend[p] :
          b # {} /\ batch' = [batch EXCEPT ![p] = b] /\ pend' = [pend EXCEPT ![p] = @ \ b]
    BY <1>6 DEF TakeBatch
  <2>2. pc[p] = "batch" /\ pc'[p] = "upsert" /\ batch'[p] = b /\ pend'[p] = pend[p] \ b
    BY <1>2, <1>6, <2>1 DEF TakeBatch
  <2>3. IsFiniteSet(b) /\ IsFiniteSet(pend[p] \ b)
        /\ Cardinality(pend[p] \ b) = todo - Cardinality(pend[p] \cap b)
    BY <1>1, <2>1, FS_Subset, FS_Difference
  <2>4. Cardinality(pend[p] \ b) = todo - Cardinality(b)
    <3>1. pend[p] \cap b = b
      BY <2>1
    <3> QED
      BY <2>3, <3>1
  <2>5. Cardinality(b) \in Nat /\ Cardinality(b) > 0
    BY <2>1, <2>3, FS_EmptySet, FS_CardinalityType
  <2>6. /\ Left(p)' = 4 * Cardinality(pend[p] \ b) + Cardinality(b) + 3
        /\ Left(p) = 4 * todo + 1
    BY <2>2, StepsLeftValues DEF Left
  <2>7. Counted(p)'
    BY <2>1, <2>2, <2>3 DEF Counted
  <2> QED
    BY <1>1, <2>4, <2>5, <2>6, <2>7
<1>7. CASE OpenTable(p)
  <2>1. pc[p] = "upsert" /\ pc'[p] = "add" /\ UNCHANGED <<pend, batch>>
    BY <1>2, <1>7 DEF OpenTable, locals
  <2>2. Left(p)' = 4 * todo + taken + 2 /\ Left(p) = 4 * todo + taken + 3
    BY <2>1, StepsLeftValues DEF Left
  <2> QED
    BY <1>1, <2>1, <2>2 DEF Counted
<1>8. CASE Upsert(p)
  <2>1. pc[p] \in {"upsert", "add"} /\ pc'[p] = "mark" /\ UNCHANGED <<pend, batch>>
    BY <1>2, <1>8 DEF Upsert, locals
  <2>2. /\ Left(p)' = 4 * todo + taken + 1
        /\ Left(p) \in {4 * todo + taken + 2, 4 * todo + taken + 3}
    <3>1. CASE pc[p] = "upsert"
      BY <2>1, <3>1, StepsLeftValues DEF Left
    <3>2. CASE pc[p] = "add"
      BY <2>1, <3>2, StepsLeftValues DEF Left
    <3> QED
      BY <2>1, <3>1, <3>2
  <2> QED
    BY <1>1, <2>1, <2>2 DEF Counted
<1>9. CASE UpsertRejected(p)
  <2>1. Left(p) = 4 * todo + taken + 2
    BY <1>9, StepsLeftValues DEF UpsertRejected, Left
  <2>2. Forget(p) /\ pc'[p] = "idle"
    BY <1>2, <1>9 DEF UpsertRejected
  <2>3. Counted(p)' /\ Left(p)' = 0
    BY <2>2, ForgottenIsOver
  <2> QED
    BY <1>1, <2>1, <2>3
<1>10. CASE MarkOne(p)
  <2>1. PICK x \in batch[p] :
          /\ batch' = [batch EXCEPT ![p] = @ \ {x}]
          /\ pc' = [pc EXCEPT ![p] = IF batch[p] = {x} THEN "batch" ELSE "mark"]
    BY <1>10 DEF MarkOne
  <2>2. pc[p] = "mark" /\ batch'[p] = batch[p] \ {x} /\ pend' = pend
    BY <1>2, <1>10, <2>1 DEF MarkOne
  <2>3. IsFiniteSet(batch[p] \ {x}) /\ Cardinality(batch[p] \ {x}) = taken - 1
    BY <1>1, <2>1, FS_RemoveElement
  <2>4. Left(p) = 4 * todo + taken + 1
    BY <2>2, StepsLeftValues DEF Left
  <2>5. CASE batch[p] = {x}
    <3>1. pc'[p] = "batch" /\ Left(p)' = 4 * todo + 1
      BY <1>2, <2>1, <2>2, <2>5, StepsLeftValues DEF Left
    <3> QED
      BY <1>1, <1>3, <2>2, <2>3, <2>4, <3>1 DEF Counted
  <2>6. CASE batch[p] # {x}
    <3>1. pc'[p] = "mark" /\ Left(p)' = 4 * todo + (taken - 1) + 1 /\ batch'[p] # {}
      BY <1>2, <2>1, <2>2, <2>3, <2>6, StepsLeftValues DEF Left
    <3> QED
      BY <1>1, <2>2, <2>3, <2>4, <3>1 DEF Counted
  <2> QED
    BY <2>5, <2>6
<1>11. CASE Finish(p)
  <2>1. Left(p) = 4 * todo + 1
    BY <1>11, StepsLeftValues DEF Finish, Left
  <2>2. Forget(p) /\ pc'[p] = "done"
    BY <1>2, <1>11 DEF Finish
  <2>3. Counted(p)' /\ Left(p)' = 0
    BY <2>2, ForgottenIsOver
  <2> QED
    BY <1>1, <2>1, <2>3
<1> QED
  BY <1>4, <1>5, <1>6, <1>7, <1>8, <1>9, <1>10, <1>11 DEF EmbedPending

LEMMA StepGetsOn ==
  ASSUME TypeOK, IsFiniteSet(Files), NEW p \in Indexers, Counted(p), Step(p)
  PROVE  Counted(p)' /\ Left(p)' < Left(p)
BY PinStepsGetOn, IndexStepsGetOn, EmbedStepsGetOn DEF Step

LEMMA ProgressInit ==
  ASSUME IsFiniteSet(Files)
  PROVE  Init => ProgressInv
<1> SUFFICES ASSUME Init PROVE ProgressInv
  OBVIOUS
<1>1. OneWriter
  BY DEF Init, OneWriter, InTx
<1>2. ASSUME NEW p \in Indexers PROVE Counted(p) /\ Left(p) \in 0 .. LongestRun
  <2>1. pc[p] = "idle" /\ pend[p] = {} /\ batch[p] = {}
    BY DEF Init
  <2>2. LongestRun \in Nat
    BY SyncConstants, FS_CardinalityType DEF LongestRun, EmbedSteps
  <2>3. Left(p) = 0
    BY <2>1, StepsLeftValues DEF Left
  <2> QED
    BY <2>1, <2>2, <2>3, FS_EmptySet DEF Counted
<1> QED
  BY <1>1, <1>2, TypeInit DEF ProgressInv, RunsAreBounded

\* A step of one run moves another no further from its end.
LEMMA OthersKeepLeft ==
  ASSUME ProgressInv, NEW p \in Indexers, NEW q \in Indexers \ {p}, Start(q) \/ Step(q) \/ Abort(q)
  PROVE  Counted(p)' /\ Left(p)' = Left(p)
<1>1. /\ pc'[p] = pc[p] /\ job'[p] = job[p] /\ pend'[p] = pend[p] /\ batch'[p] = batch[p]
      /\ tx' = tx \/ InTx(q) \/ Unlocked
  BY Apart DEF ProgressInv
<1>2. Counted(p)'
  BY <1>1 DEF ProgressInv, Counted
<1>3. CASE InTx(p)
  <2>1. ~InTx(q) /\ ~Unlocked
    BY <1>3 DEF ProgressInv, OneWriter, Unlocked
  <2> QED
    BY <1>1, <1>2, <2>1 DEF Left
<1>4. CASE ~InTx(p)
  <2>1. pc[p] \in Points \cup {"idle", "done"} /\ pc[p] \notin {"write", "remove"}
    BY <1>4 DEF ProgressInv, TypeOK, InTx
  <2>2. Left(p)' = Left(p)
    BY <1>1, <2>1, StepsLeftValues DEF Left, Points
  <2> QED
    BY <1>2, <2>2
<1> QED
  BY <1>3, <1>4

\* A run that begins is as far from its end as any can be, one that dies is there.
LEMMA StartAndAbort ==
  ASSUME ProgressInv, NEW p \in Indexers
  PROVE  /\ Start(p) => Counted(p)' /\ Left(p)' = LongestRun
         /\ Abort(p) => Counted(p)' /\ Left(p)' = 0
<1>1. ASSUME Start(p) PROVE Counted(p)' /\ Left(p)' = LongestRun
  <2>1. pc'[p] = "load" /\ UNCHANGED <<pend, batch>>
    BY <1>1 DEF Start, Goto, ProgressInv, TypeOK
  <2> QED
    BY <2>1, StepsLeftValues DEF ProgressInv, Counted, Left, LongestRun
<1>2. ASSUME Abort(p) PROVE Counted(p)' /\ Left(p)' = 0
  <2>1. Forget(p) /\ pc'[p] = "idle" /\ TypeOK
    BY <1>2 DEF Abort, Goto, ProgressInv, TypeOK
  <2> QED
    BY <2>1, ForgottenIsOver
<1> QED
  BY <1>1, <1>2

LEMMA ProgressStep ==
  ASSUME IsFiniteSet(Files)
  PROVE  ProgressInv /\ [Next]_vars => ProgressInv'
<1> SUFFICES ASSUME ProgressInv, [Next]_vars PROVE ProgressInv'
  OBVIOUS
<1>1. TypeOK /\ TypeOK' /\ \A p \in Indexers : Counted(p)
  BY TypeStep DEF ProgressInv
<1>2. \A p \in Indexers : Left(p) \in Nat /\ LongestRun \in Nat /\ Left(p) <= LongestRun
  BY <1>1, LeftIsNat DEF ProgressInv, RunsAreBounded
<1>3. CASE UNCHANGED vars
  <2>1. UNCHANGED <<pc, job, pend, batch, tx>>
    BY <1>3 DEF vars, locals
  <2>2. OneWriter' /\ \A p \in Indexers : Counted(p)' /\ Left(p)' = Left(p)
    BY <2>1 DEF ProgressInv, OneWriter, InTx, Counted, Left
  <2> QED
    BY <1>1, <1>2, <2>2 DEF ProgressInv, RunsAreBounded, LongestRun
<1>4. ASSUME NEW q \in Indexers, Start(q) \/ Step(q) \/ Abort(q) PROVE ProgressInv'
  <2>1. OneWriter'
    <3>1. /\ \A p \in Indexers \ {q} : pc'[p] = pc[p]
          /\ InTx(q)' => InTx(q) \/ Unlocked
      BY <1>1, <1>4, Apart
    <3> QED
      BY <3>1 DEF ProgressInv, OneWriter, InTx, Unlocked
  <2>2. \A p \in Indexers \ {q} : Counted(p)' /\ Left(p)' = Left(p)
    BY <1>4, OthersKeepLeft
  <2>3. Counted(q)' /\ (Left(q)' < Left(q) \/ Left(q)' = Left(q) \/ Left(q)' = LongestRun
                        \/ Left(q)' = 0)
    BY <1>1, <1>4, StepGetsOn, StartAndAbort
  <2>4. Left(q)' \in 0 .. LongestRun
    <3>1. Left(q)' \in Nat
      <4>1. IsFiniteSet(pend'[q]) /\ IsFiniteSet(batch'[q]) /\ IsFiniteSet(Files \ tx'.written)
        BY <2>3, FS_Difference DEF Counted
      <4>2. /\ Cardinality(pend'[q]) \in Nat /\ Cardinality(batch'[q]) \in Nat
            /\ Cardinality(Files \ tx'.written) \in Nat /\ Cardinality(Files) \in Nat
        BY <4>1, FS_CardinalityType
      <4>3. EmbedSteps \in Nat /\ EmbedSteps >= 4
        BY SyncConstants DEF EmbedSteps
      <4>4. pc'[q] \in Points \cup {"idle", "done"}
        BY <1>1 DEF TypeOK
      <4> QED
        BY <4>2, <4>3, <4>4, StepsLeftValues DEF Left, Points
    <3> QED
      BY <1>2, <2>3, <3>1
  <2> QED
    BY <1>1, <1>2, <2>1, <2>2, <2>3, <2>4 DEF ProgressInv, RunsAreBounded, LongestRun
<1> QED
  BY <1>3, <1>4 DEF Next

LEMMA ProgressCorrect ==
  ASSUME IsFiniteSet(Files)
  PROVE  Spec => []ProgressInv
BY ProgressInit, ProgressStep, PTL DEF Spec

\* However many runs interleave and wherever they die, a run has at most
\* LongestRun steps left: four for each chunk id, one for each file and twelve.
THEOREM RunsAreBoundedCorrect ==
  ASSUME IsFiniteSet(Files)
  PROVE  Spec => []RunsAreBounded
<1>1. ProgressInv => RunsAreBounded
  BY DEF ProgressInv
<1> QED
  BY <1>1, ProgressCorrect, PTL

\* A run cannot go round in circles: each of its steps lowers the number of steps
\* it has left (index_project, the pin, embed_pending).
THEOREM RunsGetOnCorrect ==
  ASSUME IsFiniteSet(Files)
  PROVE  Spec => RunsGetOn
<1>1. ProgressInv /\ [Next]_vars =>
        [\A p \in Indexers : Step(p) => Left(p)' < Left(p)]_vars
  BY StepGetsOn DEF ProgressInv
<1> QED
  BY <1>1, ProgressCorrect, PTL DEF Spec, RunsGetOn

\* And no other run sends it back: while a run is under way no step of any run,
\* no start and no death takes it further from its end.
THEOREM RunsAreNotSetBackCorrect ==
  ASSUME IsFiniteSet(Files)
  PROVE  Spec => RunsAreNotSetBack
<1>1. ProgressInv /\ [Next]_vars => [\A p \in Indexers : ~Idle(p) => Left(p)' <= Left(p)]_vars
  <2> SUFFICES ASSUME ProgressInv, NEW q \in Indexers, Start(q) \/ Step(q) \/ Abort(q),
                      [Next]_vars, NEW p \in Indexers, ~Idle(p)
               PROVE  Left(p)' <= Left(p)
    BY DEF Next
  <2>1. Left(p) \in Nat /\ TypeOK /\ Counted(p)
    BY LeftIsNat DEF ProgressInv
  <2>2. CASE p # q
    BY <2>1, <2>2, OthersKeepLeft
  <2>3. CASE p = q
    <3>1. ~Start(p)
      BY DEF Start
    <3>2. Abort(p) => Left(p)' <= Left(p)
      BY <2>1, StartAndAbort
    <3>3. ASSUME Step(p) PROVE Left(p)' <= Left(p)
      <4>1. Left(p)' < Left(p) \/ Left(p)' = Left(p)
        BY <2>1, <3>3, StepGetsOn
      <4>2. Left(p)' \in Nat
        BY ProgressStep DEF ProgressInv, RunsAreBounded
      <4> QED
        BY <2>1, <4>1, <4>2
    <3> QED
      BY <2>3, <3>1, <3>2, <3>3
  <2> QED
    BY <2>2, <2>3
<1> QED
  BY <1>1, ProgressCorrect, PTL DEF Spec, RunsAreNotSetBack

\* No run stops short of its end: the embedding loop ends or has a batch to take, a
\* batch being marked has a chunk left to mark, and the write lock a run waits for
\* is held by one run, which can always commit.
THEOREM NoRunIsStuckCorrect ==
  ASSUME IsFiniteSet(Files)
  PROVE  Spec => []NoRunIsStuck
<1>1. ProgressInv => NoRunIsStuck
  BY BatchIsThere DEF ProgressInv, Counted, OneWriter, NoRunIsStuck, At
<1> QED
  BY <1>1, ProgressCorrect, PTL
=============================================================================
