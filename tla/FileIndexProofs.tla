--------------------------- MODULE FileIndexProofs ---------------------------
(***************************************************************************)
(* For any number of files and any changes the user makes meanwhile, in    *)
(* five parts:                                                             *)
(*  - the files table is current after every run.  A row's size and mtime  *)
(*    were read before its content: if a file still has them, and no two   *)
(*    saves share them, it has not changed since, so the content, the      *)
(*    row's, is the file's;                                                *)
(*  - types;                                                               *)
(*  - a run over an unchanged tree writes nothing, and one that fails has  *)
(*    a reason;                                                            *)
(*  - file summaries are made of the files' present contents, and          *)
(*  - the digest is that of the files table, both as long as no content    *)
(*    comes back: a summary that is out of date then stays so, because the *)
(*    contents of a file and of its row only go up.                        *)
(***************************************************************************)
EXTENDS FileIndex, FiniteSetTheorems, TLAPS

\* What a user's file and the row of a file look like.
DiskOK ==
  /\ edits \in Nat
  /\ disk \in [Files -> Entry \cup {None}]
  /\ \A f \in Files : disk[f] # None => disk[f].stamp <= edits

\* A row under a stamp the file still has holds the file's content, unless stamps
\* come twice.
Honest(f, row) ==
  /\ row \in Row /\ row.stamp <= edits
  /\ ~Coarse /\ disk[f] # None /\ disk[f].stamp = row.stamp => disk[f].content = row.hash

RowsHonest ==
  /\ files \in [Files -> Row \cup {None}]
  /\ \A f \in Files : files[f] # None => Honest(f, files[f])

\* What the walk saw of a file it has visited, if the file is quiet, is so.
Seen(f) == IF disk[f] = None \/ disk[f].kind = "large" THEN None ELSE disk[f].stamp

FoundHonest ==
  /\ found \in [Files -> Nat \cup {None}]
  /\ \A f \in Files : found[f] # None => found[f] <= edits
  /\ At("classify") => \A f \in todo : f \in Files /\ found[f] # None
  /\ pc \in {"walk", "classify"} =>
       \A f \in quiet : At("classify") \/ f \notin todo => found[f] = Seen(f)

\* A classified file has a new row made of what was read after the walk, or
\* needs none.
WorkHonest ==
  /\ work \in [Files -> Row \cup {None}]
  /\ ~At("classify") => work = Nothing
  /\ \A f \in Files : work[f] # None => work[f].stamp = found[f] /\ Honest(f, work[f])
  /\ At("classify") =>
       \A f \in quiet : disk[f] # None /\ disk[f].kind = "text" /\ f \notin todo =>
         work[f] # None \/ Unchanged(f)

IndexInv ==
  /\ quiet \subseteq Files
  /\ DiskOK /\ RowsHonest /\ FoundHonest /\ WorkHonest
  /\ ~Coarse => IndexCurrent

LEMMA IndexInit == Init => IndexInv
BY IndexConstants
   DEF Init, IndexInv, DiskOK, RowsHonest, FoundHonest, WorkHonest, IndexCurrent,
       Nothing, Committed, At

\* The user's step: the file leaves quiet, and its new stamp is nobody's, unless
\* stamps come twice.
LEMMA UserStep ==
  ASSUME IndexInv, NEW f \in Files, NEW entry, Changed(f, entry),
         entry # None => /\ entry \in Entry /\ entry.stamp <= edits + 1
                         /\ Coarse \/ entry.stamp = edits + 1
  PROVE  IndexInv'
<1> USE IndexConstants DEF At
<1>1. /\ edits' = edits + 1 /\ edits \in Nat /\ edits' \in Nat
      /\ quiet' = quiet \ {f}
      /\ disk' = [disk EXCEPT ![f] = entry]
      /\ UNCHANGED <<files, pc, todo, found, work>>
  BY DEF IndexInv, DiskOK, Changed, tables, locals
<1>2. DiskOK'
  BY <1>1 DEF IndexInv, DiskOK, Entry
<1>3. \A g \in Files : g # f => disk'[g] = disk[g]
  BY <1>1 DEF IndexInv, DiskOK
<1>4. disk'[f] = entry
  BY <1>1 DEF IndexInv, DiskOK
<1>5. ASSUME NEW g \in Files, NEW row, Honest(g, row) PROVE Honest(g, row)'
  <2>1. row \in Row /\ row.stamp <= edits'
    BY <1>1, <1>5 DEF Honest, Row
  <2>2. CASE g = f
    BY <1>1, <1>4, <2>1, <2>2, <1>5 DEF Honest, Row
  <2>3. CASE g # f
    BY <1>3, <2>1, <2>3, <1>5 DEF Honest
  <2> QED
    BY <2>2, <2>3
<1>6. RowsHonest'
  BY <1>1, <1>5 DEF IndexInv, RowsHonest
<1>7. FoundHonest'
  <2>1. \A g \in Files : found[g] # None => found[g] <= edits'
    BY <1>1 DEF IndexInv, FoundHonest
  <2>2. \A g \in quiet' : Seen(g)' = Seen(g)
    BY <1>1, <1>3 DEF Seen, IndexInv
  <2> QED
    BY <1>1, <2>1, <2>2 DEF IndexInv, FoundHonest
<1>8. WorkHonest'
  BY <1>1, <1>3, <1>5 DEF IndexInv, WorkHonest, Unchanged
<1>9. (~Coarse => IndexCurrent)'
  BY <1>1, <1>3 DEF IndexInv, IndexCurrent, Committed
<1> QED
  BY <1>1, <1>2, <1>6, <1>7, <1>8, <1>9 DEF IndexInv

\* Steps that touch neither files nor what the index keeps of them.
LEMMA OtherStep ==
  ASSUME IndexInv, UNCHANGED <<disk, edits, files, found, work, quiet>>,
         \/ pc' = pc /\ (pc \in {"walk", "classify"} => todo' = todo)
         \/ Committed /\ Committed'
  PROVE  IndexInv'
BY DEF IndexInv, DiskOK, RowsHonest, FoundHonest, WorkHonest, IndexCurrent,
       Honest, Seen, Unchanged, Committed, At

\* A run that stops.
LEMMA StopStep ==
  ASSUME IndexInv, Forget, UNCHANGED <<disk, edits, files>>,
         \/ pc' \in {"failed", "killed"} /\ quiet' = {}
         \/ At("finish") /\ pc' = "done" /\ UNCHANGED quiet
  PROVE  IndexInv'
BY IndexConstants
   DEF Forget, IndexInv, DiskOK, RowsHonest, FoundHonest, WorkHonest, IndexCurrent,
       Honest, Nothing, Committed, At

LEMMA WalkStep ==
  ASSUME IndexInv, NEW f \in Files, Walk(f)
  PROVE  IndexInv'
<1> USE IndexConstants DEF At
<1>1. /\ UNCHANGED <<disk, edits, files, quiet, pc, work>>
      /\ pc = "walk" /\ todo' = todo \ {f}
      /\ found' = [found EXCEPT ![f] = Seen(f)]
  BY DEF Walk, uninvolved, tables, Seen
<1>2. Seen(f) \in Nat \cup {None} /\ (Seen(f) # None => Seen(f) <= edits)
  BY DEF Seen, IndexInv, DiskOK, Entry
<1>3. FoundHonest'
  <2>1. \A g \in Files : Seen(g)' = Seen(g)
    BY <1>1 DEF Seen
  <2> QED
    BY <1>1, <1>2, <2>1 DEF IndexInv, FoundHonest
<1>4. WorkHonest'
  BY <1>1 DEF IndexInv, WorkHonest, Nothing
<1> QED
  BY <1>1, <1>3, <1>4
     DEF IndexInv, DiskOK, RowsHonest, Honest, IndexCurrent, Committed

LEMMA EndWalkStep ==
  ASSUME IndexInv, EndWalk
  PROVE  IndexInv'
<1> USE IndexConstants DEF At
<1>1. /\ UNCHANGED <<disk, edits, files, quiet, found, work>>
      /\ pc = "walk" /\ pc' = "classify" /\ todo = {} /\ work = Nothing
      /\ todo' = {f \in Files : found[f] # None}
  BY DEF EndWalk, uninvolved, tables, IndexInv, WorkHonest
<1>2. FoundHonest'
  BY <1>1 DEF IndexInv, FoundHonest, Seen
<1>3. \A f \in quiet : disk[f] # None /\ disk[f].kind = "text" => f \in todo'
  BY <1>1 DEF IndexInv, FoundHonest, Seen, DiskOK, Entry
<1>4. WorkHonest'
  BY <1>1, <1>3 DEF IndexInv, WorkHonest, Nothing
<1> QED
  BY <1>1, <1>2, <1>4
     DEF IndexInv, DiskOK, RowsHonest, Honest, IndexCurrent, Committed

LEMMA ClassifyStep ==
  ASSUME IndexInv, NEW f \in Files, Classify(f)
  PROVE  IndexInv'
<1> USE IndexConstants DEF At
<1>1. CASE ~Unchanged(f) /\ disk[f] = None
  BY <1>1, StopStep DEF Classify, Fail, tables
<1>2. CASE ~(~Unchanged(f) /\ disk[f] = None)
  <2> DEFINE new == IF Unchanged(f) \/ ~IsText(f) THEN None
                    ELSE [hash |-> disk[f].content, stamp |-> found[f]]
  <2>1. /\ UNCHANGED <<disk, edits, files, quiet, pc, found>>
        /\ pc = "classify" /\ f \in todo /\ todo' = todo \ {f}
        /\ work' = [work EXCEPT ![f] = new]
    BY <1>2 DEF Classify, tables
  <2> HIDE DEF new
  <2>2. found[f] \in Nat /\ found[f] <= edits
    BY <2>1 DEF IndexInv, FoundHonest
  <2>3. new # None => new \in Row /\ new.stamp = found[f] /\ Honest(f, new)
    <3>1. SUFFICES ASSUME new # None PROVE new \in Row /\ new.stamp = found[f] /\ Honest(f, new)
      OBVIOUS
    <3>2. disk[f] # None /\ new = [hash |-> disk[f].content, stamp |-> found[f]]
      BY <1>2, <3>1 DEF new
    <3>3. disk[f].content \in Nat
      BY <3>2 DEF IndexInv, DiskOK, Entry
    <3> QED
      BY <2>2, <3>2, <3>3 DEF Honest, Row
  <2>4. disk[f] # None /\ disk[f].kind = "text" => new # None \/ Unchanged(f)
    <3>1. SUFFICES ASSUME disk[f] # None, disk[f].kind = "text", ~Unchanged(f)
                   PROVE  new # None
      OBVIOUS
    <3>2. new = [hash |-> disk[f].content, stamp |-> found[f]]
      BY <3>1 DEF new, IsText
    <3>3. new \in Row
      BY <2>2, <3>1, <3>2 DEF IndexInv, DiskOK, Entry, Row
    <3> QED
      BY <3>3
  <2>5. WorkHonest'
    BY <2>1, <2>3, <2>4 DEF IndexInv, WorkHonest, Honest, Unchanged
  <2>6. FoundHonest'
    BY <2>1 DEF IndexInv, FoundHonest, Seen
  <2> QED
    BY <2>1, <2>5, <2>6 DEF IndexInv, DiskOK, RowsHonest, Honest, IndexCurrent, Committed
<1> QED
  BY <1>1, <1>2

LEMMA CommitStep ==
  ASSUME IndexInv, Commit
  PROVE  IndexInv'
<1> USE IndexConstants DEF At
<1>1. /\ UNCHANGED <<disk, edits, quiet, todo>>
      /\ pc = "classify" /\ todo = {} /\ pc' = "prunefiles"
      /\ found' = Nothing /\ work' = Nothing
      /\ files' = [f \in Files |-> NewRow(f)]
  BY DEF Commit, uninvolved
<1>2. ASSUME NEW f \in Files
      PROVE  NewRow(f) \in Row \cup {None} /\ (NewRow(f) # None => Honest(f, NewRow(f)))
  BY <1>2 DEF NewRow, IndexInv, RowsHonest, WorkHonest
<1>3. RowsHonest'
  BY <1>1, <1>2 DEF RowsHonest, Honest
<1>4. (~Coarse => IndexCurrent)'
  <2>1. SUFFICES ASSUME ~Coarse, NEW f \in quiet
                 PROVE  /\ disk[f] = None \/ disk[f].kind = "large" => NewRow(f) = None
                        /\ disk[f] # None /\ disk[f].kind = "text" =>
                             NewRow(f) # None /\ NewRow(f).hash = disk[f].content
    BY <1>1 DEF IndexCurrent, IndexInv
  <2>2. f \in Files /\ found[f] = Seen(f)
    BY <1>1, <2>1 DEF IndexInv, FoundHonest
  <2>3. CASE disk[f] = None \/ disk[f].kind = "large"
    <3>1. disk[f] # None => disk[f].kind # "text"
      BY <2>3
    <3> QED
      BY <2>2, <2>3, <3>1 DEF NewRow, Seen
  <2>4. CASE disk[f] # None /\ disk[f].kind = "text"
    <3>1. found[f] = disk[f].stamp /\ found[f] # None
      BY <2>2, <2>4 DEF Seen, IndexInv, DiskOK, Entry
    <3>2. work[f] # None \/ Unchanged(f)
      BY <1>1, <2>4 DEF IndexInv, WorkHonest
    <3>3. NewRow(f) # None /\ NewRow(f).stamp = found[f]
      BY <2>2, <3>1, <3>2 DEF NewRow, Unchanged, IndexInv, WorkHonest
    <3> QED
      BY <1>2, <2>1, <2>2, <2>4, <3>1, <3>3 DEF Honest
  <2>5. CASE disk[f] # None /\ disk[f].kind \notin {"text", "large"}
    BY <2>5
  <2> QED
    BY <2>3, <2>4, <2>5
<1>5. FoundHonest' /\ WorkHonest'
  BY <1>1 DEF FoundHonest, WorkHonest, Nothing
<1> QED
  BY <1>1, <1>3, <1>4, <1>5 DEF IndexInv, DiskOK

LEMMA StartStep ==
  ASSUME IndexInv, Start
  PROVE  IndexInv'
<1> USE IndexConstants DEF At
<1>1. /\ UNCHANGED <<disk, edits, files, found, work>>
      /\ pc' = "walk" /\ todo' = Files /\ quiet' = Files
      /\ pc # "classify"
  BY DEF Start, tables
<1>2. WorkHonest' /\ FoundHonest'
  BY <1>1 DEF IndexInv, WorkHonest, FoundHonest, Honest
<1> QED
  BY <1>1, <1>2
     DEF IndexInv, DiskOK, RowsHonest, Honest, IndexCurrent, Committed

LEMMA SummarizeStep ==
  ASSUME IndexInv, NEW f \in Files, Summarize(f)
  PROVE  IndexInv'
<1>1. CASE Unreadable(f) /\ Fail /\ UNCHANGED sums
  BY <1>1, StopStep DEF Summarize, Fail
<1>2. CASE UNCHANGED <<pc, found, work, quiet>>
  BY <1>2, OtherStep DEF Summarize, At
<1> QED
  BY <1>1, <1>2 DEF Summarize

LEMMA IndexStep == IndexInv /\ [Next]_vars => IndexInv'
<1> SUFFICES ASSUME IndexInv, [Next]_vars PROVE IndexInv'
  OBVIOUS
<1> USE DEF At, uninvolved, tables, locals
<1>1. ASSUME NEW f \in Files, Save(f) PROVE IndexInv'
  <2>1. PICK k \in Kinds, c \in IF Repeats THEN 1 .. edits + 1 ELSE {edits + 1},
             n \in 1 .. edits + 1 :
          (Coarse \/ n = edits + 1) /\ Changed(f, [content |-> c, kind |-> k, stamp |-> n])
    BY <1>1 DEF Save, Stamps
  <2>2. n \in 1 .. edits + 1 /\ (Coarse \/ n = edits + 1)
    BY <2>1
  <2>3. [content |-> c, kind |-> k, stamp |-> n] \in Entry
    BY <2>1, <2>2 DEF IndexInv, DiskOK, Entry
  <2>4. n <= edits + 1
    BY <2>2 DEF IndexInv, DiskOK
  <2> QED
    BY <2>1, <2>2, <2>3, <2>4, UserStep
<1>2. ASSUME NEW f \in Files, Touch(f) PROVE IndexInv'
  <2>1. [disk[f] EXCEPT !.stamp = edits + 1] \in Entry
    BY <1>2 DEF Touch, IndexInv, DiskOK, Entry
  <2>2. /\ [disk[f] EXCEPT !.stamp = edits + 1].stamp = edits + 1
        /\ edits + 1 <= edits + 1
    BY <1>2 DEF Touch, IndexInv, DiskOK, Entry
  <2> QED
    BY <1>2, <2>1, <2>2, UserStep DEF Touch
<1>3. ASSUME NEW f \in Files, Delete(f) PROVE IndexInv'
  BY <1>3, UserStep DEF Delete
<1>4. CASE Start
  BY <1>4, StartStep
<1>5. ASSUME NEW f \in Files, Walk(f) PROVE IndexInv'
  BY <1>5, WalkStep
<1>6. CASE EndWalk
  BY <1>6, EndWalkStep
<1>7. ASSUME NEW f \in Files, Classify(f) PROVE IndexInv'
  BY <1>7, ClassifyStep
<1>8. CASE Commit
  BY <1>8, CommitStep
<1>9. CASE PruneFiles \/ PruneModules
  BY <1>9, OtherStep DEF PruneFiles, PruneModules, Prune, Committed
<1>10. ASSUME NEW f \in Files, Summarize(f) PROVE IndexInv'
  BY <1>10, SummarizeStep
<1>11. CASE EndFiles
  BY <1>11, OtherStep DEF EndFiles, Committed
<1>12. ASSUME NEW m \in Modules, SyncModule(m) PROVE IndexInv'
  BY <1>12, OtherStep DEF SyncModule
<1>13. CASE SyncProject
  BY <1>13, OtherStep DEF SyncProject, Committed
<1>14. CASE Mirror
  BY <1>14, OtherStep DEF Mirror
<1>15. CASE Finish
  BY <1>15, StopStep DEF Finish
<1>16. CASE Abort
  BY <1>16, StopStep DEF Abort
<1>17. CASE UNCHANGED vars
  BY <1>17, OtherStep DEF vars
<1> QED
  BY <1>1, <1>2, <1>3, <1>4, <1>5, <1>6, <1>7, <1>8, <1>9, <1>10, <1>11, <1>12,
     <1>13, <1>14, <1>15, <1>16, <1>17 DEF Next, Step

\* Whatever the user does while runs follow one another, each dying anywhere:
\* from its commit on, the table holds the present content of every text file
\* left alone since the run began, as long as no two saves of one size fall into
\* one second.
THEOREM IndexCurrentCorrect ==
  ASSUME ~Coarse
  PROVE  Spec => []IndexCurrent
<1>1. IndexInv => IndexCurrent
  BY DEF IndexInv
<1> QED
  BY IndexInit, IndexStep, <1>1, PTL DEF Spec

-----------------------------------------------------------------------------
(* The lists in path order.                                                 *)

LEMMA Placed ==
  ASSUME NEW f \in Files
  PROVE  Place(f) \in 1 .. Len(Order) /\ Order[Place(f)] = f
<1>1. DOMAIN Order = 1 .. Len(Order)
  BY IndexConstants
<1> QED
  BY <1>1 DEF Files, Place

LEMMA FilesFinite == ASSUME NEW S \in SUBSET Files PROVE IsFiniteSet(S)
<1>1. IsFiniteSet(1 .. Len(Order))
  BY FS_Interval, IndexConstants
<1>2. Order \in Surjection(1 .. Len(Order), Files)
  BY IndexConstants DEF Surjection, Files
<1>3. IsFiniteSet(Files)
  BY <1>1, <1>2, FS_Surjection
<1> QED
  BY <1>3, FS_Subset

\* No two of a set have the same rank in it.
LEMMA RankGrows ==
  ASSUME NEW S \in SUBSET Files, NEW f \in S, NEW g \in S, Place(f) < Place(g)
  PROVE  Rank(f, S) < Rank(g, S)
<1> DEFINE Upto(h) == {x \in S : Place(x) <= Place(h)}
<1>1. \A x \in S : Place(x) \in Nat
  BY Placed
<1>2. Upto(f) \subseteq Upto(g) /\ g \in Upto(g) /\ g \notin Upto(f)
  BY <1>1
<1>3. IsFiniteSet(Upto(f)) /\ IsFiniteSet(Upto(g))
  BY FilesFinite
<1>4. Cardinality(Upto(f)) <= Cardinality(Upto(g)) /\ Cardinality(Upto(f)) # Cardinality(Upto(g))
  BY <1>2, <1>3, FS_Subset
<1>5. Cardinality(Upto(f)) \in Nat /\ Cardinality(Upto(g)) \in Nat
  BY <1>3, FS_CardinalityType
<1> QED
  BY <1>4, <1>5 DEF Rank

LEMMA RankIsOnto ==
  ASSUME NEW S \in SUBSET Files
  PROVE  /\ Cardinality(S) \in Nat
         /\ \A f \in S : Rank(f, S) \in 1 .. Cardinality(S)
         /\ \A f, g \in S : Rank(f, S) = Rank(g, S) => f = g
         /\ \A i \in 1 .. Cardinality(S) : \E f \in S : Rank(f, S) = i
<1> DEFINE r == [f \in S |-> Rank(f, S)]
           N == 1 .. Cardinality(S)
<1>1. IsFiniteSet(S) /\ Cardinality(S) \in Nat
  BY FilesFinite, FS_CardinalityType
<1>2. IsFiniteSet(N) /\ Cardinality(N) = Cardinality(S)
  BY <1>1, FS_Interval
<1>3. ASSUME NEW f \in S PROVE Rank(f, S) \in 1 .. Cardinality(S)
  <2> DEFINE T == {x \in S : Place(x) <= Place(f)}
  <2>1. IsFiniteSet(T) /\ Cardinality(T) <= Cardinality(S) /\ Cardinality(T) \in Nat
    BY <1>1, FS_Subset, FS_CardinalityType
  <2>2. f \in T
    BY Placed
  <2>3. Cardinality(T) # 0
    BY <2>1, <2>2, FS_EmptySet
  <2> QED
    BY <1>1, <2>1, <2>3 DEF Rank
<1>4. ASSUME NEW f \in S, NEW g \in S, Rank(f, S) = Rank(g, S) PROVE f = g
  <2>1. Place(f) \in Nat /\ Place(g) \in Nat /\ Order[Place(f)] = f /\ Order[Place(g)] = g
    BY Placed
  <2>2. ~(Place(f) < Place(g)) /\ ~(Place(g) < Place(f))
    BY <1>1, <1>3, <1>4, RankGrows
  <2> QED
    BY <2>1, <2>2
<1>5. r \in Injection(S, N)
  BY <1>3, <1>4 DEF Injection, IsInjective
<1>6. r \in Surjection(S, N)
  BY <1>2, <1>5, FS_Injection
<1> QED
  BY <1>1, <1>3, <1>4, <1>6 DEF Surjection

\* A list in path order has each member of its set, and nothing else.
LEMMA SortedLists ==
  ASSUME NEW S \in SUBSET Files
  PROVE  /\ Sorted(S) \in Seq(S) /\ DOMAIN Sorted(S) = 1 .. Len(Sorted(S))
         /\ \A i \in DOMAIN Sorted(S) : Sorted(S)[i] \in S
         /\ \A f \in S : \E i \in DOMAIN Sorted(S) : Sorted(S)[i] = f
<1>1. DOMAIN Sorted(S) = 1 .. Cardinality(S) /\ Cardinality(S) \in Nat
  BY RankIsOnto DEF Sorted
<1>2. \A i \in DOMAIN Sorted(S) : Sorted(S)[i] \in S
  BY RankIsOnto DEF Sorted
<1>3. ASSUME NEW f \in S PROVE \E i \in DOMAIN Sorted(S) : Sorted(S)[i] = f
  <2>1. Rank(f, S) \in 1 .. Cardinality(S)
    BY RankIsOnto
  <2>2. Sorted(S)[Rank(f, S)] = f
    BY <2>1, RankIsOnto DEF Sorted
  <2> QED
    BY <1>1, <2>1, <2>2
<1>4. Sorted(S) \in [1 .. Cardinality(S) -> S]
  BY <1>1, <1>2 DEF Sorted
<1> QED
  BY <1>1, <1>2, <1>3, <1>4

-----------------------------------------------------------------------------
(* A tree that an earlier run has indexed and that has rested since: the    *)
(* next run finds nothing to write.                                         *)

Rows        == {f \in Files : files[f] # None}
Undisturbed == quiet = Files

\* The row of a file is the one a run over the present tree would leave.
Settled(f) ==
  /\ disk[f] = None \/ disk[f].kind = "large" => files[f] = None
  /\ disk[f] # None /\ disk[f].kind = "text" =>
       files[f] # None /\ files[f].stamp = disk[f].stamp

Summing == pc \in {"files", "prunemodules", "modules", "finish"}

\* From the pruning of the file summaries on, none is left without its row.
FilesPruned == Summing => \A f \in Files \ Rows : sums[FileT(f)] = None

\* The loop over the rows: those behind it are listed, up to date, and all
\* there are once it is through, unless the user took one away.
FilesListed ==
  /\ listed \subseteq Rows
  /\ pc \notin {"files", "prunemodules", "modules", "finish"} => listed = {}
  /\ \A f \in listed : Kept(f)
  /\ At("files") => todo \subseteq Rows /\ (Undisturbed => Rows \subseteq todo \cup listed)
  /\ pc \in {"prunemodules", "modules", "finish"} /\ Undisturbed => Rows \subseteq listed

\* The loop over the modules.
ModulesListed ==
  /\ pc \in {"modules", "finish"} =>
       /\ \A m \in Modules \ Digested : sums[ModuleT(m)] = None
       /\ todo \subseteq Digested
       /\ \A m \in Digested \ todo : Up(ModuleT(m), Hashes(In(m, listed)))
  /\ At("finish") => todo = {} /\ Up(ProjectT, Hashes(listed))

\* What a successful run over a resting tree leaves, and the next one finds.
AtRest ==
  rest =>
    /\ \A f \in Files : Settled(f)
    /\ \A f \in Files : IF f \in Rows THEN Kept(f) ELSE sums[FileT(f)] = None
    /\ \A m \in Modules : IF In(m, Rows) = {} THEN sums[ModuleT(m)] = None
                           ELSE Up(ModuleT(m), Hashes(In(m, Rows)))
    /\ Up(ProjectT, Hashes(Rows))
    /\ target = None
    /\ Running => Undisturbed
    /\ work = Nothing

\* What a run has stored last and not mirrored yet is there.
Pending ==
  target # None => pc \in {"files", "modules", "finish"} /\ sums[target] # None

Sound ==
  /\ IndexInv /\ TypeOK /\ Pending
  /\ sums = [t \in Targets |-> sums[t]] /\ mirror = [t \in Targets |-> mirror[t]]

RestInv ==
  /\ Sound
  /\ Undisturbed /\ Committed => \A f \in Files : Settled(f)
  /\ FilesPruned /\ FilesListed /\ ModulesListed /\ AtRest

\* The names of the summaries are their own.
LEMMA TargetNames ==
  /\ ProjectT \in Targets
  /\ \A f \in Files : FileT(f) \in Targets /\ FileT(f) # ProjectT
  /\ \A m \in Modules : ModuleT(m) \in Targets /\ ModuleT(m) # ProjectT
  /\ \A f, g \in Files : FileT(f) = FileT(g) => f = g
  /\ \A m, n \in Modules : ModuleT(m) = ModuleT(n) => m = n
  /\ \A f \in Files, m \in Modules : FileT(f) # ModuleT(m)
BY DEF Targets, FileT, ModuleT, ProjectT

\* The hashes of a set of files are read off the rows alone.
LEMMA SameHashes ==
  ASSUME UNCHANGED files
  PROVE  \A S : Hashes(S)' = Hashes(S)
BY DEF Hashes

\* A summary that no step writes is as current as it was.
LEMMA SameUp ==
  ASSUME NEW t, sums'[t] = sums[t]
  PROVE  \A source : Up(t, source)' = Up(t, source)
BY DEF Up

LEMMA ListedFiles ==
  ASSUME RestInv
  PROVE  listed \subseteq Files /\ Digested \subseteq Modules
BY DEF RestInv, FilesListed, Rows, Digested, Modules

LEMMA RestInit == Init => RestInv
<1> SUFFICES ASSUME Init PROVE RestInv
  OBVIOUS
<1>1. IndexInv
  BY IndexInit
<1>2. TypeOK
  <2>1. \A t \in Targets : sums[t] = None /\ mirror[t] = None
    BY DEF Init
  <2>2. /\ \A f \in Files   : sums[FileT(f)] = None /\ mirror[FileT(f)] = None
        /\ \A m \in Modules : sums[ModuleT(m)] = None
        /\ sums[ProjectT] = None
    BY <2>1, TargetNames
  <2>3. edits \in 0 .. MaxEdits
    BY IndexConstants DEF Init
  <2> QED
    BY <2>2, <2>3 DEF Init, TypeOK, Nothing
<1>3. Sound
  BY <1>1, <1>2 DEF Init, Sound, Pending
<1> QED
  BY <1>3
     DEF Init, RestInv, Undisturbed, Committed, FilesPruned, FilesListed, ModulesListed,
         AtRest, Summing, At

\* A change of the user's ends every claim to a rested tree.
LEMMA RestUser ==
  ASSUME RestInv, Sound', NEW f \in Files, NEW entry, Changed(f, entry)
  PROVE  RestInv'
<1>1. ~Undisturbed' /\ rest' = FALSE /\ UNCHANGED <<files, sums, pc, todo, listed>>
  BY DEF Changed, Undisturbed, tables, locals
<1>2. \A g \in Files : Kept(g)' = Kept(g)
  BY <1>1 DEF Kept, Up
<1>3. \A m \in Modules : Up(ModuleT(m), Hashes(In(m, listed)))' = Up(ModuleT(m), Hashes(In(m, listed)))
  BY <1>1, SameHashes DEF Up, In
<1>4. Up(ProjectT, Hashes(listed))' = Up(ProjectT, Hashes(listed))
  BY <1>1, SameHashes DEF Up
<1>5. FilesPruned' /\ FilesListed'
  BY <1>1, <1>2 DEF RestInv, FilesPruned, FilesListed, Rows, Summing, At
<1>6. ModulesListed'
  BY <1>1, <1>3, <1>4, ListedFiles DEF RestInv, ModulesListed, Digested, At
<1> QED
  BY <1>1, <1>5, <1>6 DEF RestInv, AtRest

\* A step outside the summaries that leaves the tables and the tree alone.
LEMMA RestBefore ==
  ASSUME RestInv, Sound', UNCHANGED <<disk, tables, rest, listed>>,
         ~Summing, ~Summing', ~Committed', listed = {},
         rest => target' = None /\ work' = Nothing,
         rest /\ Running' => Undisturbed'
  PROVE  RestInv'
<1> USE DEF tables
<1>1. \A S : Hashes(S)' = Hashes(S)
  BY SameHashes
<1>2. AtRest'
  <2>1. \A m \in Modules : Up(ModuleT(m), Hashes(In(m, Rows)))' = Up(ModuleT(m), Hashes(In(m, Rows)))
    BY <1>1 DEF Up, In, Rows
  <2>2. Up(ProjectT, Hashes(Rows))' = Up(ProjectT, Hashes(Rows))
    BY <1>1 DEF Up, Rows
  <2>3. \A f \in Files : Settled(f)' = Settled(f) /\ Kept(f)' = Kept(f)
    BY DEF Settled, Kept, Up
  <2> QED
    BY <2>1, <2>2, <2>3 DEF RestInv, AtRest, Rows, In
<1>3. FilesPruned' /\ FilesListed' /\ ModulesListed'
  BY DEF Summing, FilesPruned, FilesListed, ModulesListed, At
<1> QED
  BY <1>2, <1>3 DEF RestInv

LEMMA RestStop ==
  ASSUME RestInv, Sound', Forget, UNCHANGED <<disk, tables, rest>>,
         pc' \in {"failed", "killed"}
  PROVE  RestInv'
<1> USE DEF tables, Forget
<1>1. \A S : Hashes(S)' = Hashes(S)
  BY SameHashes
<1>2. AtRest'
  <2>1. \A m \in Modules : Up(ModuleT(m), Hashes(In(m, Rows)))' = Up(ModuleT(m), Hashes(In(m, Rows)))
    BY <1>1 DEF Up, In, Rows
  <2>2. Up(ProjectT, Hashes(Rows))' = Up(ProjectT, Hashes(Rows))
    BY <1>1 DEF Up, Rows
  <2>3. \A f \in Files : Settled(f)' = Settled(f) /\ Kept(f)' = Kept(f)
    BY DEF Settled, Kept, Up
  <2>4. ~Running' /\ work' = Nothing /\ target' = None
    BY DEF Running
  <2> QED
    BY <2>1, <2>2, <2>3, <2>4 DEF RestInv, AtRest, Rows, In
<1>3. FilesPruned' /\ FilesListed' /\ ModulesListed' /\ ~Committed'
  BY DEF Summing, FilesPruned, FilesListed, ModulesListed, Committed, At
<1> QED
  BY <1>2, <1>3 DEF RestInv

\* The steps of a run before it prunes.  At rest none of them finds a new row.
LEMMA RestWalks ==
  ASSUME RestInv, Sound',
         \/ Start \/ EndWalk
         \/ \E f \in Files : Walk(f) \/ (Classify(f) /\ ~Fail)
  PROVE  RestInv'
<1>1. /\ UNCHANGED <<disk, tables, rest, listed, target>>
      /\ ~Summing /\ ~Summing' /\ ~Committed'
  BY DEF Start, EndWalk, Walk, Classify, uninvolved, Summing, Committed, At
<1>2. listed = {}
  BY <1>1 DEF RestInv, FilesListed, Summing
<1>3. rest => target' = None
  BY <1>1 DEF RestInv, AtRest
<1>4. rest /\ Running' => Undisturbed'
  BY DEF RestInv, AtRest, Running, Undisturbed, Start, EndWalk, Walk, Classify, uninvolved, At
<1>5. rest => work' = Nothing
  <2>1. ASSUME NEW f \in Files, Classify(f), ~Fail, rest PROVE work' = Nothing
    <3>1. /\ At("classify") /\ f \in todo /\ work = Nothing /\ Undisturbed /\ Settled(f)
      BY <2>1 DEF Classify, RestInv, AtRest, Running, At
    <3>2. found[f] # None /\ found[f] = Seen(f)
      BY <3>1 DEF RestInv, Sound, IndexInv, FoundHonest, Undisturbed, At
    <3>3. disk[f] # None /\ disk[f].kind # "large" /\ found[f] = disk[f].stamp
      BY <3>2 DEF Seen
    <3>4. Unchanged(f) \/ ~IsText(f)
      BY <3>1, <3>3 DEF Settled, Unchanged, IsText
    <3>5. work' = [work EXCEPT ![f] = None]
      BY <2>1, <3>4 DEF Classify
    <3> QED
      BY <3>1, <3>5 DEF Nothing
  <2>2. rest => work = Nothing
    BY DEF RestInv, AtRest
  <2> QED
    BY <2>1, <2>2 DEF Start, EndWalk, Walk
<1> QED
  BY <1>1, <1>2, <1>3, <1>4, <1>5, RestBefore

\* At rest the transaction writes the rows that are there.
LEMMA RestCommits ==
  ASSUME RestInv, Commit, rest
  PROVE  files' = files
<1>1. /\ At("classify") /\ todo = {} /\ work = Nothing /\ Undisturbed
      /\ \A f \in Files : Settled(f)
  BY DEF Commit, RestInv, AtRest, Running, At
<1>2. ASSUME NEW f \in Files PROVE NewRow(f) = files[f]
  <2>1. found[f] = Seen(f)
    BY <1>1 DEF RestInv, Sound, IndexInv, FoundHonest, Undisturbed, At
  <2>2. disk[f] # None => disk[f].stamp # None
    BY IndexConstants DEF RestInv, Sound, IndexInv, DiskOK, Entry
  <2> QED
    BY <1>1, <1>2, <2>1, <2>2 DEF NewRow, Seen, Settled, Nothing
<1>3. files = [f \in Files |-> files[f]]
  BY DEF RestInv, Sound, IndexInv, RowsHonest
<1> QED
  BY <1>2, <1>3 DEF Commit

LEMMA RestCommit ==
  ASSUME RestInv, Sound', Commit
  PROVE  RestInv'
<1>1. /\ UNCHANGED <<disk, edits, quiet, rest, sums, mirror, todo, listed, target>>
      /\ pc = "classify" /\ todo = {} /\ pc' = "prunefiles"
      /\ found' = Nothing /\ work' = Nothing
      /\ files' = [f \in Files |-> NewRow(f)]
  BY DEF Commit, uninvolved, At
<1>2. listed = {}
  BY <1>1 DEF RestInv, FilesListed
<1>3. ASSUME Undisturbed, NEW f \in Files PROVE Settled(f)'
  <2>1. f \in quiet /\ found[f] = Seen(f) /\ files'[f] = NewRow(f)
    BY <1>1, <1>3 DEF Undisturbed, RestInv, Sound, IndexInv, FoundHonest, At
  <2>2. CASE disk[f] = None \/ disk[f].kind = "large"
    <3>1. disk[f] # None => disk[f].kind # "text"
      BY <2>2
    <3> QED
      BY <1>1, <2>1, <2>2, <3>1 DEF Settled, Seen, NewRow
  <2>3. CASE disk[f] # None /\ disk[f].kind = "text"
    <3>1. found[f] = disk[f].stamp /\ found[f] # None
      BY <2>1, <2>3, IndexConstants DEF Seen, RestInv, Sound, IndexInv, DiskOK, Entry
    <3>2. work[f] # None \/ Unchanged(f)
      BY <1>1, <2>1, <2>3 DEF RestInv, Sound, IndexInv, WorkHonest, At
    <3>3. NewRow(f) # None /\ NewRow(f).stamp = found[f]
      BY <3>1, <3>2 DEF NewRow, Unchanged, RestInv, Sound, IndexInv, WorkHonest
    <3> QED
      BY <1>1, <2>1, <2>3, <3>1, <3>3 DEF Settled
  <2>4. CASE disk[f] # None /\ disk[f].kind \notin {"text", "large"}
    BY <1>1, <2>4 DEF Settled
  <2> QED
    BY <2>2, <2>3, <2>4
<1>4. FilesPruned' /\ FilesListed' /\ ModulesListed'
  BY <1>1, <1>2 DEF FilesPruned, FilesListed, ModulesListed, Summing, At
<1>5. ASSUME rest PROVE AtRest'
  <2>1. files' = files
    BY <1>5, RestCommits
  <2>2. \A S : Hashes(S)' = Hashes(S)
    BY <2>1, SameHashes
  <2>3. \A m \in Modules : Up(ModuleT(m), Hashes(In(m, Rows)))' = Up(ModuleT(m), Hashes(In(m, Rows)))
    BY <1>1, <2>1, <2>2 DEF Up, In, Rows
  <2>4. Up(ProjectT, Hashes(Rows))' = Up(ProjectT, Hashes(Rows))
    BY <1>1, <2>1, <2>2 DEF Up, Rows
  <2>5. \A f \in Files : Settled(f)' = Settled(f) /\ Kept(f)' = Kept(f)
    BY <1>1, <2>1 DEF Settled, Kept, Up
  <2>6. Undisturbed' /\ UNCHANGED <<sums, target>> /\ work' = Nothing
    BY <1>1, <1>5 DEF RestInv, AtRest, Running, Undisturbed
  <2>7. Rows' = Rows /\ \A m \in Modules : In(m, Rows)' = In(m, Rows)
    BY <2>1 DEF Rows, In
  <2> QED
    BY <1>5, <2>3, <2>4, <2>5, <2>6, <2>7 DEF RestInv, AtRest
<1> QED
  BY <1>1, <1>3, <1>4, <1>5 DEF RestInv, Undisturbed, AtRest

-----------------------------------------------------------------------------
(* The types.                                                               *)

\* What is written as a summary of listed files is one.
LEMMA Digests ==
  ASSUME RestInv, NEW S \in SUBSET listed
  PROVE  /\ Hashes(S) \in Seq(Nat)
         /\ Lines(S) \in Seq([file : Files, text : Nat])
         /\ Spread(S) \in [Modules -> Nat]
<1>1. /\ S \in SUBSET Files
      /\ \A f \in S : files[f].hash \in Nat /\ sums[FileT(f)].text \in Nat
  BY DEF RestInv, FilesListed, Rows, Sound, TypeOK, Row, Kept, Up, FileSummary
<1>2. /\ DOMAIN Sorted(S) = 1 .. Len(Sorted(S)) /\ Len(Sorted(S)) \in Nat
      /\ \A i \in DOMAIN Sorted(S) : Sorted(S)[i] \in S
  BY <1>1, SortedLists
<1>3. Hashes(S) \in [1 .. Len(Sorted(S)) -> Nat]
  BY <1>1, <1>2 DEF Hashes
<1>4. Lines(S) \in [1 .. Len(Sorted(S)) -> [file : Files, text : Nat]]
  BY <1>1, <1>2 DEF Lines
<1>5. \A m \in Modules : Cardinality(In(m, S)) \in Nat
  BY <1>1, FilesFinite, FS_CardinalityType DEF In
<1>6. \A X, list : list \in [1 .. Len(Sorted(S)) -> X] => list \in Seq(X)
  BY <1>2
<1> QED
  BY <1>3, <1>4, <1>5, <1>6 DEF Spread

\* Storing a summary of its kind leaves the other ones alone.
LEMMA StoreTyped ==
  ASSUME RestInv, NEW t \in Targets, NEW source, NEW text, Store(t, source, text),
         \/ t \in {FileT(f) : f \in Files} /\ source \in Nat /\ text \in Nat
         \/ t \in {ModuleT(m) : m \in Modules} /\ source \in Seq(Nat)
              /\ text \in Seq([file : Files, text : Nat])
         \/ t = ProjectT /\ source \in Seq(Nat) /\ text \in [Modules -> Nat]
  PROVE  /\ \A f \in Files   : sums'[FileT(f)] \in FileSummary \cup {None}
         /\ \A m \in Modules : sums'[ModuleT(m)] \in ModuleSummary \cup {None}
         /\ sums'[ProjectT] \in ProjectSummary \cup {None}
         /\ sums' = [u \in Targets |-> sums'[u]]
         /\ \A u \in Targets \ {t} : sums'[u] = sums[u]
         /\ target' = t /\ sums'[t] # None /\ Up(t, source)'
<1> DEFINE new == [source |-> source, text |-> text]
<1>1. /\ sums' = [sums EXCEPT ![t] = new] /\ target' = t
      /\ sums = [u \in Targets |-> sums[u]]
  BY DEF Store, RestInv, Sound
<1>2. new \in FileSummary \cup ModuleSummary \cup ProjectSummary
  BY DEF FileSummary, ModuleSummary, ProjectSummary
<1>3. new # None /\ new.source = source
  BY <1>2, IndexConstants
<1>4. /\ t \in {FileT(f) : f \in Files} => new \in FileSummary
      /\ t \in {ModuleT(m) : m \in Modules} => new \in ModuleSummary
      /\ t = ProjectT => new \in ProjectSummary
  BY TargetNames DEF FileSummary, ModuleSummary, ProjectSummary
<1> HIDE DEF new
<1>5. sums'[t] = new /\ \A u \in Targets \ {t} : sums'[u] = sums[u]
  BY <1>1
<1>6. \A f \in Files : sums'[FileT(f)] \in FileSummary \cup {None}
  BY <1>4, <1>5, TargetNames DEF RestInv, Sound, TypeOK
<1>7. \A m \in Modules : sums'[ModuleT(m)] \in ModuleSummary \cup {None}
  BY <1>4, <1>5, TargetNames DEF RestInv, Sound, TypeOK
<1>8. sums'[ProjectT] \in ProjectSummary \cup {None}
  BY <1>4, <1>5, TargetNames DEF RestInv, Sound, TypeOK
<1> QED
  BY <1>1, <1>3, <1>5, <1>6, <1>7, <1>8 DEF Up

\* What Sound asks of the tables.
TablesTyped ==
  /\ \A f \in Files   : sums[FileT(f)] \in FileSummary \cup {None}
  /\ \A m \in Modules : sums[ModuleT(m)] \in ModuleSummary \cup {None}
  /\ sums[ProjectT] \in ProjectSummary \cup {None}
  /\ \A f \in Files   : mirror[FileT(f)] \in Nat \cup {None}
  /\ sums = [t \in Targets |-> sums[t]] /\ mirror = [t \in Targets |-> mirror[t]]

LEMMA TablesAreTyped == ASSUME RestInv PROVE TablesTyped
BY DEF TablesTyped, RestInv, Sound, TypeOK

\* The steps that leave the summaries and their mirror alone.
LEMMA SoundTables ==
  ASSUME RestInv, IndexInv', UNCHANGED <<sums, mirror>>,
         edits' \in 0 .. MaxEdits, rest' \in BOOLEAN,
         pc' \in {"idle", "walk", "classify", "prunefiles", "files", "prunemodules",
                 "modules", "finish", "done", "failed", "killed"},
         todo' \subseteq Files \cup Modules, listed' \subseteq Files,
         target' = None \/ (target' = target /\ pc' = pc)
  PROVE  Sound'
<1>1. /\ disk' \in [Files -> Entry \cup {None}] /\ files' \in [Files -> Row \cup {None}]
      /\ found' \in [Files -> Nat \cup {None}] /\ work' \in [Files -> Row \cup {None}]
      /\ quiet' \subseteq Files
  BY DEF IndexInv, DiskOK, RowsHonest, FoundHonest, WorkHonest
<1>2. TablesTyped'
  BY TablesAreTyped DEF TablesTyped
<1>3. target' \in Targets \cup {None}
  BY DEF RestInv, Sound, TypeOK
<1>4. Pending'
  BY DEF RestInv, Sound, Pending
<1>5. TypeOK'
  BY <1>1, <1>2, <1>3 DEF TypeOK, TablesTyped
<1> QED
  BY <1>2, <1>4, <1>5 DEF Sound, TablesTyped

\* The steps that write a summary or its mirror.
LEMMA SoundWrites ==
  ASSUME RestInv, IndexInv', TablesTyped',
         UNCHANGED <<edits, rest>>,
         pc' \in {pc, "files", "modules", "finish"},
         todo' \subseteq Files \cup Modules, listed' \subseteq Files,
         target' \in Targets \cup {None},
         target' # None => pc' \in {"files", "modules", "finish"} /\ sums'[target'] # None
  PROVE  Sound'
<1>1. /\ disk' \in [Files -> Entry \cup {None}] /\ files' \in [Files -> Row \cup {None}]
      /\ found' \in [Files -> Nat \cup {None}] /\ work' \in [Files -> Row \cup {None}]
      /\ quiet' \subseteq Files
  BY DEF IndexInv, DiskOK, RowsHonest, FoundHonest, WorkHonest
<1>2. Pending'
  BY DEF Pending
<1>3. TypeOK'
  BY <1>1 DEF TypeOK, TablesTyped, RestInv, Sound
<1> QED
  BY <1>2, <1>3 DEF Sound, TablesTyped

\* The parts of the types the steps below build on.
LEMMA Locals ==
  ASSUME RestInv
  PROVE  /\ edits \in 0 .. MaxEdits /\ rest \in BOOLEAN
         /\ pc \in {"idle", "walk", "classify", "prunefiles", "files", "prunemodules",
                  "modules", "finish", "done", "failed", "killed"}
         /\ todo \subseteq Files \cup Modules /\ listed \subseteq Files
         /\ target \in Targets \cup {None}
         /\ target # None => pc \in {"files", "modules", "finish"}
         /\ Digested \subseteq Modules
BY ListedFiles DEF RestInv, Sound, TypeOK, Pending

LEMMA SoundPrune ==
  ASSUME RestInv, IndexInv', PruneFiles \/ PruneModules
  PROVE  Sound'
<1>1. /\ UNCHANGED <<edits, rest, mirror, listed, target>>
      /\ pc \in {"prunefiles", "prunemodules"} /\ pc' \in {pc, "files", "modules"}
      /\ todo' \in {todo, {f \in Files : files[f] # None}, Digested}
      /\ sums' = sums \/ \E t : sums' = [sums EXCEPT ![t] = None]
  BY DEF PruneFiles, PruneModules, Prune, uninvolved, At
<1>2. target = None
  BY <1>1, Locals
<1>3. TablesTyped'
  <2>1. TablesTyped
    BY TablesAreTyped
  <2>2. \A t \in Targets : sums'[t] \in {sums[t], None}
    BY <1>1, <2>1 DEF TablesTyped
  <2>3. sums' = [t \in Targets |-> sums'[t]]
    BY <1>1, <2>1 DEF TablesTyped
  <2>4. \A f \in Files : sums'[FileT(f)] \in {sums[FileT(f)], None}
    BY <2>2, TargetNames
  <2>5. \A m \in Modules : sums'[ModuleT(m)] \in {sums[ModuleT(m)], None}
    BY <2>2, TargetNames
  <2>6. sums'[ProjectT] \in {sums[ProjectT], None}
    BY <2>2, TargetNames
  <2> QED
    BY <1>1, <2>1, <2>3, <2>4, <2>5, <2>6 DEF TablesTyped
<1>4. todo' \subseteq Files \cup Modules
  BY <1>1, Locals
<1> QED
  BY <1>1, <1>2, <1>3, <1>4, Locals, SoundWrites

LEMMA SoundSummarize ==
  ASSUME RestInv, IndexInv', NEW f \in Files, Summarize(f)
  PROVE  Sound'
<1>1. CASE Unreadable(f) /\ Fail /\ UNCHANGED sums
  BY <1>1, Locals, SoundTables DEF Summarize, Fail, Forget
<1>2. CASE Keep(f) \/ Vanished(f)
  BY <1>2, Locals, SoundTables DEF Summarize, Keep, Vanished, Unreadable, At
<1>3. CASE Summarized(f)
  <2>1. /\ At("files") /\ f \in todo /\ UNCHANGED <<edits, rest, files, mirror, pc>>
        /\ todo' = todo \ {f} /\ listed' = listed \cup {f}
        /\ Store(FileT(f), files[f].hash, disk[f].content) /\ disk[f] # None
    BY <1>3 DEF Summarize, Summarized, Unreadable, Keep, Vanished
  <2>2. files[f].hash \in Nat /\ disk[f].content \in Nat
    BY <2>1 DEF RestInv, FilesListed, Rows, Sound, TypeOK, Row, Entry, At
  <2>3. FileT(f) \in Targets /\ FileT(f) \in {FileT(g) : g \in Files}
    BY TargetNames
  <2>4. /\ \A g \in Files   : sums'[FileT(g)] \in FileSummary \cup {None}
        /\ \A m \in Modules : sums'[ModuleT(m)] \in ModuleSummary \cup {None}
        /\ sums'[ProjectT] \in ProjectSummary \cup {None}
        /\ sums' = [u \in Targets |-> sums'[u]]
        /\ target' = FileT(f) /\ sums'[FileT(f)] # None
    BY <2>1, <2>2, <2>3, StoreTyped
  <2>5. TablesTyped'
    BY <2>1, <2>4, TablesAreTyped DEF TablesTyped
  <2> QED
    BY <2>1, <2>3, <2>4, <2>5, Locals, SoundWrites DEF At
<1> QED
  BY <1>1, <1>2, <1>3 DEF Summarize

LEMMA SoundMirror ==
  ASSUME RestInv, IndexInv', Mirror
  PROVE  Sound'
<1>1. /\ target # None /\ target \in Targets /\ sums[target] # None
      /\ mirror' = [mirror EXCEPT ![target] = sums[target].text]
      /\ target' = None
      /\ UNCHANGED <<edits, rest, sums, pc, todo, listed>>
  BY DEF Mirror, uninvolved, RestInv, Sound, Pending, TypeOK
<1>2. TablesTyped
  BY TablesAreTyped
<1>3. \A f \in Files : FileT(f) = target => sums[target].text \in Nat
  BY <1>1, <1>2 DEF TablesTyped, FileSummary
<1>4. \A f \in Files : mirror'[FileT(f)] \in Nat \cup {None}
  BY <1>1, <1>2, <1>3, TargetNames DEF TablesTyped
<1>5. TablesTyped'
  BY <1>1, <1>2, <1>4 DEF TablesTyped
<1> QED
  BY <1>1, <1>5, Locals, SoundWrites

\* The summaries of modules and of the project.
LEMMA RenewTyped ==
  ASSUME RestInv, NEW t \in Targets, NEW S \in SUBSET listed, NEW text, Renew(t, S, text),
         \/ t \in {ModuleT(m) : m \in Modules} /\ text = Lines(S)
         \/ t = ProjectT /\ text = Spread(S),
         UNCHANGED <<mirror, files>>
  PROVE  /\ TablesTyped' /\ target' \in {t, target} /\ (target' = t => sums'[t] # None)
         /\ \A u \in Targets \ {t} : sums'[u] = sums[u]
         /\ Up(t, Hashes(S))'
         /\ Up(t, Hashes(S)) => UNCHANGED <<sums, target>>
<1>1. CASE Up(t, Hashes(S))
  BY <1>1, TablesAreTyped, SameHashes DEF Renew, TablesTyped, Up
<1>2. CASE ~Up(t, Hashes(S))
  <2>1. Store(t, Hashes(S), text)
    BY <1>2 DEF Renew
  <2>2. /\ Hashes(S) \in Seq(Nat)
        /\ Lines(S) \in Seq([file : Files, text : Nat])
        /\ Spread(S) \in [Modules -> Nat]
    BY Digests
  <2>3. /\ \A g \in Files   : sums'[FileT(g)] \in FileSummary \cup {None}
        /\ \A m \in Modules : sums'[ModuleT(m)] \in ModuleSummary \cup {None}
        /\ sums'[ProjectT] \in ProjectSummary \cup {None}
        /\ sums' = [u \in Targets |-> sums'[u]]
        /\ \A u \in Targets \ {t} : sums'[u] = sums[u]
        /\ target' = t /\ sums'[t] # None /\ sums'[t].source = Hashes(S)
    BY <2>1, <2>2, StoreTyped DEF Up
  <2>4. TablesTyped'
    BY <2>3, TablesAreTyped DEF TablesTyped
  <2>5. Up(t, Hashes(S))'
    BY <2>3, SameHashes DEF Up
  <2> QED
    BY <1>2, <2>3, <2>4, <2>5
<1> QED
  BY <1>1, <1>2

LEMMA SoundSync ==
  ASSUME RestInv, IndexInv', SyncProject \/ \E m \in Modules : SyncModule(m)
  PROVE  Sound'
<1>1. ASSUME NEW m \in Modules, SyncModule(m) PROVE Sound'
  <2>1. /\ At("modules") /\ m \in todo /\ Renew(ModuleT(m), In(m, listed), Lines(In(m, listed)))
        /\ todo' = todo \ {m} /\ UNCHANGED <<edits, rest, files, mirror, pc, listed>>
    BY <1>1 DEF SyncModule, uninvolved
  <2>2. /\ TablesTyped' /\ target' \in {ModuleT(m), target}
        /\ (target' = ModuleT(m) => sums'[ModuleT(m)] # None)
    BY <2>1, TargetNames, RenewTyped DEF In
  <2>3. target = None
    BY <1>1 DEF SyncModule
  <2> QED
    BY <2>1, <2>2, <2>3, Locals, TargetNames, SoundWrites DEF At
<1>2. CASE SyncProject
  <2>1. /\ At("modules") /\ Renew(ProjectT, listed, Spread(listed)) /\ pc' = "finish"
        /\ UNCHANGED <<edits, rest, files, mirror, todo, listed>> /\ target = None
    BY <1>2 DEF SyncProject, uninvolved
  <2>2. /\ TablesTyped' /\ target' \in {ProjectT, target}
        /\ (target' = ProjectT => sums'[ProjectT] # None)
    BY <2>1, TargetNames, RenewTyped
  <2> QED
    BY <2>1, <2>2, Locals, TargetNames, SoundWrites DEF At
<1> QED
  BY <1>1, <1>2

LEMMA SoundStep ==
  ASSUME RestInv, [Next]_vars
  PROVE  Sound'
<1> USE DEF uninvolved, tables, locals
<1>0. IndexInv'
  BY IndexStep DEF RestInv, Sound
<1>1. CASE \E f \in Files : Save(f) \/ Touch(f) \/ Delete(f)
  <2>1. PICK f \in Files : \E entry : Changed(f, entry)
    BY <1>1 DEF Save, Touch, Delete
  <2>2. edits' \in 0 .. MaxEdits /\ rest' \in BOOLEAN
    <3>1. edits < MaxEdits /\ edits' = edits + 1 /\ (rest' = FALSE)
      BY <2>1 DEF Changed
    <3>2. MaxEdits \in Nat /\ edits \in 0 .. MaxEdits
      BY Locals, IndexConstants
    <3>3. edits' \in 0 .. MaxEdits
      BY <3>1, <3>2
    <3> QED
      BY <3>1, <3>3
  <2> QED
    BY <1>0, <2>1, <2>2, Locals, SoundTables DEF Changed
<1>2. CASE Start
  BY <1>0, <1>2, Locals, SoundTables DEF Start
<1>3. ASSUME NEW f \in Files, Walk(f) PROVE Sound'
  BY <1>0, <1>3, Locals, SoundTables DEF Walk
<1>4. CASE EndWalk
  BY <1>0, <1>4, Locals, SoundTables DEF EndWalk, At
<1>5. ASSUME NEW f \in Files, Classify(f) PROVE Sound'
  BY <1>0, <1>5, Locals, SoundTables DEF Classify, Fail, Forget
<1>6. CASE Commit
  BY <1>0, <1>6, Locals, SoundTables DEF Commit, At
<1>7. CASE PruneFiles \/ PruneModules
  BY <1>0, <1>7, SoundPrune
<1>8. ASSUME NEW f \in Files, Summarize(f) PROVE Sound'
  BY <1>0, <1>8, SoundSummarize
<1>9. CASE EndFiles
  BY <1>0, <1>9, Locals, SoundTables DEF EndFiles
<1>10. CASE Mirror
  BY <1>0, <1>10, SoundMirror
<1>11. CASE SyncProject \/ \E m \in Modules : SyncModule(m)
  BY <1>0, <1>11, SoundSync
<1>12. CASE Finish
  BY <1>0, <1>12, Locals, SoundTables DEF Finish, Forget
<1>13. CASE Abort
  BY <1>0, <1>13, Locals, SoundTables DEF Abort, Forget
<1>14. CASE UNCHANGED vars
  BY <1>0, <1>14, Locals, SoundTables DEF vars
<1> QED
  BY <1>1, <1>2, <1>3, <1>4, <1>5, <1>6, <1>7, <1>8, <1>9, <1>10, <1>11, <1>12, <1>13,
     <1>14 DEF Next, Step

-----------------------------------------------------------------------------
(* The steps of sync_project_summaries.                                     *)

\* A step that, at rest, writes nothing, leaves the tree at rest.
LEMMA StaysAtRest ==
  ASSUME RestInv, UNCHANGED <<disk, files, rest, work, quiet>>, Running,
         rest => UNCHANGED <<sums, target>>
  PROVE  AtRest'
<1> SUFFICES ASSUME rest PROVE AtRest'
  BY DEF AtRest
<1>1. \A S : Hashes(S)' = Hashes(S)
  BY SameHashes
<1>2. \A m \in Modules : Up(ModuleT(m), Hashes(In(m, Rows)))' = Up(ModuleT(m), Hashes(In(m, Rows)))
  BY <1>1 DEF Up, In, Rows
<1>3. Up(ProjectT, Hashes(Rows))' = Up(ProjectT, Hashes(Rows))
  BY <1>1 DEF Up, Rows
<1>4. \A f \in Files : Settled(f)' = Settled(f) /\ Kept(f)' = Kept(f)
  BY DEF Settled, Kept, Up
<1>5. Rows' = Rows /\ \A m \in Modules : In(m, Rows)' = In(m, Rows)
  BY DEF Rows, In
<1> QED
  BY <1>2, <1>3, <1>4, <1>5 DEF RestInv, AtRest, Undisturbed

\* What stays so while the rows and the user's files do.
LEMMA StaysSettled ==
  ASSUME RestInv, UNCHANGED <<disk, files, quiet>>, Committed
  PROVE  Undisturbed' /\ Committed' => \A f \in Files : Settled(f)'
BY DEF RestInv, Undisturbed, Settled

LEMMA RestPruneFiles ==
  ASSUME RestInv, Sound', PruneFiles
  PROVE  RestInv'
<1> USE DEF At
<1>1. /\ UNCHANGED <<disk, files, rest, work, quiet, listed, target>>
      /\ pc = "prunefiles" /\ pc' \in {"prunefiles", "files"} /\ listed = {}
  BY DEF PruneFiles, Prune, uninvolved, RestInv, FilesListed
<1>2. CASE \E t \in StaleFiles : sums[t] # None
  <2>1. pc' = "prunefiles" /\ ~rest
    <3>1. rest => \A f \in Files \ Rows : sums[FileT(f)] = None
      BY DEF RestInv, AtRest
    <3> QED
      BY <1>2, <3>1 DEF PruneFiles, Prune, StaleFiles, Rows
  <2> QED
    BY <1>1, <2>1, StaysSettled
       DEF RestInv, Committed, FilesPruned, FilesListed, ModulesListed, Summing, AtRest
<1>3. CASE ~\E t \in StaleFiles : sums[t] # None
  <2>1. pc' = "files" /\ todo' = Rows /\ UNCHANGED sums
    BY <1>3 DEF PruneFiles, Prune, Rows
  <2>2. FilesPruned'
    BY <1>1, <1>3, <2>1 DEF FilesPruned, StaleFiles, Rows
  <2>3. FilesListed' /\ ModulesListed'
    BY <1>1, <2>1 DEF FilesListed, ModulesListed, Rows
  <2> QED
    BY <1>1, <2>1, <2>2, <2>3, StaysSettled, StaysAtRest DEF RestInv, Committed, Running
<1> QED
  BY <1>2, <1>3

\* What a file's turn in the loop does: its summary is up to date from now on,
\* unless the file is gone, and no other file's is touched.
LEMMA SummarizeWrites ==
  ASSUME RestInv, NEW f \in Files, Summarize(f), ~Fail
  PROVE  /\ \A g \in Files \ {f} : sums'[FileT(g)] = sums[FileT(g)]
         /\ Kept(f) => Kept(f)'
         /\ Kept(f)' \/ Vanished(f)
         /\ listed' \in {listed, listed \cup {f}} /\ (f \in listed' \/ Vanished(f))
         /\ rest => UNCHANGED <<sums, target>>
         /\ \/ sums' = sums
            \/ /\ sums'[FileT(f)] = [source |-> files[f].hash, text |-> disk[f].content]
               /\ disk[f] # None
<1> USE DEF At
<1>1. /\ UNCHANGED <<disk, files, mirror, rest, work, quiet, pc>>
      /\ pc = "files" /\ f \in todo /\ todo' = todo \ {f}
      /\ Keep(f) \/ Vanished(f) \/ Summarized(f)
  BY DEF Summarize
<1>2. f \in Rows /\ Summing /\ Running /\ Committed
  BY <1>1 DEF RestInv, FilesListed, Summing, Running, Committed
<1>3. rest => Kept(f)
  BY <1>2 DEF RestInv, AtRest
<1>4. CASE Keep(f)
  BY <1>1, <1>4 DEF Keep, Kept, Up
<1>5. CASE Vanished(f)
  BY <1>1, <1>3, <1>5 DEF Vanished, Kept, Up
<1>6. CASE Summarized(f)
  <2>1. /\ ~Kept(f) /\ Store(FileT(f), files[f].hash, disk[f].content) /\ disk[f] # None
        /\ listed' = listed \cup {f}
    BY <1>6 DEF Summarized
  <2>2. files[f].hash \in Nat /\ disk[f].content \in Nat
    BY <1>2, <2>1 DEF Rows, RestInv, Sound, TypeOK, Row, Entry
  <2>3. FileT(f) \in Targets /\ FileT(f) \in {FileT(g) : g \in Files}
    BY TargetNames
  <2>4. /\ \A u \in Targets \ {FileT(f)} : sums'[u] = sums[u]
        /\ sums'[FileT(f)] # None /\ sums'[FileT(f)].source = files[f].hash
    BY <2>1, <2>2, <2>3, StoreTyped DEF Up
  <2>5. Kept(f)'
    BY <1>1, <2>4 DEF Kept, Up
  <2>6. \A g \in Files \ {f} : FileT(g) \in Targets \ {FileT(f)}
    BY TargetNames
  <2>7. sums'[FileT(f)] = [source |-> files[f].hash, text |-> disk[f].content]
    BY <2>1, <2>3 DEF Store, RestInv, Sound
  <2> QED
    BY <1>3, <2>1, <2>4, <2>5, <2>6, <2>7
<1> QED
  BY <1>1, <1>4, <1>5, <1>6

LEMMA RestSummarize ==
  ASSUME RestInv, Sound', NEW f \in Files, Summarize(f), ~Fail
  PROVE  RestInv' /\ (rest => UNCHANGED tables)
<1> USE DEF At
<1>1. /\ UNCHANGED <<disk, files, mirror, rest, work, quiet, pc>>
      /\ pc = "files" /\ f \in todo /\ todo' = todo \ {f}
      /\ Keep(f) \/ Vanished(f) \/ Summarized(f)
  BY DEF Summarize
<1>2. f \in Rows /\ Summing /\ Running /\ Committed
  BY <1>1 DEF RestInv, FilesListed, Summing, Running, Committed
<1>4. /\ \A g \in Files \ {f} : sums'[FileT(g)] = sums[FileT(g)]
      /\ Kept(f) => Kept(f)'
      /\ Kept(f)' \/ Vanished(f)
      /\ listed' \in {listed, listed \cup {f}} /\ (f \in listed' \/ Vanished(f))
      /\ rest => UNCHANGED <<sums, target>>
  BY SummarizeWrites
<1>5. \A g \in Files : Kept(g) => Kept(g)'
  BY <1>1, <1>4 DEF Kept, Up
<1>6. FilesPruned'
  BY <1>1, <1>2, <1>4 DEF RestInv, FilesPruned, Rows, Summing
<1>7. FilesListed'
  <2>1. listed' \subseteq Rows' /\ todo' \subseteq Rows'
    BY <1>1, <1>2, <1>4 DEF RestInv, FilesListed, Rows
  <2>2. \A g \in listed' : Kept(g)'
    <3>1. TAKE g \in listed'
    <3>2. CASE g = f
      BY <1>4, <1>5, <3>1, <3>2 DEF Vanished, RestInv, FilesListed
    <3>3. CASE g # f
      BY <1>4, <1>5, <3>1, <3>3, ListedFiles DEF RestInv, FilesListed
    <3> QED
      BY <3>2, <3>3
  <2>3. Undisturbed => ~Vanished(f)
    BY <1>2 DEF RestInv, Settled, Vanished, Rows
  <2>4. Undisturbed' => Rows' \subseteq todo' \cup listed'
    BY <1>1, <1>4, <2>3 DEF RestInv, FilesListed, Rows, Undisturbed
  <2> QED
    BY <1>1, <2>1, <2>2, <2>4 DEF FilesListed
<1>8. ModulesListed'
  BY <1>1 DEF ModulesListed
<1>9. AtRest'
  BY <1>1, <1>2, <1>4, StaysAtRest
<1>10. Undisturbed' /\ Committed' => \A g \in Files : Settled(g)'
  BY <1>1, <1>2, StaysSettled
<1> QED
  BY <1>1, <1>4, <1>6, <1>7, <1>8, <1>9, <1>10 DEF RestInv, tables

LEMMA RestEndFiles ==
  ASSUME RestInv, Sound', EndFiles
  PROVE  RestInv'
<1> USE DEF At
<1>1. /\ UNCHANGED <<disk, files, sums, rest, work, quiet, todo, listed, target>>
      /\ pc = "files" /\ pc' = "prunemodules" /\ todo = {}
  BY DEF EndFiles, uninvolved, tables, locals
<1>2. \A f \in Files : Kept(f)' = Kept(f)
  BY <1>1 DEF Kept, Up
<1>3. FilesPruned' /\ FilesListed' /\ ModulesListed'
  BY <1>1, <1>2, ListedFiles
     DEF RestInv, FilesPruned, FilesListed, ModulesListed, Summing, Rows, Undisturbed
<1> QED
  BY <1>1, <1>3, StaysSettled, StaysAtRest DEF RestInv, Running, Committed

\* A summary of a file is none of those the steps below write.
LEMMA OtherTargets ==
  ASSUME \A f \in Files : sums'[FileT(f)] = sums[FileT(f)], UNCHANGED files
  PROVE  \A f \in Files : Kept(f)' = Kept(f)
BY DEF Kept, Up

LEMMA RestPruneModules ==
  ASSUME RestInv, Sound', PruneModules
  PROVE  RestInv'
<1> USE DEF At
<1>1. /\ UNCHANGED <<disk, files, rest, work, quiet, listed, target>>
      /\ pc = "prunemodules" /\ pc' \in {"prunemodules", "modules"}
  BY DEF PruneModules, Prune, uninvolved
<1>2. sums' = sums \/ \E m \in Modules : sums' = [sums EXCEPT ![ModuleT(m)] = None]
  BY DEF PruneModules, Prune
<1>3. \A f \in Files : sums'[FileT(f)] = sums[FileT(f)]
  BY <1>2, TargetNames DEF RestInv, Sound
<1>4. FilesPruned' /\ FilesListed'
  BY <1>1, <1>3, OtherTargets, ListedFiles
     DEF RestInv, FilesPruned, FilesListed, Summing, Rows, Undisturbed
<1>5. rest => \A m \in Modules \ Digested : sums[ModuleT(m)] = None
  <2>1. rest => Rows \subseteq listed
    BY <1>1 DEF RestInv, FilesListed, AtRest, Running
  <2>2. ASSUME rest, NEW m \in Modules \ Digested PROVE In(m, Rows) = {}
    BY <2>1, <2>2 DEF In, Digested
  <2> QED
    BY <2>2 DEF RestInv, AtRest
<1>6. CASE \E m \in Modules \ Digested : sums[ModuleT(m)] # None
  <2>1. pc' = "prunemodules" /\ ~rest
    BY <1>5, <1>6 DEF PruneModules, Prune
  <2> QED
    BY <1>1, <1>4, <2>1, StaysSettled DEF RestInv, Committed, ModulesListed, AtRest
<1>7. CASE ~\E m \in Modules \ Digested : sums[ModuleT(m)] # None
  <2>1. pc' = "modules" /\ todo' = Digested /\ UNCHANGED sums
    BY <1>7 DEF PruneModules, Prune
  <2>2. ModulesListed'
    BY <1>1, <1>7, <2>1 DEF ModulesListed, Digested
  <2> QED
    BY <1>1, <1>4, <2>1, <2>2, StaysSettled, StaysAtRest DEF RestInv, Committed, Running
<1> QED
  BY <1>6, <1>7

LEMMA RestSyncModule ==
  ASSUME RestInv, Sound', NEW m \in Modules, SyncModule(m)
  PROVE  RestInv' /\ (rest => UNCHANGED tables)
<1> USE DEF At
<1>1. /\ UNCHANGED <<disk, files, mirror, rest, work, quiet, pc, listed>>
      /\ pc = "modules" /\ m \in todo /\ todo' = todo \ {m}
      /\ Renew(ModuleT(m), In(m, listed), Lines(In(m, listed)))
  BY DEF SyncModule, uninvolved
<1>2. /\ \A t \in Targets \ {ModuleT(m)} : sums'[t] = sums[t]
      /\ sums'[ModuleT(m)] # None /\ sums'[ModuleT(m)].source = Hashes(In(m, listed))
      /\ Up(ModuleT(m), Hashes(In(m, listed))) => UNCHANGED <<sums, target>>
  <2>1. ModuleT(m) \in Targets /\ In(m, listed) \in SUBSET listed
    BY TargetNames DEF In
  <2> QED
    BY <1>1, <2>1, RenewTyped, SameHashes DEF Up
<1>3. \A f \in Files : sums'[FileT(f)] = sums[FileT(f)]
  BY <1>2, TargetNames
<1>4. \A n \in Modules \ {m} : sums'[ModuleT(n)] = sums[ModuleT(n)]
  BY <1>2, TargetNames
<1>5. \A S : Hashes(S)' = Hashes(S)
  BY <1>1, SameHashes
<1>6. FilesPruned' /\ FilesListed'
  BY <1>1, <1>3, OtherTargets, ListedFiles
     DEF RestInv, FilesPruned, FilesListed, Summing, Rows, Undisturbed
<1>7. m \in Digested
  BY <1>1 DEF RestInv, ModulesListed
<1>8. ModulesListed'
  <2>1. \A n \in Modules \ Digested : sums'[ModuleT(n)] = None
    BY <1>1, <1>4, <1>7 DEF RestInv, ModulesListed
  <2>2. \A n \in Digested \ todo' : Up(ModuleT(n), Hashes(In(n, listed)))'
    <3>1. TAKE n \in Digested \ todo'
    <3>2. In(n, listed)' = In(n, listed)
      BY <1>1 DEF In
    <3>3. CASE n = m
      BY <1>1, <1>2, <1>5, <3>2, <3>3 DEF Up
    <3>4. CASE n # m
      <4>1. n \in Modules /\ n \in Digested \ todo
        BY <1>1, <3>1, <3>4, ListedFiles
      <4>2. sums'[ModuleT(n)] = sums[ModuleT(n)] /\ Up(ModuleT(n), Hashes(In(n, listed)))
        BY <1>1, <1>4, <3>4, <4>1 DEF RestInv, ModulesListed
      <4> QED
        BY <1>5, <3>2, <4>2 DEF Up
    <3> QED
      BY <3>3, <3>4
  <2> QED
    BY <1>1, <2>1, <2>2 DEF RestInv, ModulesListed, Digested
<1>9. rest => Up(ModuleT(m), Hashes(In(m, listed)))
  <2>1. rest => Rows = listed
    BY <1>1 DEF RestInv, FilesListed, AtRest, Running
  <2>2. In(m, listed) # {}
    BY <1>7 DEF In, Digested
  <2> QED
    BY <2>1, <2>2 DEF RestInv, AtRest
<1>10. AtRest'
  BY <1>1, <1>2, <1>9, StaysAtRest DEF Running
<1> QED
  BY <1>1, <1>2, <1>6, <1>8, <1>9, <1>10, StaysSettled DEF RestInv, Committed, tables

LEMMA RestSyncProject ==
  ASSUME RestInv, Sound', SyncProject
  PROVE  RestInv' /\ (rest => UNCHANGED tables)
<1> USE DEF At
<1>1. /\ UNCHANGED <<disk, files, mirror, rest, work, quiet, listed, todo>>
      /\ pc = "modules" /\ pc' = "finish" /\ todo = {}
      /\ Renew(ProjectT, listed, Spread(listed))
  BY DEF SyncProject, uninvolved
<1>2. /\ \A t \in Targets \ {ProjectT} : sums'[t] = sums[t]
      /\ sums'[ProjectT] # None /\ sums'[ProjectT].source = Hashes(listed)
      /\ Up(ProjectT, Hashes(listed)) => UNCHANGED <<sums, target>>
  <2>1. ProjectT \in Targets /\ listed \in SUBSET listed
    BY TargetNames
  <2> QED
    BY <1>1, <2>1, RenewTyped, SameHashes DEF Up
<1>3. \A f \in Files : sums'[FileT(f)] = sums[FileT(f)]
  BY <1>2, TargetNames
<1>4. \A m \in Modules : sums'[ModuleT(m)] = sums[ModuleT(m)]
  BY <1>2, TargetNames
<1>5. \A S : Hashes(S)' = Hashes(S)
  BY <1>1, SameHashes
<1>6. FilesPruned' /\ FilesListed'
  BY <1>1, <1>3, OtherTargets, ListedFiles
     DEF RestInv, FilesPruned, FilesListed, Summing, Rows, Undisturbed
<1>7. ModulesListed'
  <2>1. ASSUME NEW m \in Digested PROVE Up(ModuleT(m), Hashes(In(m, listed)))'
    <3>1. In(m, listed)' = In(m, listed) /\ m \in Modules
      BY <1>1, <2>1, ListedFiles DEF In
    <3>2. Up(ModuleT(m), Hashes(In(m, listed)))
      BY <1>1, <2>1 DEF RestInv, ModulesListed
    <3> QED
      BY <1>4, <1>5, <3>1, <3>2 DEF Up
  <2>2. Up(ProjectT, Hashes(listed))'
    BY <1>1, <1>2, <1>5 DEF Up
  <2>3. \A m \in Modules \ Digested : sums'[ModuleT(m)] = None
    BY <1>1, <1>4 DEF RestInv, ModulesListed
  <2> QED
    BY <1>1, <2>1, <2>2, <2>3 DEF ModulesListed, Digested
<1>8. rest => Up(ProjectT, Hashes(listed))
  <2>1. rest => Rows = listed
    BY <1>1 DEF RestInv, FilesListed, AtRest, Running
  <2> QED
    BY <2>1 DEF RestInv, AtRest
<1>9. AtRest'
  BY <1>1, <1>2, <1>8, StaysAtRest DEF Running
<1> QED
  BY <1>1, <1>2, <1>6, <1>7, <1>8, <1>9, StaysSettled DEF RestInv, Committed, tables

LEMMA RestMirror ==
  ASSUME RestInv, Sound', Mirror
  PROVE  RestInv' /\ ~rest
<1>1. /\ UNCHANGED <<disk, files, sums, rest, quiet, pc, todo, work, listed>>
      /\ target # None
  BY DEF Mirror, uninvolved
<1>2. \A f \in Files : Kept(f)' = Kept(f)
  BY <1>1 DEF Kept, Up
<1>3. \A m \in Modules : Up(ModuleT(m), Hashes(In(m, listed)))' = Up(ModuleT(m), Hashes(In(m, listed)))
  BY <1>1, SameHashes DEF Up, In
<1>4. Up(ProjectT, Hashes(listed))' = Up(ProjectT, Hashes(listed))
  BY <1>1, SameHashes DEF Up
<1>5. FilesPruned' /\ FilesListed'
  BY <1>1, <1>2, ListedFiles
     DEF RestInv, FilesPruned, FilesListed, Rows, Summing, At, Undisturbed
<1>6. ModulesListed'
  BY <1>1, <1>3, <1>4, ListedFiles DEF RestInv, ModulesListed, Digested, At
<1>7. ~rest
  BY <1>1 DEF RestInv, AtRest
<1> QED
  BY <1>1, <1>5, <1>6, <1>7 DEF RestInv, AtRest, Settled, Undisturbed, Committed

LEMMA RestFinish ==
  ASSUME RestInv, Sound', Finish
  PROVE  RestInv'
<1> USE DEF At, tables
<1>1. /\ UNCHANGED <<disk, files, sums, quiet>>
      /\ pc = "finish" /\ pc' = "done" /\ target' = None /\ work' = Nothing
      /\ listed' = {} /\ rest' = (quiet = Files)
  BY DEF Finish, Forget
<1>2. FilesPruned' /\ FilesListed' /\ ModulesListed'
  BY <1>1 DEF FilesPruned, FilesListed, ModulesListed, Summing
<1>3. Undisturbed => \A f \in Files : Settled(f)
  BY <1>1 DEF RestInv, Committed
<1>4. ASSUME Undisturbed PROVE AtRest'
  <2>1. Rows = listed /\ Digested = {m \in Modules : In(m, Rows) # {}}
    BY <1>1, <1>4, ListedFiles DEF RestInv, FilesListed, Digested, In, Modules
  <2>2. \A S : Hashes(S)' = Hashes(S)
    BY <1>1, SameHashes
  <2>3. \A f \in Files : Settled(f)' = Settled(f) /\ Kept(f)' = Kept(f)
    BY <1>1 DEF Settled, Kept, Up
  <2>4. Rows' = Rows /\ \A m \in Modules : In(m, Rows)' = In(m, Rows)
    BY <1>1 DEF Rows, In
  <2>5. \A f \in Files : IF f \in Rows THEN Kept(f) ELSE sums[FileT(f)] = None
    BY <1>1, <2>1 DEF RestInv, FilesListed, FilesPruned, Summing
  <2>6. \A m \in Modules : IF In(m, Rows) = {} THEN sums[ModuleT(m)] = None
                           ELSE Up(ModuleT(m), Hashes(In(m, Rows)))
    BY <1>1, <2>1 DEF RestInv, ModulesListed
  <2>7. Up(ProjectT, Hashes(Rows))
    BY <1>1, <2>1 DEF RestInv, ModulesListed
  <2>8. \A m \in Modules : IF In(m, Rows)' = {} THEN sums'[ModuleT(m)] = None
                           ELSE Up(ModuleT(m), Hashes(In(m, Rows)))'
    BY <1>1, <2>2, <2>4, <2>6 DEF Up
  <2>9. Up(ProjectT, Hashes(Rows))'
    BY <1>1, <2>2, <2>4, <2>7 DEF Up
  <2>10. Undisturbed'
    BY <1>1, <1>4 DEF Undisturbed
  <2> QED
    BY <1>1, <1>3, <1>4, <2>3, <2>4, <2>5, <2>8, <2>9, <2>10 DEF AtRest
<1>5. rest' = Undisturbed
  BY <1>1 DEF Undisturbed
<1>6. AtRest'
  BY <1>4, <1>5 DEF AtRest
<1> QED
  BY <1>1, <1>2, <1>3, <1>6 DEF RestInv, Undisturbed, Settled

\* One step keeps the invariant, and at rest leaves the tables alone.
LEMMA RestStep ==
  ASSUME RestInv, [Next]_vars
  PROVE  RestInv' /\ (rest => UNCHANGED tables)
<1> USE DEF uninvolved, locals
<1>0. Sound'
  BY SoundStep
<1>1. CASE \E f \in Files : Save(f) \/ Touch(f) \/ Delete(f)
  <2>1. PICK f \in Files : \E entry : Changed(f, entry)
    BY <1>1 DEF Save, Touch, Delete
  <2> QED
    BY <1>0, <2>1, RestUser DEF Changed
<1>2. CASE Start \/ EndWalk \/ \E f \in Files : Walk(f)
  BY <1>0, <1>2, RestWalks DEF Start, EndWalk, Walk
<1>3. ASSUME NEW f \in Files, Classify(f) PROVE RestInv' /\ UNCHANGED tables
  <2>1. CASE Fail
    BY <1>0, <1>3, <2>1, RestStop DEF Classify, Fail
  <2>2. CASE ~Fail
    BY <1>0, <1>3, <2>2, RestWalks DEF Classify
  <2> QED
    BY <2>1, <2>2
<1>4. CASE Commit
  BY <1>0, <1>4, RestCommit, RestCommits DEF Commit, tables
<1>5. ASSUME NEW f \in Files, Summarize(f) PROVE RestInv' /\ (rest => UNCHANGED tables)
  <2>1. CASE Fail
    <3>1. pc' = "failed"
      BY <2>1 DEF Fail
    <3>2. At("files") /\ Unreadable(f) /\ UNCHANGED <<disk, tables, rest>>
      BY <1>5, <3>1 DEF Summarize, tables, At
    <3> QED
      BY <1>0, <2>1, <3>1, <3>2, RestStop DEF Fail
  <2>2. CASE ~Fail
    BY <1>0, <1>5, <2>2, RestSummarize
  <2> QED
    BY <2>1, <2>2
<1>6. CASE PruneFiles
  <2>1. rest => \A f \in Files \ Rows : sums[FileT(f)] = None
    BY DEF RestInv, AtRest
  <2>2. rest => UNCHANGED tables
    BY <1>6, <2>1 DEF PruneFiles, Prune, StaleFiles, Rows, tables
  <2> QED
    BY <1>0, <1>6, <2>2, RestPruneFiles
<1>7. CASE PruneModules
  <2>1. rest => UNCHANGED <<sums, files, mirror>>
    <3>1. rest => Rows \subseteq listed
      BY <1>7 DEF PruneModules, Prune, RestInv, FilesListed, AtRest, Running, At
    <3>2. rest => \A m \in Modules \ Digested : In(m, Rows) = {}
      BY <3>1 DEF In, Digested
    <3>3. rest => \A m \in Modules \ Digested : sums[ModuleT(m)] = None
      BY <3>2 DEF RestInv, AtRest
    <3> QED
      BY <1>7, <3>3 DEF PruneModules, Prune
  <2> QED
    BY <1>0, <1>7, <2>1, RestPruneModules DEF tables
<1>8. CASE EndFiles
  BY <1>0, <1>8, RestEndFiles DEF EndFiles
<1>9. ASSUME NEW m \in Modules, SyncModule(m) PROVE RestInv' /\ (rest => UNCHANGED tables)
  BY <1>0, <1>9, RestSyncModule
<1>10. CASE SyncProject
  BY <1>0, <1>10, RestSyncProject
<1>11. CASE Mirror
  BY <1>0, <1>11, RestMirror
<1>12. CASE Finish
  BY <1>0, <1>12, RestFinish DEF Finish
<1>13. CASE Abort
  BY <1>0, <1>13, RestStop DEF Abort
<1>14. CASE UNCHANGED vars
  <2>1. \A S : Hashes(S)' = Hashes(S)
    BY <1>14, SameHashes DEF vars, tables
  <2>2. /\ \A m \in Modules : /\ Up(ModuleT(m), Hashes(In(m, listed)))' = Up(ModuleT(m), Hashes(In(m, listed)))
                             /\ Up(ModuleT(m), Hashes(In(m, Rows)))' = Up(ModuleT(m), Hashes(In(m, Rows)))
        /\ Up(ProjectT, Hashes(listed))' = Up(ProjectT, Hashes(listed))
        /\ Up(ProjectT, Hashes(Rows))' = Up(ProjectT, Hashes(Rows))
    BY <1>14, <2>1 DEF Up, In, Rows, vars, tables
  <2>3. \A f \in Files : Settled(f)' = Settled(f) /\ Kept(f)' = Kept(f)
    BY <1>14 DEF Settled, Kept, Up, vars, tables
  <2>4. Rows' = Rows /\ Digested' = Digested /\ \A m \in Modules : In(m, Rows)' = In(m, Rows)
    BY <1>14 DEF Rows, In, Digested, vars, tables
  <2>5. FilesPruned' /\ FilesListed'
    BY <1>14, <2>3, <2>4, ListedFiles
       DEF RestInv, FilesPruned, FilesListed, Summing, Undisturbed, At, vars, tables
  <2>6. ModulesListed'
    BY <1>14, <2>2, <2>4, ListedFiles DEF RestInv, ModulesListed, At, vars, tables
  <2>7. AtRest'
    BY <1>14, <2>2, <2>3, <2>4 DEF RestInv, AtRest, Running, Undisturbed, vars, tables
  <2> QED
    BY <1>0, <1>14, <2>3, <2>5, <2>6, <2>7 DEF RestInv, Undisturbed, Committed, vars
<1> QED
  BY <1>1, <1>2, <1>3, <1>4, <1>5, <1>6, <1>7, <1>8, <1>9, <1>10, <1>11, <1>12, <1>13,
     <1>14 DEF Next, Step

\* Every variable stays in its type.
THEOREM TypeCorrect == Spec => []TypeOK
<1>1. RestInv /\ [Next]_vars => RestInv'
  BY RestStep
<1>2. RestInv => TypeOK
  BY DEF RestInv, Sound
<1> QED
  BY RestInit, <1>1, <1>2, PTL DEF Spec

\* A run over a tree that an earlier run has indexed, and that has not changed
\* since, writes neither rows nor summaries nor their mirror, however many runs
\* died before or in between.
THEOREM IdempotentRunCorrect == Spec => IdempotentRun
<1>1. RestInv /\ [Next]_vars => RestInv' /\ [rest => UNCHANGED tables]_vars
  BY RestStep
<1> QED
  BY RestInit, <1>1, PTL DEF Spec, IdempotentRun

\* Who fails, and why.
LEMMA FailStep ==
  ASSUME RestInv, Next, ~At("failed"), pc' = "failed"
  PROVE  \/ quiet # Files
         \/ \E f \in Files : files[f] # None /\ disk[f] # None /\ disk[f].kind = "garbled"
<1>1. \/ \E f \in Files : Classify(f) /\ ~Unchanged(f) /\ disk[f] = None
      \/ \E f \in Files : Summarize(f) /\ Unreadable(f)
  BY DEF Next, Step, Save, Touch, Delete, Changed, Start, Walk, EndWalk, Classify, Commit,
         PruneFiles, PruneModules, Prune, Summarize, EndFiles, SyncModule, SyncProject, Mirror,
         Finish, Abort, uninvolved, locals, At
<1>2. ASSUME NEW f \in Files, Classify(f), disk[f] = None PROVE quiet # Files
  <2>1. At("classify") /\ f \in todo /\ Seen(f) = None
    BY <1>2 DEF Classify, Seen
  <2>2. found[f] # None
    BY <2>1 DEF RestInv, Sound, IndexInv, FoundHonest
  <2> QED
    BY <2>1, <2>2 DEF RestInv, Sound, IndexInv, FoundHonest, At
<1>3. ASSUME NEW f \in Files, Summarize(f), Unreadable(f)
      PROVE  files[f] # None /\ disk[f] # None /\ disk[f].kind = "garbled"
  BY <1>3 DEF Summarize, Unreadable, RestInv, FilesListed, Rows
<1> QED
  BY <1>1, <1>2, <1>3

\* A run gives up only when a file changed under it, or when a file it once
\* indexed is no longer UTF-8.
THEOREM FailsForCauseCorrect == Spec => FailsForCause
<1>1. RestInv /\ [Next]_vars => RestInv'
  BY RestStep
<1>2. RestInv /\ [Next]_vars =>
        [~At("failed") /\ pc' = "failed" =>
           \/ quiet # Files
           \/ \E f \in Files : files[f] # None /\ disk[f] # None /\ disk[f].kind = "garbled"]_vars
  BY FailStep
<1> QED
  BY RestInit, <1>1, <1>2, PTL DEF Spec, FailsForCause

-----------------------------------------------------------------------------
(* The summaries of the files, as long as no content comes back: a content  *)
(* has one number, and nothing was made of it before it was written.        *)

\* A summary made under the hash of what the file holds is made of that.
SumHonest(f) ==
  sums[FileT(f)] # None =>
    /\ sums[FileT(f)].source <= edits
    /\ disk[f] # None /\ disk[f].content = sums[FileT(f)].source =>
         sums[FileT(f)].text = disk[f].content

Contents ==
  \A f \in Files :
    /\ disk[f]  # None => disk[f].content <= edits
    /\ files[f] # None => files[f].hash <= edits
    /\ work[f]  # None => work[f].hash <= edits
    /\ SumHonest(f)

\* The loop over the rows leaves no quiet text file without its summary.
Summed ==
  pc \in {"files", "prunemodules", "modules", "finish", "done"} =>
    \A f \in quiet : disk[f] # None /\ disk[f].kind = "text" =>
      Kept(f) \/ (At("files") /\ f \in todo)

SumsInv == RestInv /\ Contents /\ Summed

LEMMA SumsInit == Init => SumsInv
<1> SUFFICES ASSUME Init PROVE SumsInv
  OBVIOUS
<1>1. \A f \in Files : sums[FileT(f)] = None
  BY TargetNames DEF Init
<1>2. Contents
  BY <1>1 DEF Init, Contents, SumHonest, Nothing
<1> QED
  BY <1>2, RestInit DEF SumsInv, Init, Summed

\* Steps that leave rows and user files alone, and of the summaries of files
\* at most delete.
LEMMA ContentsKept ==
  ASSUME Contents, UNCHANGED <<disk, edits, files>>,
         \A f \in Files : sums'[FileT(f)] \in {sums[FileT(f)], None},
         \A f \in Files : work'[f] \in {work[f], None}
  PROVE  Contents'
BY DEF Contents, SumHonest

\* What the user writes is new: no summary was made under its number.
LEMMA ContentsUser ==
  ASSUME RestInv, Contents, NEW f \in Files, NEW entry, Changed(f, entry),
         entry = None \/ entry.content = edits + 1
           \/ (disk[f] # None /\ entry.content = disk[f].content)
  PROVE  Contents'
<1>1. /\ edits' = edits + 1 /\ edits \in Nat
      /\ UNCHANGED <<files, sums, work>>
      /\ disk' = [disk EXCEPT ![f] = entry] /\ disk \in [Files -> Entry \cup {None}]
  BY DEF Changed, tables, locals, RestInv, Sound, TypeOK
<1>2. SUFFICES ASSUME NEW g \in Files
               PROVE  /\ disk'[g] # None => disk'[g].content <= edits'
                      /\ files[g] # None => files[g].hash <= edits'
                      /\ work[g]  # None => work[g].hash <= edits'
                      /\ sums[FileT(g)] # None =>
                           /\ sums[FileT(g)].source <= edits'
                           /\ disk'[g] # None /\ disk'[g].content = sums[FileT(g)].source =>
                                sums[FileT(g)].text = disk'[g].content
  BY <1>1 DEF Contents, SumHonest
<1>3. /\ files[g] # None => files[g].hash \in Nat
      /\ work[g] # None => work[g].hash \in Nat
      /\ sums[FileT(g)] # None => sums[FileT(g)].source \in Nat
      /\ disk[g] # None => disk[g].content \in Nat
  BY DEF RestInv, Sound, TypeOK, Row, FileSummary, Entry
<1>4. /\ disk[g]  # None => disk[g].content <= edits
      /\ files[g] # None => files[g].hash <= edits
      /\ work[g]  # None => work[g].hash <= edits
      /\ sums[FileT(g)] # None =>
           /\ sums[FileT(g)].source <= edits
           /\ disk[g] # None /\ disk[g].content = sums[FileT(g)].source =>
                sums[FileT(g)].text = disk[g].content
  BY DEF Contents, SumHonest
<1>5. CASE g # f
  BY <1>1, <1>3, <1>4, <1>5
<1>6. CASE g = f
  BY <1>1, <1>3, <1>4, <1>6
<1> QED
  BY <1>5, <1>6

\* The summaries of modules and project are others than those of files.
LEMMA SyncWrites ==
  ASSUME RestInv, SyncProject \/ \E m \in Modules : SyncModule(m)
  PROVE  /\ UNCHANGED <<disk, edits, files, quiet, work>>
         /\ \A f \in Files : sums'[FileT(f)] = sums[FileT(f)]
<1>1. PICK t \in {ProjectT} \cup {ModuleT(m) : m \in Modules} : \E source, text :
        sums' = sums \/ Store(t, source, text)
  BY DEF SyncProject, SyncModule, Renew
<1>2. sums' = sums \/ sums' = [sums EXCEPT ![t] = sums'[t]]
  BY <1>1, TargetNames DEF Store, RestInv, Sound
<1>3. \A f \in Files : sums'[FileT(f)] = sums[FileT(f)]
  BY <1>2, TargetNames DEF RestInv, Sound
<1> QED
  BY <1>3 DEF SyncProject, SyncModule, uninvolved

LEMMA ContentsStep ==
  ASSUME ~Repeats, RestInv, Contents, [Next]_vars
  PROVE  Contents'
<1> USE DEF uninvolved, tables, locals
<1>1. ASSUME NEW f \in Files, Save(f) PROVE Contents'
  <2>1. PICK k \in Kinds, n \in 1 .. edits + 1 :
          Changed(f, [content |-> edits + 1, kind |-> k, stamp |-> n])
    BY <1>1 DEF Save, Stamps
  <2> QED
    BY <2>1, ContentsUser
<1>2. ASSUME NEW f \in Files, Touch(f) PROVE Contents'
  <2>1. disk[f] # None /\ [disk[f] EXCEPT !.stamp = edits + 1].content = disk[f].content
    BY <1>2 DEF Touch, RestInv, Sound, TypeOK, Entry
  <2> QED
    BY <1>2, <2>1, ContentsUser DEF Touch
<1>3. ASSUME NEW f \in Files, Delete(f) PROVE Contents'
  BY <1>3, ContentsUser DEF Delete
<1>4. CASE Start \/ EndWalk \/ EndFiles \/ Mirror \/ \E f \in Files : Walk(f)
  BY <1>4, ContentsKept DEF Start, EndWalk, EndFiles, Mirror, Walk
<1>5. ASSUME NEW f \in Files, Classify(f) PROVE Contents'
  <2>1. CASE Fail
    BY <1>5, <2>1, ContentsKept DEF Classify, Fail, Forget, Nothing
  <2>2. CASE ~Fail
    <3> DEFINE new == IF Unchanged(f) \/ ~IsText(f) THEN None
                      ELSE [hash |-> disk[f].content, stamp |-> found[f]]
    <3>1. /\ UNCHANGED <<disk, edits, files, sums>> /\ work' = [work EXCEPT ![f] = new]
          /\ Unchanged(f) \/ disk[f] # None
      BY <1>5, <2>2 DEF Classify
    <3>2. new # None => disk[f] # None /\ new.hash = disk[f].content
      BY <3>1
    <3> HIDE DEF new
    <3>3. \A g \in Files : work'[g] # None => work'[g].hash <= edits
      BY <3>1, <3>2 DEF Contents, RestInv, Sound, TypeOK
    <3> QED
      BY <3>1, <3>3 DEF Contents, SumHonest
  <2> QED
    BY <2>1, <2>2
<1>6. CASE Commit
  <2>1. /\ UNCHANGED <<disk, edits, sums>> /\ files' = [f \in Files |-> NewRow(f)]
        /\ work' = Nothing
    BY <1>6 DEF Commit
  <2>2. \A f \in Files : NewRow(f) \in {None, files[f], work[f]}
    BY DEF NewRow
  <2> QED
    BY <2>1, <2>2 DEF Contents, SumHonest, Nothing
<1>7. CASE PruneFiles \/ PruneModules
  <2>1. /\ UNCHANGED <<disk, edits, files, work>>
        /\ sums' = sums \/ \E t : sums' = [sums EXCEPT ![t] = None]
    BY <1>7 DEF PruneFiles, PruneModules, Prune
  <2>2. \A t \in Targets : sums'[t] \in {sums[t], None}
    BY <2>1 DEF RestInv, Sound
  <2> QED
    BY <2>1, <2>2, TargetNames, ContentsKept
<1>8. ASSUME NEW f \in Files, Summarize(f) PROVE Contents'
  <2>1. CASE Fail
    <3>1. pc' = "failed"
      BY <2>1 DEF Fail
    <3>2. At("files") /\ Unreadable(f) /\ UNCHANGED <<disk, edits, tables, rest>>
      BY <1>8, <3>1 DEF Summarize, At
    <3> QED
      BY <2>1, <3>2, ContentsKept DEF Fail, Forget, Nothing
  <2>2. CASE ~Fail
    <3>1. UNCHANGED <<disk, edits, files, work>> /\ f \in Rows
      BY <1>8, <2>2 DEF Summarize, RestInv, FilesListed
    <3>2. \A g \in Files \ {f} : sums'[FileT(g)] = sums[FileT(g)]
      BY <1>8, <2>2, SummarizeWrites
    <3>3. \/ sums' = sums
          \/ /\ sums'[FileT(f)] = [source |-> files[f].hash, text |-> disk[f].content]
             /\ disk[f] # None
      BY <1>8, <2>2, SummarizeWrites
    <3>4. SumHonest(f)'
      BY <3>1, <3>3 DEF SumHonest, Contents, Rows
    <3>5. \A g \in Files : SumHonest(g)'
      BY <3>1, <3>2, <3>4 DEF SumHonest, Contents
    <3> QED
      BY <3>1, <3>5 DEF Contents
  <2> QED
    BY <2>1, <2>2
<1>9. CASE SyncProject \/ \E m \in Modules : SyncModule(m)
  <2>1. UNCHANGED <<disk, edits, files, work>> /\ \A f \in Files : sums'[FileT(f)] = sums[FileT(f)]
    BY <1>9, SyncWrites
  <2> QED
    BY <2>1, ContentsKept
<1>10. CASE Finish \/ Abort
  BY <1>10, ContentsKept DEF Finish, Abort, Forget, Nothing
<1>11. CASE UNCHANGED vars
  BY <1>11, ContentsKept DEF vars
<1> QED
  BY <1>1, <1>2, <1>3, <1>4, <1>5, <1>6, <1>7, <1>8, <1>9, <1>10, <1>11 DEF Next, Step

\* Steps that leave what Summed speaks of alone, or leave its states.
LEMMA SummedKept ==
  ASSUME Summed, UNCHANGED <<disk, files, quiet>>,
         \A f \in quiet : sums'[FileT(f)] = sums[FileT(f)],
         \/ pc' \notin {"files", "prunemodules", "modules", "finish", "done"}
         \/ pc \in {"files", "prunemodules", "modules", "finish"}
              /\ (At("files") => todo' = todo /\ (pc' = pc \/ todo = {}))
         \/ pc' = pc /\ ~At("files")
  PROVE  Summed'
BY DEF Summed, Kept, Up, At

LEMMA SummedStep ==
  ASSUME ~Coarse, RestInv, Summed, [Next]_vars
  PROVE  Summed'
<1> USE DEF uninvolved, tables, locals, At
<1>0. quiet \subseteq Files
  BY DEF RestInv, Sound, TypeOK
<1>1. CASE \E f \in Files : Save(f) \/ Touch(f) \/ Delete(f)
  <2>1. PICK f \in Files : \E entry : Changed(f, entry)
    BY <1>1 DEF Save, Touch, Delete
  <2>2. /\ quiet' = quiet \ {f} /\ UNCHANGED <<files, sums, pc, todo>>
        /\ \A g \in quiet' : disk'[g] = disk[g]
    BY <1>0, <2>1 DEF Changed, RestInv, Sound, TypeOK
  <2> QED
    BY <2>2 DEF Summed, Kept, Up
<1>2. CASE Start \/ EndWalk \/ Commit \/ Abort
           \/ \E f \in Files : Walk(f) \/ Classify(f)
  BY <1>2 DEF Start, EndWalk, Commit, Abort, Walk, Classify, Fail, Summed
<1>3. CASE PruneFiles
  <2>1. ASSUME pc' = "files", NEW f \in quiet, disk[f] # None, disk[f].kind = "text"
        PROVE  f \in todo'
    <3>1. todo' = {g \in Files : files[g] # None} /\ Committed
      BY <1>3, <2>1 DEF PruneFiles, Prune, Committed
    <3> QED
      BY <1>0, <2>1, <3>1 DEF RestInv, Sound, IndexInv, IndexCurrent
  <2> QED
    BY <1>3, <2>1 DEF PruneFiles, Prune, Summed
<1>4. CASE PruneModules
  <2>1. \A f \in Files : sums'[FileT(f)] = sums[FileT(f)]
    BY <1>4, TargetNames DEF PruneModules, Prune, RestInv, Sound
  <2> QED
    BY <1>0, <1>4, <2>1, SummedKept DEF PruneModules, Prune
<1>5. ASSUME NEW f \in Files, Summarize(f) PROVE Summed'
  <2>1. CASE Fail
    BY <2>1 DEF Fail, Summed
  <2>2. CASE ~Fail
    <3>1. /\ UNCHANGED <<disk, files, quiet, pc>> /\ pc = "files" /\ todo' = todo \ {f}
      BY <1>5, <2>2 DEF Summarize
    <3>2. /\ \A g \in Files \ {f} : sums'[FileT(g)] = sums[FileT(g)]
          /\ Kept(f)' \/ Vanished(f)
      BY <1>5, <2>2, SummarizeWrites
    <3>4. SUFFICES ASSUME NEW h \in quiet, disk[h] # None, disk[h].kind = "text"
                   PROVE  Kept(h)' \/ h \in todo'
      BY <3>1 DEF Summed
    <3>5. CASE h = f
      BY <3>2, <3>4, <3>5 DEF Vanished
    <3>6. CASE h # f
      BY <1>0, <3>1, <3>2, <3>4, <3>6 DEF Summed, Kept, Up
    <3> QED
      BY <3>5, <3>6
  <2> QED
    BY <2>1, <2>2
<1>6. CASE EndFiles \/ Mirror
  BY <1>6, SummedKept DEF EndFiles, Mirror, Summed, Kept, Up
<1>7. CASE SyncProject \/ \E m \in Modules : SyncModule(m)
  <2>1. UNCHANGED <<disk, files, quiet>> /\ \A f \in quiet : sums'[FileT(f)] = sums[FileT(f)]
    BY <1>0, <1>7, SyncWrites
  <2> QED
    BY <1>7, <2>1, SummedKept DEF SyncProject, SyncModule
<1>8. CASE Finish
  BY <1>8, SummedKept DEF Finish
<1>9. CASE UNCHANGED vars
  BY <1>9 DEF vars, Summed, Kept, Up
<1> QED
  BY <1>1, <1>2, <1>3, <1>4, <1>5, <1>6, <1>7, <1>8, <1>9 DEF Next, Step

\* After a run the summary of every text file left alone since it began is made
\* of the file's present content, though it was read again after the row was
\* written and the user went on editing: as long as no stamp and no content comes
\* back.  (If a content may, it is not so: one read under the hash of the one
\* before it is kept once the one before is restored.)
THEOREM SummariesCurrentCorrect ==
  ASSUME ~Repeats, ~Coarse
  PROVE  Spec => []SummariesCurrent
<1>1. SumsInv /\ [Next]_vars => SumsInv'
  BY RestStep, ContentsStep, SummedStep DEF SumsInv
<1>2. SumsInv => SummariesCurrent
  <2> SUFFICES ASSUME SumsInv, At("done"), NEW f \in quiet, disk[f] # None, disk[f].kind = "text"
               PROVE  sums[FileT(f)] # None /\ sums[FileT(f)].text = disk[f].content
    BY DEF SummariesCurrent
  <2>1. f \in Files /\ Kept(f) /\ SumHonest(f)
    BY DEF SumsInv, Summed, Contents, RestInv, Sound, TypeOK, At
  <2>2. files[f].hash = disk[f].content
    BY DEF SumsInv, RestInv, Sound, IndexInv, IndexCurrent, Committed, At
  <2> QED
    BY <2>1, <2>2 DEF Kept, Up, SumHonest
<1> QED
  BY SumsInit, <1>1, <1>2, PTL DEF Spec

-----------------------------------------------------------------------------
(* The digest.  A module's summary is renewed when the hashes of its files  *)
(* change; that it then matches them in every part needs that a hash, once  *)
(* a file has left it, never comes back, and that no two files share one.   *)

\* The contents a file has, or had where it is still remembered.
Uses(f) ==
  {c \in Nat :
     \/ disk[f]  # None /\ c = disk[f].content
     \/ files[f] # None /\ c = files[f].hash
     \/ work[f]  # None /\ c = work[f].hash
     \/ sums[FileT(f)] # None /\ c = sums[FileT(f)].source}

Owned(f, c) == c \in Nat /\ c <= edits /\ \A g \in Files : c \in Uses(g) => g = f

Owners == \A f \in Files : \A c \in Uses(f) : Owned(f, c)

\* A file has left a content for good: no row of it can come up again.
Left(f, c) ==
  /\ files[f] # None => files[f].hash > c
  /\ work[f]  # None => work[f].hash > c
  /\ disk[f]  # None => \/ disk[f].content > c
                        \/ disk[f].kind = "large" /\ found[f] = None

Visited(f) == At("classify") \/ (At("walk") /\ f \notin todo)

\* Rows follow the contents of their files upwards.
Upward ==
  \A f \in Files :
    /\ files[f] # None /\ disk[f] # None => files[f].hash <= disk[f].content
    /\ work[f]  # None /\ disk[f] # None => work[f].hash <= disk[f].content
    /\ files[f] # None /\ work[f] # None => files[f].hash <= work[f].hash
    /\ files[f] # None /\ disk[f] # None /\ Visited(f) /\ found[f] = None =>
         files[f].hash < disk[f].content \/ disk[f].kind = "large"

MadeOf(f, c) == sums[FileT(f)] # None /\ sums[FileT(f)].source = c

\* A summary that is out of date stays so.
Superseded ==
  \A f \in Files, c \in Nat :
    MadeOf(f, c) /\ ~(files[f] # None /\ files[f].hash = c) => Left(f, c)

\* What a digest says of a file is what its summary says, as long as that is
\* made of the same content.
Told(f, c, text) ==
  /\ Owned(f, c)
  /\ IF MadeOf(f, c) THEN sums[FileT(f)].text = text ELSE Left(f, c)

ModulesTold ==
  \A m \in Modules : sums[ModuleT(m)] # None =>
    LET digest == sums[ModuleT(m)] IN
    /\ DOMAIN digest.text = DOMAIN digest.source
    /\ \A i \in DOMAIN digest.text :
         Told(digest.text[i].file, digest.source[i], digest.text[i].text)

ProjectTold ==
  sums[ProjectT] # None =>
    \E S \in SUBSET Files :
      /\ sums[ProjectT].text = Spread(S)
      /\ DOMAIN sums[ProjectT].source = DOMAIN Sorted(S)
      /\ \A i \in DOMAIN Sorted(S) : Owned(Sorted(S)[i], sums[ProjectT].source[i])

\* The loop over the rows hands on every summary that is up to date.
HandedOn ==
  Summing => \A f \in Files : files[f] # None /\ Kept(f) => f \in listed \/ (At("files") /\ f \in todo)

\* DigestMatchesIndex, wherever the run is.
Digest ==
  /\ \A f \in Files : sums[FileT(f)] # None => files[f] # None
  /\ \A m \in Modules :
       IF In(m, InDigest) = {} THEN sums[ModuleT(m)] = None
       ELSE sums[ModuleT(m)] # None /\ sums[ModuleT(m)].text = Lines(In(m, InDigest))
  /\ sums[ProjectT] # None /\ sums[ProjectT].text = Spread(InDigest)

History == RestInv /\ Contents /\ Owners /\ Upward /\ Superseded

DigestInv ==
  /\ History /\ ModulesTold /\ ProjectTold /\ HandedOn
  /\ DigestMatchesIndex

\* What the steps below need of the types.
LEMMA Numbers ==
  ASSUME RestInv, NEW f \in Files
  PROVE  /\ edits \in Nat
         /\ disk[f]  # None => disk[f].content \in Nat
         /\ files[f] # None => files[f].hash \in Nat
         /\ work[f]  # None => work[f].hash \in Nat
         /\ sums[FileT(f)] # None => sums[FileT(f)].source \in Nat /\ sums[FileT(f)].text \in Nat
<1>1. MaxEdits \in Nat /\ edits \in 0 .. MaxEdits
  BY IndexConstants DEF RestInv, Sound, TypeOK
<1>2. /\ disk[f] \in Entry \cup {None} /\ files[f] \in Row \cup {None}
      /\ work[f] \in Row \cup {None} /\ sums[FileT(f)] \in FileSummary \cup {None}
  BY DEF RestInv, Sound, TypeOK
<1> QED
  BY <1>1, <1>2 DEF Entry, Row, FileSummary

\* The four steps that matter to contents, and what all the others leave alone.
UserMoves(f) ==
  /\ UNCHANGED <<files, sums, pc, todo, found, work, listed>>
  /\ edits' = edits + 1
  /\ \A g \in Files \ {f} : disk'[g] = disk[g]
  /\ \/ disk'[f] = None
     \/ disk'[f] # None /\ disk'[f].content = edits + 1
     \/ /\ disk[f] # None /\ disk'[f] # None
        /\ disk'[f].content = disk[f].content /\ disk'[f].kind = disk[f].kind

Quietly ==
  /\ UNCHANGED <<disk, edits, files>>
  /\ \A f \in Files :
       /\ work'[f] \in {work[f], None} /\ found'[f] \in {found[f], None}
       /\ Visited(f)' => Visited(f) /\ found'[f] = found[f]
       /\ \/ sums'[FileT(f)] = sums[FileT(f)]
          \/ sums'[FileT(f)] = None /\ files[f] = None

SummaryMade(f) ==
  /\ UNCHANGED <<disk, edits, files, found, work>>
  /\ \A g \in Files : ~Visited(g)'
  /\ \A g \in Files \ {f} : sums'[FileT(g)] = sums[FileT(g)]
  /\ \/ sums'[FileT(f)] = sums[FileT(f)]
     \/ /\ files[f] # None /\ ~Kept(f) /\ disk[f] # None
        /\ sums'[FileT(f)] = [source |-> files[f].hash, text |-> disk[f].content]

LEMMA Moves ==
  ASSUME ~Repeats, RestInv, [Next]_vars
  PROVE  \/ Quietly
         \/ \E f \in Files : UserMoves(f) \/ Walk(f) \/ (Classify(f) /\ ~Fail) \/ SummaryMade(f)
         \/ Commit
<1> USE DEF uninvolved, tables, locals, At
<1>1. ASSUME NEW f \in Files, Save(f) PROVE UserMoves(f)
  <2>1. PICK k \in Kinds, n \in 1 .. edits + 1 :
          Changed(f, [content |-> edits + 1, kind |-> k, stamp |-> n])
    BY <1>1 DEF Save, Stamps
  <2>2. [content |-> edits + 1, kind |-> k, stamp |-> n] \in Entry
    BY <2>1, Numbers DEF Entry, RestInv, Sound, TypeOK
  <2>3. disk'[f] # None /\ disk'[f].content = edits + 1
    BY <2>1, <2>2, IndexConstants DEF Changed, RestInv, Sound, TypeOK
  <2> QED
    BY <2>1, <2>3 DEF Changed, UserMoves, RestInv, Sound, TypeOK
<1>2. ASSUME NEW f \in Files, Touch(f) PROVE UserMoves(f)
  <2>1. /\ disk[f] # None /\ [disk[f] EXCEPT !.stamp = edits + 1] \in Entry
        /\ [disk[f] EXCEPT !.stamp = edits + 1].content = disk[f].content
        /\ [disk[f] EXCEPT !.stamp = edits + 1].kind = disk[f].kind
    BY <1>2, Numbers DEF Touch, RestInv, Sound, TypeOK, Entry
  <2> QED
    BY <1>2, <2>1, IndexConstants DEF Touch, Changed, UserMoves, RestInv, Sound, TypeOK
<1>3. ASSUME NEW f \in Files, Delete(f) PROVE UserMoves(f)
  BY <1>3 DEF Delete, Changed, UserMoves, RestInv, Sound, TypeOK
<1>4. CASE Start \/ EndWalk \/ EndFiles \/ Mirror \/ UNCHANGED vars
  BY <1>4 DEF Start, EndWalk, EndFiles, Mirror, vars, Quietly, Visited
<1>5. ASSUME Forget, disk' = disk, edits' = edits, files' = files, sums' = sums,
             pc' \in {"failed", "killed", "done"}
      PROVE  Quietly
  BY <1>5 DEF Forget, Nothing, Quietly, Visited
<1>6. CASE PruneFiles
  <2>1. /\ UNCHANGED <<disk, edits, files, found, work>> /\ pc' \in {"prunefiles", "files"}
        /\ sums' = sums \/ \E t \in StaleFiles : sums' = [sums EXCEPT ![t] = None]
    BY <1>6 DEF PruneFiles, Prune
  <2>2. ASSUME NEW f \in Files, sums'[FileT(f)] # sums[FileT(f)]
        PROVE  sums'[FileT(f)] = None /\ files[f] = None
    <3>1. PICK g \in Files : files[g] = None /\ sums' = [sums EXCEPT ![FileT(g)] = None]
      BY <2>1, <2>2 DEF StaleFiles
    <3>2. sums'[FileT(g)] = None /\ (f # g => sums'[FileT(f)] = sums[FileT(f)])
      BY <3>1, TargetNames DEF RestInv, Sound
    <3> QED
      BY <2>2, <3>1, <3>2
  <2> QED
    BY <2>1, <2>2 DEF Quietly, Visited
<1>7. CASE PruneModules
  <2>1. \A f \in Files : sums'[FileT(f)] = sums[FileT(f)]
    BY <1>7, TargetNames DEF PruneModules, Prune, RestInv, Sound
  <2> QED
    BY <1>7, <2>1 DEF PruneModules, Prune, Quietly, Visited
<1>8. CASE SyncProject \/ \E m \in Modules : SyncModule(m)
  <2>1. \A f \in Files : sums'[FileT(f)] = sums[FileT(f)]
    BY <1>8, SyncWrites
  <2> QED
    BY <1>8, <2>1 DEF SyncProject, SyncModule, Quietly, Visited
<1>9. ASSUME NEW f \in Files, Summarize(f), ~Fail PROVE SummaryMade(f)
  <2>1. /\ UNCHANGED <<disk, edits, files, found, work, pc>> /\ pc = "files"
        /\ files[f] # None
    BY <1>9 DEF Summarize, RestInv, FilesListed, Rows
  <2>2. Summarized(f) => ~Kept(f)
    BY DEF Summarized
  <2>3. Keep(f) \/ Vanished(f) => sums' = sums
    BY DEF Keep, Vanished
  <2>4. Keep(f) \/ Vanished(f) \/ Summarized(f)
    BY <1>9 DEF Summarize
  <2> QED
    BY <1>9, <2>1, <2>2, <2>3, <2>4, SummarizeWrites DEF SummaryMade, Visited
<1>10. ASSUME NEW f \in Files, Summarize(f), Fail PROVE Quietly
  <2>1. pc' = "failed" /\ UNCHANGED <<disk, edits, files>> /\ Unreadable(f) /\ sums' = sums
    BY <1>10 DEF Summarize, Fail
  <2> QED
    BY <1>5, <1>10, <2>1 DEF Fail
<1>11. ASSUME NEW f \in Files, Classify(f), Fail PROVE Quietly
  BY <1>5, <1>11 DEF Classify, Fail
<1>12. CASE Finish \/ Abort
  BY <1>5, <1>12 DEF Finish, Abort
<1> QED
  BY <1>1, <1>2, <1>3, <1>4, <1>6, <1>7, <1>8, <1>9, <1>10, <1>11, <1>12 DEF Next, Step

\* A content once owned stays so: only the user makes new ones.
LEMMA UsesStep ==
  ASSUME ~Repeats, RestInv, [Next]_vars, NEW g \in Files
  PROVE  \A c \in Uses(g)' :
           \/ c \in Uses(g) /\ edits' >= edits
           \/ c = edits + 1 /\ edits' = edits + 1 /\ UserMoves(g)
<1> USE Numbers
<1>1. SUFFICES ASSUME NEW c \in Uses(g)'
               PROVE  \/ c \in Uses(g) /\ edits' >= edits
                      \/ c = edits + 1 /\ edits' = edits + 1 /\ UserMoves(g)
  OBVIOUS
<1>2. /\ c \in Nat
      /\ \/ disk'[g]  # None /\ c = disk'[g].content
         \/ files'[g] # None /\ c = files'[g].hash
         \/ work'[g]  # None /\ c = work'[g].hash
         \/ sums'[FileT(g)] # None /\ c = sums'[FileT(g)].source
  BY <1>1 DEF Uses
<1>3. CASE Quietly
  BY <1>2, <1>3 DEF Quietly, Uses
<1>4. ASSUME NEW f \in Files, UserMoves(f)
      PROVE  \/ c \in Uses(g) /\ edits' >= edits
             \/ c = edits + 1 /\ edits' = edits + 1 /\ UserMoves(g)
  BY <1>2, <1>4 DEF UserMoves, Uses
<1>5. ASSUME NEW f \in Files, Walk(f) PROVE c \in Uses(g) /\ edits' >= edits
  BY <1>2, <1>5 DEF Walk, uninvolved, tables, Uses
<1>6. ASSUME NEW f \in Files, Classify(f), ~Fail PROVE c \in Uses(g) /\ edits' >= edits
  <2> DEFINE new == IF Unchanged(f) \/ ~IsText(f) THEN None
                    ELSE [hash |-> disk[f].content, stamp |-> found[f]]
  <2>1. /\ UNCHANGED <<disk, edits, files, sums>> /\ work' = [work EXCEPT ![f] = new]
        /\ new # None => disk[f] # None /\ new.hash = disk[f].content
    BY <1>6 DEF Classify, tables
  <2> HIDE DEF new
  <2>2. work'[g] \in {work[g], new} /\ (g # f => work'[g] = work[g])
    BY <2>1 DEF RestInv, Sound, TypeOK
  <2> QED
    BY <1>2, <2>1, <2>2 DEF Uses
<1>7. ASSUME NEW f \in Files, SummaryMade(f) PROVE c \in Uses(g) /\ edits' >= edits
  BY <1>2, <1>7 DEF SummaryMade, Uses
<1>8. ASSUME Commit PROVE c \in Uses(g) /\ edits' >= edits
  <2>1. /\ UNCHANGED <<disk, edits, sums>> /\ work'[g] = None /\ files'[g] \in {None, files[g], work[g]}
    BY <1>8 DEF Commit, uninvolved, Nothing, NewRow
  <2> QED
    BY <1>2, <2>1 DEF Uses
<1> QED
  BY <1>3, <1>4, <1>5, <1>6, <1>7, <1>8, Moves

LEMMA OwnedStep ==
  ASSUME ~Repeats, History, [Next]_vars, NEW f \in Files, NEW c, Owned(f, c)
  PROVE  Owned(f, c)'
<1>1. c \in Nat /\ c <= edits /\ edits \in Nat
  BY Numbers DEF Owned, History
<1>2. edits' >= edits /\ edits' \in Nat
  <2>1. edits' = edits \/ edits' = edits + 1
    BY Moves DEF History, Quietly, UserMoves, Walk, Classify, SummaryMade, Commit, uninvolved
  <2> QED
    BY <1>1, <2>1
<1>3. ASSUME NEW g \in Files, c \in Uses(g)' PROVE g = f
  BY <1>1, <1>3, UsesStep DEF History, Owned
<1> QED
  BY <1>1, <1>2, <1>3 DEF Owned

LEMMA OwnersStep ==
  ASSUME ~Repeats, History, [Next]_vars
  PROVE  Owners'
<1> SUFFICES ASSUME NEW f \in Files, NEW c \in Uses(f)' PROVE Owned(f, c)'
  BY DEF Owners
<1>1. CASE c \in Uses(f)
  BY <1>1, OwnedStep DEF History, Owners
<1>2. CASE c = edits + 1 /\ edits' = edits + 1 /\ UserMoves(f)
  <2>1. edits \in Nat
    BY Numbers DEF History
  <2>2. ASSUME NEW g \in Files, g # f PROVE c \notin Uses(g)'
    <3>1. c \notin Uses(g)
      BY <1>2, <2>1 DEF History, Owners, Owned
    <3>2. Uses(g)' = Uses(g)
      BY <1>2, <2>2 DEF UserMoves, Uses
    <3> QED
      BY <3>1, <3>2
  <2> QED
    BY <1>2, <2>1, <2>2 DEF Owned
<1> QED
  BY <1>1, <1>2, UsesStep DEF History

LEMMA LeftStep ==
  ASSUME ~Repeats, RestInv, [Next]_vars, NEW f \in Files, NEW c \in Nat, c <= edits, Left(f, c)
  PROVE  Left(f, c)'
<1> USE Numbers
<1>1. CASE Quietly
  BY <1>1 DEF Quietly, Left
<1>2. ASSUME NEW g \in Files, UserMoves(g) PROVE Left(f, c)'
  BY <1>2 DEF UserMoves, Left
<1>3. ASSUME NEW g \in Files, Walk(g) PROVE Left(f, c)'
  BY <1>3 DEF Walk, uninvolved, tables, Left, RestInv, Sound, TypeOK
<1>4. ASSUME NEW g \in Files, Classify(g), ~Fail PROVE Left(f, c)'
  <2> DEFINE new == IF Unchanged(g) \/ ~IsText(g) THEN None
                    ELSE [hash |-> disk[g].content, stamp |-> found[g]]
  <2>1. /\ UNCHANGED <<disk, edits, files, found>> /\ work' = [work EXCEPT ![g] = new]
        /\ new # None => disk[g] # None /\ new.hash = disk[g].content
        /\ found[g] # None
    BY <1>4 DEF Classify, tables, RestInv, Sound, IndexInv, FoundHonest
  <2> HIDE DEF new
  <2>2. (f # g => work'[f] = work[f]) /\ (f = g => work'[f] = new)
    BY <2>1 DEF RestInv, Sound, TypeOK
  <2> QED
    BY <2>1, <2>2 DEF Left
<1>5. ASSUME NEW g \in Files, SummaryMade(g) PROVE Left(f, c)'
  BY <1>5 DEF SummaryMade, Left
<1>6. CASE Commit
  <2>1. /\ UNCHANGED disk /\ work'[f] = None /\ found'[f] = None
        /\ files'[f] \in {None, files[f], work[f]}
    BY <1>6 DEF Commit, uninvolved, Nothing, NewRow
  <2> QED
    BY <2>1 DEF Left
<1> QED
  BY <1>1, <1>2, <1>3, <1>4, <1>5, <1>6, Moves

\* Upward, of one file.
Ascends(f) ==
  /\ files[f] # None /\ disk[f] # None => files[f].hash <= disk[f].content
  /\ work[f]  # None /\ disk[f] # None => work[f].hash <= disk[f].content
  /\ files[f] # None /\ work[f] # None => files[f].hash <= work[f].hash
  /\ files[f] # None /\ disk[f] # None /\ Visited(f) /\ found[f] = None =>
       files[f].hash < disk[f].content \/ disk[f].kind = "large"

LEMMA AscendsStep ==
  ASSUME ~Repeats, RestInv, Contents, [Next]_vars, NEW f \in Files, Ascends(f)
  PROVE  Ascends(f)'
<1> USE Numbers
<1>0. /\ disk[f]  # None => disk[f].content <= edits
      /\ files[f] # None => files[f].hash <= edits
      /\ work[f]  # None => work[f].hash <= edits
  BY DEF Contents
<1>1. CASE Quietly
  BY <1>1 DEF Quietly, Ascends
<1>2. ASSUME NEW g \in Files, UserMoves(g) PROVE Ascends(f)'
  BY <1>0, <1>2 DEF UserMoves, Ascends, Visited, At
<1>3. ASSUME NEW g \in Files, Walk(g) PROVE Ascends(f)'
  <2>1. /\ UNCHANGED <<disk, files, work, pc>> /\ pc = "walk" /\ todo' = todo \ {g}
        /\ found' = [found EXCEPT ![g] = Seen(g)] /\ work = Nothing
    BY <1>3 DEF Walk, uninvolved, tables, Seen, RestInv, Sound, IndexInv, WorkHonest, At
  <2>2. f # g => found'[f] = found[f] /\ (Visited(f)' => Visited(f))
    BY <2>1 DEF RestInv, Sound, TypeOK, Visited, At
  <2>3. f = g => found'[f] = Seen(f)
    BY <2>1 DEF RestInv, Sound, TypeOK
  <2>4. disk[f] # None /\ Seen(f) = None => disk[f].kind = "large"
    BY IndexConstants DEF Seen, RestInv, Sound, TypeOK, Entry
  <2> QED
    BY <2>1, <2>2, <2>3, <2>4 DEF Ascends
<1>4. ASSUME NEW g \in Files, Classify(g), ~Fail PROVE Ascends(f)'
  <2> DEFINE new == IF Unchanged(g) \/ ~IsText(g) THEN None
                    ELSE [hash |-> disk[g].content, stamp |-> found[g]]
  <2>1. /\ UNCHANGED <<disk, edits, files, found, pc>> /\ work' = [work EXCEPT ![g] = new]
        /\ new # None => disk[g] # None /\ new.hash = disk[g].content
        /\ pc = "classify"
    BY <1>4 DEF Classify, tables, At
  <2> HIDE DEF new
  <2>2. (f # g => work'[f] = work[f]) /\ (f = g => work'[f] = new)
    BY <2>1 DEF RestInv, Sound, TypeOK
  <2> QED
    BY <2>1, <2>2 DEF Ascends, Visited, At
<1>5. ASSUME NEW g \in Files, SummaryMade(g) PROVE Ascends(f)'
  BY <1>5 DEF SummaryMade, Ascends
<1>6. CASE Commit
  <2>1. /\ UNCHANGED disk /\ work'[f] = None /\ ~Visited(f)'
        /\ files'[f] \in {None, files[f], work[f]}
    BY <1>6 DEF Commit, uninvolved, Nothing, NewRow, Visited, At
  <2> QED
    BY <2>1 DEF Ascends
<1> QED
  BY <1>1, <1>2, <1>3, <1>4, <1>5, <1>6, Moves

\* A row that a transaction replaces or drops was of a content its file has left.
LEMMA CommitLeaves ==
  ASSUME RestInv, Commit, NEW f \in Files, Ascends(f), NEW c,
         files[f] # None, files[f].hash = c, ~(files'[f] # None /\ files'[f].hash = c)
  PROVE  Left(f, c)'
<1> USE Numbers
<1>1. /\ UNCHANGED disk /\ work'[f] = None /\ found'[f] = None
      /\ files'[f] = NewRow(f) /\ At("classify")
  BY DEF Commit, uninvolved, Nothing
<1>2. CASE found[f] = None
  BY <1>1, <1>2 DEF NewRow, Ascends, Visited, Left
<1>3. CASE found[f] # None
  BY <1>1, <1>3 DEF NewRow, Ascends, Left
<1> QED
  BY <1>2, <1>3

LEMMA SupersededStep ==
  ASSUME ~Repeats, History, [Next]_vars
  PROVE  Superseded'
<1> USE Numbers DEF History
<1>1. SUFFICES ASSUME NEW f \in Files, NEW c \in Nat, MadeOf(f, c)',
                      ~(files'[f] # None /\ files'[f].hash = c)
               PROVE  Left(f, c)'
  BY DEF Superseded
<1>2. ASSUME MadeOf(f, c) PROVE c <= edits
  BY <1>2 DEF MadeOf, Contents, SumHonest
<1>3. ASSUME MadeOf(f, c), files' = files PROVE Left(f, c)'
  <2>1. Left(f, c)
    BY <1>1, <1>3 DEF Superseded
  <2> QED
    BY <1>2, <1>3, <2>1, LeftStep
<1>4. CASE Quietly
  BY <1>1, <1>3, <1>4 DEF Quietly, MadeOf
<1>5. CASE \E g \in Files : UserMoves(g) \/ Walk(g) \/ (Classify(g) /\ ~Fail)
  BY <1>1, <1>3, <1>5 DEF UserMoves, Walk, Classify, tables, MadeOf
<1>6. ASSUME NEW g \in Files, SummaryMade(g) PROVE Left(f, c)'
  <2>1. files' = files
    BY <1>6 DEF SummaryMade
  <2>2. sums'[FileT(f)] = sums[FileT(f)] \/ (files[f] # None /\ sums'[FileT(f)].source = files[f].hash)
    BY <1>6 DEF SummaryMade
  <2> QED
    BY <1>1, <1>3, <2>1, <2>2 DEF MadeOf
<1>7. CASE Commit
  <2>1. MadeOf(f, c)
    BY <1>1, <1>7 DEF Commit, MadeOf
  <2>2. CASE files[f] # None /\ files[f].hash = c
    <3>1. Ascends(f)
      BY DEF Upward, Ascends
    <3> QED
      BY <1>1, <1>7, <2>2, <3>1, CommitLeaves
  <2>3. CASE ~(files[f] # None /\ files[f].hash = c)
    BY <1>2, <2>1, <2>3, LeftStep DEF Superseded
  <2> QED
    BY <2>2, <2>3
<1> QED
  BY <1>4, <1>5, <1>6, <1>7, Moves

LEMMA HistoryStep ==
  ASSUME ~Repeats, History, [Next]_vars
  PROVE  History'
<1>1. Upward'
  BY AscendsStep DEF History, Upward, Ascends
<1> QED
  BY <1>1, RestStep, ContentsStep, OwnersStep, SupersededStep DEF History

\* What a digest says of a file stays what its summary says.
LEMMA ToldStep ==
  ASSUME ~Repeats, History, [Next]_vars, NEW f \in Files, NEW c, NEW text, Told(f, c, text)
  PROVE  Told(f, c, text)'
<1> USE Numbers DEF History
<1>1. Owned(f, c)' /\ c \in Nat /\ c <= edits
  BY OwnedStep DEF Told, Owned
<1>2. CASE sums'[FileT(f)] = sums[FileT(f)]
  BY <1>1, <1>2, LeftStep DEF Told, MadeOf
<1>3. CASE sums'[FileT(f)] = None /\ files[f] = None
  <2>1. Left(f, c)
    BY <1>1, <1>3 DEF Told, Superseded
  <2> QED
    BY <1>1, <1>3, <2>1, LeftStep DEF Told, MadeOf
<1>4. CASE files[f] # None /\ ~Kept(f) /\ sums'[FileT(f)].source = files[f].hash
  <2>1. Left(f, c)
    BY <1>1, <1>4 DEF Told, Superseded, MadeOf, Kept, Up
  <2>2. files[f].hash # c
    BY <1>1, <1>4, <2>1 DEF Left
  <2> QED
    BY <1>1, <1>4, <2>1, <2>2, LeftStep DEF Told, MadeOf
<1>5. \/ sums'[FileT(f)] = sums[FileT(f)]
      \/ sums'[FileT(f)] = None /\ files[f] = None
      \/ files[f] # None /\ ~Kept(f) /\ sums'[FileT(f)].source = files[f].hash
  <2>1. CASE Quietly
    BY <2>1 DEF Quietly
  <2>2. ASSUME NEW g \in Files, SummaryMade(g)
        PROVE  \/ sums'[FileT(f)] = sums[FileT(f)]
               \/ files[f] # None /\ ~Kept(f) /\ sums'[FileT(f)].source = files[f].hash
    BY <2>2 DEF SummaryMade
  <2>3. CASE Commit \/ \E g \in Files : UserMoves(g) \/ Walk(g) \/ Classify(g)
    BY <2>3 DEF UserMoves, Walk, Classify, Commit, tables
  <2> QED
    BY <2>1, <2>2, <2>3, Moves
<1> QED
  BY <1>2, <1>3, <1>4, <1>5

\* The summaries of modules and project change when they are renewed, or go.
LEMMA ModuleMoves ==
  ASSUME RestInv, [Next]_vars, NEW m \in Modules
  PROVE  \/ sums'[ModuleT(m)] \in {sums[ModuleT(m)], None}
         \/ sums'[ModuleT(m)] = [source |-> Hashes(In(m, listed)), text |-> Lines(In(m, listed))]
<1> USE DEF tables, locals
<1>1. ASSUME NEW f \in Files, Summarize(f)
      PROVE  sums'[ModuleT(m)] = sums[ModuleT(m)]
  <2>1. sums' = sums \/ \E s : sums' = [sums EXCEPT ![FileT(f)] = s]
    BY <1>1 DEF Summarize, Keep, Vanished, Summarized, Store
  <2> QED
    BY <2>1, TargetNames DEF RestInv, Sound
<1>2. CASE PruneFiles \/ PruneModules
  <2>1. sums' = sums \/ \E t : sums' = [sums EXCEPT ![t] = None]
    BY <1>2 DEF PruneFiles, PruneModules, Prune
  <2> QED
    BY <2>1, TargetNames DEF RestInv, Sound
<1>3. CASE SyncProject
  <2>1. sums' = sums \/ \E s : sums' = [sums EXCEPT ![ProjectT] = s]
    BY <1>3 DEF SyncProject, Renew, Store
  <2> QED
    BY <2>1, TargetNames DEF RestInv, Sound
<1>4. ASSUME NEW n \in Modules, SyncModule(n)
      PROVE  \/ sums'[ModuleT(m)] = sums[ModuleT(m)]
             \/ sums'[ModuleT(m)] = [source |-> Hashes(In(m, listed)), text |-> Lines(In(m, listed))]
  <2>1. \/ sums' = sums
        \/ sums' = [sums EXCEPT ![ModuleT(n)] = [source |-> Hashes(In(n, listed)),
                                                text |-> Lines(In(n, listed))]]
    BY <1>4 DEF SyncModule, Renew, Store
  <2> QED
    BY <2>1, TargetNames DEF RestInv, Sound
<1>5. CASE \/ \E f \in Files : Save(f) \/ Touch(f) \/ Delete(f) \/ Walk(f) \/ Classify(f)
           \/ Start \/ EndWalk \/ Commit \/ EndFiles \/ Mirror \/ Finish \/ Abort
           \/ UNCHANGED vars
  BY <1>5 DEF Save, Touch, Delete, Changed, Walk, Classify, Start, EndWalk, Commit, EndFiles,
              Mirror, Finish, Abort, vars
<1> QED
  BY <1>1, <1>2, <1>3, <1>4, <1>5 DEF Next, Step

LEMMA ProjectMoves ==
  ASSUME RestInv, [Next]_vars
  PROVE  \/ sums'[ProjectT] \in {sums[ProjectT], None}
         \/ sums'[ProjectT] = [source |-> Hashes(listed), text |-> Spread(listed)]
<1> USE DEF tables, locals
<1>1. ASSUME NEW f \in Files, Summarize(f)
      PROVE  sums'[ProjectT] = sums[ProjectT]
  <2>1. sums' = sums \/ \E s : sums' = [sums EXCEPT ![FileT(f)] = s]
    BY <1>1 DEF Summarize, Keep, Vanished, Summarized, Store
  <2> QED
    BY <2>1, TargetNames DEF RestInv, Sound
<1>2. CASE PruneFiles \/ PruneModules
  <2>1. sums' = sums \/ \E t : sums' = [sums EXCEPT ![t] = None]
    BY <1>2 DEF PruneFiles, PruneModules, Prune
  <2> QED
    BY <2>1, TargetNames DEF RestInv, Sound
<1>3. CASE SyncProject
  <2>1. \/ sums' = sums
        \/ sums' = [sums EXCEPT ![ProjectT] = [source |-> Hashes(listed), text |-> Spread(listed)]]
    BY <1>3 DEF SyncProject, Renew, Store
  <2> QED
    BY <2>1, TargetNames DEF RestInv, Sound
<1>4. ASSUME NEW n \in Modules, SyncModule(n) PROVE sums'[ProjectT] = sums[ProjectT]
  <2>1. sums' = sums \/ \E s : sums' = [sums EXCEPT ![ModuleT(n)] = s]
    BY <1>4 DEF SyncModule, Renew, Store
  <2> QED
    BY <2>1, TargetNames DEF RestInv, Sound
<1>5. CASE \/ \E f \in Files : Save(f) \/ Touch(f) \/ Delete(f) \/ Walk(f) \/ Classify(f)
           \/ Start \/ EndWalk \/ Commit \/ EndFiles \/ Mirror \/ Finish \/ Abort
           \/ UNCHANGED vars
  BY <1>5 DEF Save, Touch, Delete, Changed, Walk, Classify, Start, EndWalk, Commit, EndFiles,
              Mirror, Finish, Abort, vars
<1> QED
  BY <1>1, <1>2, <1>3, <1>4, <1>5 DEF Next, Step

\* A file in hand is told of as its row and summary are.
LEMMA ListedTold ==
  ASSUME History, NEW f \in listed
  PROVE  Told(f, files[f].hash, sums[FileT(f)].text)
<1>1. f \in Files /\ files[f] # None /\ Kept(f)
  BY DEF History, RestInv, FilesListed, Rows
<1>2. files[f].hash \in Uses(f)
  BY <1>1, Numbers DEF History, Uses
<1> QED
  BY <1>1, <1>2 DEF History, Owners, Told, MadeOf, Kept, Up

LEMMA Members ==
  ASSUME NEW T, NEW list \in Seq(T)
  PROVE  \A i \in DOMAIN list : list[i] \in T
OBVIOUS

LEMMA ModulesToldStep ==
  ASSUME ~Repeats, History, ModulesTold, [Next]_vars
  PROVE  ModulesTold'
<1> USE DEF History
<1>1. SUFFICES ASSUME NEW m \in Modules, NEW digest, digest = sums'[ModuleT(m)], digest # None
               PROVE  /\ DOMAIN digest.text = DOMAIN digest.source
                      /\ \A i \in DOMAIN digest.text :
                           Told(digest.text[i].file, digest.source[i], digest.text[i].text)'
  BY DEF ModulesTold
<1>2. CASE sums'[ModuleT(m)] = sums[ModuleT(m)]
  <2>1. /\ DOMAIN digest.text = DOMAIN digest.source
        /\ \A i \in DOMAIN digest.text :
             Told(digest.text[i].file, digest.source[i], digest.text[i].text)
    BY <1>1, <1>2 DEF ModulesTold
  <2>2. \A i \in DOMAIN digest.text : digest.text[i].file \in Files
    <3>1. digest.text \in Seq([file : Files, text : Nat])
      BY <1>1, <1>2 DEF RestInv, Sound, TypeOK, ModuleSummary
    <3>2. \A i \in DOMAIN digest.text : digest.text[i] \in [file : Files, text : Nat]
      BY <3>1, Members
    <3> QED
      BY <3>2
  <2> QED
    BY <2>1, <2>2, ToldStep
<1>3. CASE sums'[ModuleT(m)] = [source |-> Hashes(In(m, listed)), text |-> Lines(In(m, listed))]
  <2> DEFINE S == In(m, listed)
  <2>1. S \in SUBSET Files /\ S \in SUBSET listed
    BY ListedFiles DEF In
  <2>2. \A i \in DOMAIN Sorted(S) : Sorted(S)[i] \in S
    BY <2>1, SortedLists
  <2> HIDE DEF S
  <2>3. digest.source = Hashes(S) /\ digest.text = Lines(S)
    BY <1>1, <1>3 DEF S
  <2>4. DOMAIN digest.source = DOMAIN Sorted(S) /\ DOMAIN digest.text = DOMAIN Sorted(S)
    BY <2>3 DEF Hashes, Lines
  <2>5. ASSUME NEW i \in DOMAIN Sorted(S)
        PROVE  Told(digest.text[i].file, digest.source[i], digest.text[i].text)'
    <3>1. /\ digest.text[i].file = Sorted(S)[i]
          /\ digest.source[i] = files[Sorted(S)[i]].hash
          /\ digest.text[i].text = sums[FileT(Sorted(S)[i])].text
      BY <2>3, <2>5 DEF Hashes, Lines
    <3>2. Sorted(S)[i] \in listed /\ Sorted(S)[i] \in Files
      BY <2>1, <2>2, <2>5
    <3>3. Told(digest.text[i].file, digest.source[i], digest.text[i].text)
      BY <3>1, <3>2, ListedTold
    <3> QED
      BY <3>1, <3>2, <3>3, ToldStep
  <2> QED
    BY <2>4, <2>5
<1> QED
  BY <1>1, <1>2, <1>3, ModuleMoves

LEMMA ProjectToldStep ==
  ASSUME ~Repeats, History, ProjectTold, [Next]_vars
  PROVE  ProjectTold'
<1> USE DEF History
<1>1. SUFFICES ASSUME NEW digest, digest = sums'[ProjectT], digest # None
               PROVE  \E S \in SUBSET Files :
                        /\ digest.text = Spread(S)
                        /\ DOMAIN digest.source = DOMAIN Sorted(S)
                        /\ \A i \in DOMAIN Sorted(S) : Owned(Sorted(S)[i], digest.source[i])'
  BY DEF ProjectTold
<1>2. CASE sums'[ProjectT] = sums[ProjectT]
  <2>1. PICK S \in SUBSET Files :
          /\ digest.text = Spread(S)
          /\ DOMAIN digest.source = DOMAIN Sorted(S)
          /\ \A i \in DOMAIN Sorted(S) : Owned(Sorted(S)[i], digest.source[i])
    BY <1>1, <1>2 DEF ProjectTold
  <2>2. \A i \in DOMAIN Sorted(S) : Owned(Sorted(S)[i], digest.source[i])'
    BY <2>1, SortedLists, OwnedStep
  <2> QED
    BY <2>1, <2>2
<1>3. CASE sums'[ProjectT] = [source |-> Hashes(listed), text |-> Spread(listed)]
  <2>1. listed \in SUBSET Files
    BY ListedFiles
  <2>2. PICK S \in SUBSET Files : S = listed
    BY <2>1
  <2>3. digest.source = Hashes(S) /\ digest.text = Spread(S)
    BY <1>1, <1>3, <2>2
  <2>4. DOMAIN digest.source = DOMAIN Sorted(S)
    BY <2>3 DEF Hashes
  <2>5. ASSUME NEW i \in DOMAIN Sorted(S) PROVE Owned(Sorted(S)[i], digest.source[i])'
    <3>1. Sorted(S)[i] \in S /\ digest.source[i] = files[Sorted(S)[i]].hash
      BY <2>3, <2>5, SortedLists DEF Hashes
    <3>2. Owned(Sorted(S)[i], digest.source[i])
      BY <2>2, <3>1, ListedTold DEF Told
    <3> QED
      BY <3>1, <3>2, OwnedStep
  <2> QED
    BY <2>3, <2>4, <2>5
<1> QED
  BY <1>1, <1>2, <1>3, ProjectMoves

LEMMA HandedOnStep ==
  ASSUME RestInv, HandedOn, [Next]_vars
  PROVE  HandedOn'
<1> USE DEF At, Summing, HandedOn, Kept, Up
<1>1. CASE \/ \E f \in Files : Save(f) \/ Touch(f) \/ Delete(f)
           \/ Mirror \/ UNCHANGED vars
  BY <1>1 DEF Save, Touch, Delete, Changed, Mirror, uninvolved, vars, tables, locals
<1>2. CASE \/ Start \/ EndWalk \/ Commit \/ Finish \/ Abort \/ Fail
           \/ \E f \in Files : Walk(f) \/ (Classify(f) /\ ~Fail)
  BY <1>2 DEF Start, EndWalk, Commit, Finish, Abort, Fail, Walk, Classify
<1>3. CASE PruneFiles
  <2>1. \/ pc' = "prunefiles"
        \/ pc' = "files" /\ todo' = {f \in Files : files[f] # None} /\ files' = files
    BY <1>3 DEF PruneFiles, Prune
  <2> QED
    BY <2>1
<1>4. ASSUME NEW f \in Files, Summarize(f), ~Fail PROVE HandedOn'
  <2>1. /\ UNCHANGED <<files, pc>> /\ pc = "files" /\ todo' = todo \ {f}
    BY <1>4 DEF Summarize
  <2>2. /\ \A g \in Files \ {f} : sums'[FileT(g)] = sums[FileT(g)]
        /\ listed' \in {listed, listed \cup {f}} /\ (f \in listed' \/ Vanished(f))
    BY <1>4, SummarizeWrites
  <2>3. Vanished(f) => ~Kept(f) /\ sums' = sums
    BY DEF Vanished
  <2> QED
    BY <2>1, <2>2, <2>3
<1>5. CASE EndFiles
  BY <1>5 DEF EndFiles, tables, locals
<1>6. CASE PruneModules \/ SyncProject \/ \E m \in Modules : SyncModule(m)
  <2>1. \A f \in Files : sums'[FileT(f)] = sums[FileT(f)]
    <3>1. CASE PruneModules
      BY <3>1, TargetNames DEF PruneModules, Prune, RestInv, Sound
    <3> QED
      BY <1>6, <3>1, SyncWrites
  <2>2. UNCHANGED <<files, listed>> /\ pc \in {"prunemodules", "modules"}
        /\ pc' # "files"
    BY <1>6 DEF PruneModules, Prune, SyncProject, SyncModule, uninvolved
  <2> QED
    BY <2>1, <2>2
<1> QED
  BY <1>1, <1>2, <1>3, <1>4, <1>5, <1>6 DEF Next, Step

\* When the run comes to its end the module and project summaries, renewed or
\* not, say what the rows and their summaries say.
LEMMA DigestMade ==
  ASSUME History, ModulesTold, ProjectTold, HandedOn, At("finish")
  PROVE  Digest
<1> USE DEF History
<1>1. listed \in SUBSET Files /\ InDigest = listed
  BY ListedFiles DEF InDigest, HandedOn, Summing, At, RestInv, FilesListed, Rows
<1>2. \A f \in Files : sums[FileT(f)] # None => files[f] # None
  BY DEF RestInv, FilesPruned, Summing, At, Rows
<1>3. ASSUME NEW f \in listed
      PROVE  /\ files[f].hash \in Uses(f) /\ MadeOf(f, files[f].hash)
  BY <1>3, <1>1, Numbers DEF RestInv, FilesListed, Rows, Uses, MadeOf, Kept, Up
<1>4. ASSUME NEW m \in Modules
      PROVE  IF In(m, listed) = {} THEN sums[ModuleT(m)] = None
             ELSE sums[ModuleT(m)] # None /\ sums[ModuleT(m)].text = Lines(In(m, listed))
  <2>1. CASE In(m, listed) = {}
    <3>1. m \notin Digested
      BY <2>1 DEF In, Digested
    <3> QED
      BY <2>1, <3>1 DEF RestInv, ModulesListed, At
  <2>2. CASE In(m, listed) # {}
    <3> DEFINE S      == In(m, listed)
               digest == sums[ModuleT(m)]
    <3>1. m \in Digested
      BY <2>2 DEF In, Digested
    <3>2. digest # None /\ digest.source = Hashes(S)
      BY <3>1 DEF RestInv, ModulesListed, At, Up
    <3>3. S \in SUBSET Files /\ S \in SUBSET listed
      BY <1>1 DEF In
    <3>4. digest.text \in Seq([file : Files, text : Nat])
      BY <3>2 DEF RestInv, Sound, TypeOK, ModuleSummary
    <3>5. /\ DOMAIN digest.text = DOMAIN digest.source
          /\ \A i \in DOMAIN digest.text :
               Told(digest.text[i].file, digest.source[i], digest.text[i].text)
      BY <3>2 DEF ModulesTold
    <3> HIDE DEF S, digest
    <3>6. DOMAIN digest.text = DOMAIN Sorted(S)
      BY <3>2, <3>5 DEF Hashes
    <3>7. ASSUME NEW i \in DOMAIN Sorted(S)
          PROVE  digest.text[i] = [file |-> Sorted(S)[i], text |-> sums[FileT(Sorted(S)[i])].text]
      <4>1. Sorted(S)[i] \in listed /\ digest.source[i] = files[Sorted(S)[i]].hash
        BY <3>2, <3>3, <3>7, SortedLists DEF Hashes
      <4>2. digest.text[i] \in [file : Files, text : Nat]
        BY <3>4, <3>6, <3>7, Members
      <4>3. Told(digest.text[i].file, digest.source[i], digest.text[i].text)
        BY <3>5, <3>6, <3>7
      <4>4. digest.text[i].file = Sorted(S)[i]
        BY <1>1, <1>3, <4>1, <4>3 DEF Told, Owned
      <4>5. digest.text[i].text = sums[FileT(Sorted(S)[i])].text
        BY <1>3, <4>1, <4>3, <4>4 DEF Told
      <4> QED
        BY <4>2, <4>4, <4>5
    <3>8. digest.text = Lines(S)
      <4>1. digest.text = [i \in DOMAIN digest.text |-> digest.text[i]]
        BY <3>4
      <4> QED
        BY <3>6, <3>7, <4>1 DEF Lines
    <3> QED
      BY <2>2, <3>2, <3>8 DEF S, digest
  <2> QED
    BY <2>1, <2>2
<1>5. sums[ProjectT] # None /\ sums[ProjectT].text = Spread(listed)
  <2>1. sums[ProjectT] # None /\ sums[ProjectT].source = Hashes(listed)
    BY DEF RestInv, ModulesListed, At, Up
  <2>2. PICK S \in SUBSET Files :
          /\ sums[ProjectT].text = Spread(S)
          /\ DOMAIN sums[ProjectT].source = DOMAIN Sorted(S)
          /\ \A i \in DOMAIN Sorted(S) : Owned(Sorted(S)[i], sums[ProjectT].source[i])
    BY <2>1 DEF ProjectTold
  <2>3. DOMAIN Sorted(listed) = DOMAIN Sorted(S)
    BY <2>1, <2>2 DEF Hashes
  <2>4. ASSUME NEW i \in DOMAIN Sorted(S) PROVE Sorted(listed)[i] = Sorted(S)[i]
    <3>1. Sorted(listed)[i] \in listed
      BY <1>1, <2>3, <2>4, SortedLists
    <3>2. sums[ProjectT].source[i] = files[Sorted(listed)[i]].hash
      BY <2>1, <2>3, <2>4 DEF Hashes
    <3>3. Owned(Sorted(S)[i], files[Sorted(listed)[i]].hash)
      BY <2>2, <2>4, <3>2
    <3> QED
      BY <1>1, <1>3, <3>1, <3>3 DEF Owned
  <2>5. \A f \in S : f \in listed
    BY <1>1, <2>3, <2>4, SortedLists
  <2>6. \A f \in listed : f \in S
    BY <1>1, <2>3, <2>4, SortedLists
  <2>7. S = listed
    BY <2>5, <2>6
  <2> QED
    BY <2>1, <2>2, <2>7
<1> QED
  BY <1>1, <1>2, <1>4, <1>5 DEF Digest

LEMMA DigestStep ==
  ASSUME ~Repeats, DigestInv, [Next]_vars
  PROVE  DigestInv'
<1> USE DEF At
<1>1. History' /\ ModulesTold' /\ ProjectTold' /\ HandedOn'
  BY HistoryStep, ModulesToldStep, ProjectToldStep, HandedOnStep DEF DigestInv, History
<1>2. SUFFICES ASSUME pc' = "done" PROVE Digest'
  BY <1>1 DEF DigestInv, DigestMatchesIndex, Digest
<1>3. UNCHANGED <<files, sums>> /\ pc \in {"finish", "done"}
  BY <1>2 DEF Next, Step, Save, Touch, Delete, Changed, Start, Walk, Classify, Fail, EndWalk, Commit,
              PruneFiles, PruneModules, Prune, Summarize, EndFiles, SyncModule, SyncProject, Mirror,
              Finish, Abort, uninvolved, tables, locals, vars
<1>4. Digest
  BY <1>3, DigestMade DEF DigestInv, DigestMatchesIndex, Digest
<1>5. InDigest' = InDigest
  BY <1>3 DEF InDigest, Kept, Up
<1>6. \A S : Lines(S)' = Lines(S)
  BY <1>3 DEF Lines
<1> QED
  BY <1>3, <1>4, <1>5, <1>6 DEF Digest

\* After a run the digest is that of the files table, whatever earlier runs left
\* behind and wherever they stopped, as long as a content never comes back
\* (sync_project_summaries compares hashes, not texts).
THEOREM DigestMatchesIndexCorrect ==
  ASSUME ~Repeats
  PROVE  Spec => []DigestMatchesIndex
<1>1. Init => DigestInv
  <2> SUFFICES ASSUME Init PROVE DigestInv
    OBVIOUS
  <2>1. RestInv /\ Contents
    BY SumsInit DEF SumsInv
  <2>2. /\ \A f \in Files : disk[f] = None /\ files[f] = None /\ work[f] = None
        /\ \A t \in Targets : sums[t] = None
        /\ pc = "idle"
    BY DEF Init, Nothing
  <2>3. \A f \in Files : Uses(f) = {}
    BY <2>2, TargetNames DEF Uses
  <2>4. Owners /\ Upward /\ Superseded
    BY <2>2, <2>3, TargetNames DEF Owners, Upward, Superseded, MadeOf
  <2>5. ModulesTold /\ ProjectTold /\ HandedOn /\ DigestMatchesIndex
    BY <2>2, TargetNames DEF ModulesTold, ProjectTold, HandedOn, Summing, DigestMatchesIndex, At
  <2> QED
    BY <2>1, <2>4, <2>5 DEF DigestInv, History
<1>2. DigestInv /\ [Next]_vars => DigestInv'
  BY DigestStep
<1>3. DigestInv => DigestMatchesIndex
  BY DEF DigestInv
<1> QED
  BY <1>1, <1>2, <1>3, PTL DEF Spec
=============================================================================
