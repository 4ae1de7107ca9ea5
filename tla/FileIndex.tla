------------------------------ MODULE FileIndex ------------------------------
(***************************************************************************)
(* One run of the indexer at a time against a tree the user keeps editing: *)
(* the files table, the summaries derived from it (of a file, of a module, *)
(* of the project) and their mirror under .brain/summaries.                *)
(*                                                                         *)
(* A file's size and mtime are read before its content, its content again  *)
(* when it is summarized, and the user may act between any two steps.      *)
(* Chunks and vectors are VectorSync's subject.  A content stands for its  *)
(* hash and for the summary made of it.                                    *)
(***************************************************************************)
EXTENDS Integers, Sequences, FiniteSets

CONSTANTS
  Order,     \* the paths, sorted
  ModuleOf,  \* the directory of each
  Kinds,     \* what a file may hold: "text", "binary" (a NUL byte), "garbled"
             \* (no NUL, not UTF-8), "large" (text over the size limit)
  Repeats,   \* whether a content may come back, or be in two files
  Coarse,    \* whether two saves of one size may fall into one second
  None,
  MaxEdits   \* BOUND: changes the user makes

Files   == {Order[i] : i \in 1 .. Len(Order)}
Modules == {ModuleOf[f] : f \in Files}
Targets == ({"file"} \X Files) \cup ({"module"} \X Modules) \cup {<<"project", "PROJECT">>}

Row   == [hash : Nat, stamp : Nat]
Entry == [content : Nat, kind : Kinds, stamp : Nat]

\* A summary: the hash or hashes it was made from, and its text.
FileSummary    == [source : Nat, text : Nat]
ModuleSummary  == [source : Seq(Nat), text : Seq([file : Files, text : Nat])]
ProjectSummary == [source : Seq(Nat), text : [Modules -> Nat]]

FileT(f)   == <<"file", f>>
ModuleT(m) == <<"module", m>>
ProjectT   == <<"project", "PROJECT">>

ASSUME IndexConstants ==
  /\ Order \in Seq(Files)
  /\ \A i, j \in 1 .. Len(Order) : Order[i] = Order[j] => i = j
  /\ DOMAIN ModuleOf = Files
  /\ Kinds \subseteq {"text", "binary", "garbled", "large"}
  /\ Repeats \in BOOLEAN /\ Coarse \in BOOLEAN
  /\ MaxEdits \in Nat
  /\ None \notin Nat /\ None \notin Row /\ None \notin Entry /\ None \notin Targets
  /\ None \notin FileSummary \cup ModuleSummary \cup ProjectSummary

VARIABLES
  disk,    \* each file: its content's number and kind, its size and mtime
  edits,   \* changes made so far
  files,   \* table files: hash, size and mtime
  sums,    \* table summaries: source_hash and summary
  mirror,  \* the summary files
  pc,      \* where the run is
  todo,    \* what its loop has still to visit
  found,   \* size and mtime of the files its walk found
  work,    \* the new row of each file it classified, None to leave it
  listed,  \* files whose summary it has in hand
  target,  \* summary it has stored and not yet mirrored
  quiet,   \* history: files unchanged since the run began, none if it gave up
  rest     \* history: a run succeeded, and nothing changed since it began

tables == <<files, sums, mirror>>
locals == <<todo, found, work, listed, target>>
vars   == <<disk, edits, tables, pc, locals, quiet, rest>>

Nothing == [f \in Files |-> None]

Init ==
  /\ disk  = Nothing /\ edits = 0
  /\ files = Nothing
  /\ sums  = [t \in Targets |-> None] /\ mirror = [t \in Targets |-> None]
  /\ pc = "idle" /\ todo = {} /\ found = Nothing /\ work = Nothing
  /\ listed = {} /\ target = None
  /\ quiet = {} /\ rest = FALSE

At(l) == pc = l

-----------------------------------------------------------------------------
(* The user.                                                               *)

Changed(f, entry) ==
  /\ edits < MaxEdits
  /\ disk'  = [disk EXCEPT ![f] = entry]
  /\ edits' = edits + 1
  /\ quiet' = quiet \ {f}
  /\ rest'  = FALSE
  /\ UNCHANGED <<tables, pc, locals>>

\* The size and mtime a save of kind k leaves: its own (its number), or those the
\* file has, mtime being in whole seconds.
Stamps(f, k) ==
  {n \in 1 .. edits + 1 :
     \/ n = edits + 1
     \/ /\ Coarse /\ disk[f] # None /\ disk[f].stamp = n
        /\ disk[f].kind = "large" <=> k = "large"}

Save(f) ==
  \E k \in Kinds, c \in IF Repeats THEN 1 .. edits + 1 ELSE {edits + 1} :
    \E n \in Stamps(f, k) : Changed(f, [content |-> c, kind |-> k, stamp |-> n])

Touch(f) ==
  /\ disk[f] # None
  /\ Changed(f, [disk[f] EXCEPT !.stamp = edits + 1])

Delete(f) ==
  /\ disk[f] # None
  /\ Changed(f, None)

-----------------------------------------------------------------------------
(* index_project.                                                          *)

uninvolved == <<disk, edits, quiet, rest>>

Forget == todo' = {} /\ found' = Nothing /\ work' = Nothing /\ listed' = {} /\ target' = None

Fail == pc' = "failed" /\ Forget /\ quiet' = {}

Start ==
  /\ pc \in {"idle", "done", "failed", "killed"}
  /\ pc' = "walk" /\ todo' = Files
  /\ quiet' = Files
  /\ UNCHANGED <<disk, edits, tables, found, work, listed, target, rest>>

\* Mutant: the walk records a file's age for its mtime.
WalkAge(f) ==
  /\ At("walk") /\ f \in todo
  /\ found' = [found EXCEPT ![f] = IF disk[f] = None \/ disk[f].kind = "large"
                                   THEN None ELSE disk[f].stamp - edits]
  /\ todo' = todo \ {f}
  /\ UNCHANGED <<uninvolved, tables, pc, work, listed, target>>

\* The walk leaves out what is over the size limit.
Walk(f) ==
  /\ At("walk") /\ f \in todo
  /\ found' = [found EXCEPT ![f] = IF disk[f] = None \/ disk[f].kind = "large"
                                   THEN None ELSE disk[f].stamp]
  /\ todo' = todo \ {f}
  /\ UNCHANGED <<uninvolved, tables, pc, work, listed, target>>

EndWalk ==
  /\ At("walk") /\ todo = {}
  /\ pc' = "classify"
  /\ todo' = {f \in Files : found[f] # None}
  /\ UNCHANGED <<uninvolved, tables, found, work, listed, target>>

Unchanged(f) == files[f] # None /\ files[f].stamp = found[f]
IsText(f)    == disk[f].kind \in {"text", "large"}

\* Mutant: a file that is not text is an error.
ClassifyStrictly(f) ==
  /\ At("classify") /\ f \in todo
  /\ IF ~Unchanged(f) /\ (disk[f] = None \/ ~IsText(f))
     THEN Fail
     ELSE /\ todo' = todo \ {f}
          /\ work' = [work EXCEPT ![f] =
               IF Unchanged(f) THEN None
               ELSE [hash |-> disk[f].content, stamp |-> found[f]]]
          /\ UNCHANGED <<pc, found, listed, target, quiet>>
  /\ UNCHANGED <<disk, edits, rest, tables>>

\* The content is read unless size and mtime are the row's; a file gone since
\* the walk fails the run.  A changed content and a changed mtime alone both
\* give a new row.
Classify(f) ==
  /\ At("classify") /\ f \in todo
  /\ IF ~Unchanged(f) /\ disk[f] = None
     THEN Fail
     ELSE /\ todo' = todo \ {f}
          /\ work' = [work EXCEPT ![f] =
               IF Unchanged(f) \/ ~IsText(f) THEN None
               ELSE [hash |-> disk[f].content, stamp |-> found[f]]]
          /\ UNCHANGED <<pc, found, listed, target, quiet>>
  /\ UNCHANGED <<disk, edits, rest, tables>>

NewRow(f) == IF found[f] = None THEN None ELSE IF work[f] = None THEN files[f] ELSE work[f]

\* Mutant: size and mtime are read again when the row is written.
CommitNewStamps ==
  /\ At("classify") /\ todo = {}
  /\ files' = [f \in Files |-> IF NewRow(f) = None \/ disk[f] = None THEN NewRow(f)
                               ELSE [NewRow(f) EXCEPT !.stamp = disk[f].stamp]]
  /\ pc' = "prunefiles"
  /\ found' = Nothing /\ work' = Nothing
  /\ UNCHANGED <<uninvolved, sums, mirror, todo, listed, target>>

\* One transaction: new rows, and the rows of files the walk did not find go.
Commit ==
  /\ At("classify") /\ todo = {}
  /\ files' = [f \in Files |-> NewRow(f)]
  /\ pc' = "prunefiles"
  /\ found' = Nothing /\ work' = Nothing
  /\ UNCHANGED <<uninvolved, sums, mirror, todo, listed, target>>

-----------------------------------------------------------------------------
(* sync_project_summaries.                                                 *)

StaleFiles == {FileT(f) : f \in {g \in Files : files[g] = None}}

Place(f)   == CHOOSE i \in DOMAIN Order : Order[i] = f
Rank(f, S) == Cardinality({g \in S : Place(g) <= Place(f)})

\* In path order.
Sorted(S) == [i \in 1 .. Cardinality(S) |-> CHOOSE f \in S : Rank(f, S) = i]

\* Deletes the stale summaries one by one, then moves on.
Prune(l, stale, next, rows) ==
  /\ At(l)
  /\ IF \E t \in stale : sums[t] # None
     THEN /\ \E t \in stale : sums[t] # None /\ sums' = [sums EXCEPT ![t] = None]
          /\ UNCHANGED <<pc, todo>>
     ELSE /\ pc' = next /\ todo' = rows
          /\ UNCHANGED sums
  /\ UNCHANGED <<uninvolved, files, mirror, found, work, listed, target>>

PruneFiles == Prune("prunefiles", StaleFiles, "files", {f \in Files : files[f] # None})

Store(t, source, text) ==
  /\ sums' = [sums EXCEPT ![t] = [source |-> source, text |-> text]]
  /\ target' = t

Up(t, source) == sums[t] # None /\ sums[t].source = source

\* Mutant: a summary is kept without a look at its source hash.
KeptIfPresent(f) == sums[FileT(f)] # None

Kept(f) == Up(FileT(f), files[f].hash)

Summarized(f) ==
  /\ ~Kept(f) /\ disk[f] # None /\ disk[f].kind # "garbled"
  /\ Store(FileT(f), files[f].hash, disk[f].content)
  /\ listed' = listed \cup {f}

Vanished(f)   == ~Kept(f) /\ disk[f] = None /\ UNCHANGED <<sums, listed, target>>
Unreadable(f) == ~Kept(f) /\ disk[f] # None /\ disk[f].kind = "garbled"

\* Mutant: a summary that is kept is not handed to the module summaries.
KeepUnlisted(f) == Kept(f) /\ UNCHANGED <<sums, listed, target>>

Keep(f) ==
  /\ Kept(f)
  /\ listed' = listed \cup {f}
  /\ UNCHANGED <<sums, target>>

\* A file whose summary is out of date is read again: gone, it is passed over;
\* not UTF-8, the run fails; anything else is summarized under the row's hash.
Summarize(f) ==
  /\ At("files") /\ target = None /\ f \in todo /\ f = Sorted(todo)[1]
  /\ \/ /\ Keep(f) \/ Vanished(f) \/ Summarized(f)
        /\ todo' = todo \ {f}
        /\ UNCHANGED <<pc, found, work, quiet>>
     \/ Unreadable(f) /\ Fail /\ UNCHANGED sums
  /\ UNCHANGED <<disk, edits, rest, files, mirror>>

EndFiles ==
  /\ At("files") /\ target = None /\ todo = {}
  /\ pc' = "prunemodules"
  /\ UNCHANGED <<uninvolved, tables, locals>>

\* The mirror file is written after the row, and never again for that row.
Mirror ==
  /\ target # None
  /\ mirror' = [mirror EXCEPT ![target] = sums[target].text]
  /\ target' = None
  /\ UNCHANGED <<uninvolved, files, sums, pc, todo, found, work, listed>>

In(m, S)   == {f \in S : ModuleOf[f] = m}
Hashes(S)  == [i \in DOMAIN Sorted(S) |-> files[Sorted(S)[i]].hash]
Lines(S)   == [i \in DOMAIN Sorted(S) |-> [file |-> Sorted(S)[i],
                                           text |-> sums[FileT(Sorted(S)[i])].text]]
Spread(S)  == [m \in Modules |-> Cardinality(In(m, S))]
Digested   == {ModuleOf[f] : f \in listed}

PruneModules ==
  Prune("prunemodules", {ModuleT(m) : m \in Modules \ Digested}, "modules", Digested)

\* A summary is renewed when the hashes of its files, in path order, change.
Renew(t, S, text) ==
  IF Up(t, Hashes(S)) THEN UNCHANGED <<sums, target>> ELSE Store(t, Hashes(S), text)

SyncModule(m) ==
  /\ At("modules") /\ target = None /\ m \in todo
  /\ Renew(ModuleT(m), In(m, listed), Lines(In(m, listed)))
  /\ todo' = todo \ {m}
  /\ UNCHANGED <<uninvolved, files, mirror, pc, found, work, listed>>

SyncProject ==
  /\ At("modules") /\ target = None /\ todo = {}
  /\ Renew(ProjectT, listed, Spread(listed))
  /\ pc' = "finish"
  /\ UNCHANGED <<uninvolved, files, mirror, todo, found, work, listed>>

Finish ==
  /\ At("finish") /\ target = None
  /\ pc' = "done"
  /\ Forget
  /\ rest' = (quiet = Files)
  /\ UNCHANGED <<disk, edits, quiet, tables>>

Running == pc \notin {"idle", "done", "failed", "killed"}

\* The process dies, or a store or the disk refuses a write.
Abort ==
  /\ Running
  /\ pc' = "killed"
  /\ Forget /\ quiet' = {}
  /\ UNCHANGED <<disk, edits, rest, tables>>

Step ==
  \/ \E f \in Files : Walk(f) \/ Classify(f) \/ Summarize(f)
  \/ EndWalk \/ Commit
  \/ PruneFiles \/ EndFiles \/ PruneModules
  \/ \E m \in Modules : SyncModule(m)
  \/ SyncProject \/ Mirror \/ Finish

Next ==
  \/ \E f \in Files : Save(f) \/ Touch(f) \/ Delete(f)
  \/ Start
  \/ Step
  \/ Abort

Spec == Init /\ [][Next]_vars

-----------------------------------------------------------------------------
TypeOK ==
  /\ disk \in [Files -> Entry \cup {None}] /\ edits \in 0 .. MaxEdits
  /\ files \in [Files -> Row \cup {None}]
  /\ \A f \in Files   : sums[FileT(f)] \in FileSummary \cup {None}
  /\ \A m \in Modules : sums[ModuleT(m)] \in ModuleSummary \cup {None}
  /\ sums[ProjectT] \in ProjectSummary \cup {None}
  /\ \A f \in Files   : mirror[FileT(f)] \in Nat \cup {None}
  /\ pc \in {"idle", "walk", "classify", "prunefiles", "files", "prunemodules",
             "modules", "finish", "done", "failed", "killed"}
  /\ todo \subseteq Files \cup Modules
  /\ found \in [Files -> Nat \cup {None}] /\ work \in [Files -> Row \cup {None}]
  /\ listed \subseteq Files /\ target \in Targets \cup {None}
  /\ quiet \subseteq Files /\ rest \in BOOLEAN

Committed == pc \in {"prunefiles", "files", "prunemodules", "modules", "finish", "done"}

\* From the commit of a run on, the table holds the present content of every
\* text file the user has left alone since the run began, and no row of a file
\* that is gone or too large: no order of stat, read and edit hides a change, and
\* none needs a sleep before it, since rewriting content guarantees a new hash
\* (tests/index.rs).
IndexCurrent ==
  Committed =>
    \A f \in quiet :
      /\ disk[f] = None \/ disk[f].kind = "large" => files[f] = None
      /\ disk[f] # None /\ disk[f].kind = "text" =>
           files[f] # None /\ files[f].hash = disk[f].content

\* After a run the summary of such a file is made of its present content.
SummariesCurrent ==
  At("done") =>
    \A f \in quiet : disk[f] # None /\ disk[f].kind = "text" =>
      sums[FileT(f)] # None /\ sums[FileT(f)].text = disk[f].content

InDigest == {f \in Files : files[f] # None /\ Kept(f)}

\* After a run the digest is that of the files table, whatever earlier runs left
\* behind: no summary of a file or module that is not indexed, each module's
\* lists its files with their summaries, the project's counts them.
DigestMatchesIndex ==
  At("done") =>
    /\ \A f \in Files : sums[FileT(f)] # None => files[f] # None
    /\ \A m \in Modules :
         IF In(m, InDigest) = {} THEN sums[ModuleT(m)] = None
         ELSE /\ sums[ModuleT(m)] # None
              /\ sums[ModuleT(m)].text = Lines(In(m, InDigest))
    /\ sums[ProjectT] # None /\ sums[ProjectT].text = Spread(InDigest)

\* A run over a tree that an earlier run has indexed, and that has not changed
\* since, writes nothing.
IdempotentRun == [][rest => UNCHANGED tables]_vars

\* A run gives up only when a file changed under it, or when a file it once
\* indexed is no longer UTF-8; a file that never was text stops no run.
FailsForCause ==
  [][~At("failed") /\ pc' = "failed" =>
       \/ quiet # Files
       \/ \E f \in Files : files[f] # None /\ disk[f] # None /\ disk[f].kind = "garbled"]_vars
=============================================================================
