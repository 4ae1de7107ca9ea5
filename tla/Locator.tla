------------------------------- MODULE Locator --------------------------------
(***************************************************************************)
(* The locator: likely edit targets for a prompt that asks for an action,  *)
(* from the chunks a query has retrieved.  One step is one turn of its     *)
(* loops: first over what the prompt names, then over the chunks.          *)
(*                                                                         *)
(* A chunk's line stands for the chunk: it is its rank.  Similarities      *)
(* count in quarters, the boost a matched word gives.                      *)
(***************************************************************************)
EXTENDS Orders, Sequences, SequencesExt

CONSTANTS
  Words,        \* words of prompts, in some letter case
  Folded,       \* each in lower case (Unicode's)
  AsciiFolded,  \* each with its ASCII letters alone in lower case
  Short,        \* those of less than three bytes
  FileOrder,    \* the files, sorted by name
  Similarities, \* of chunks to the prompt, in quarters
  MaxTargets,   \* values of cfg.max_targets
  Room,         \* how many words are kept of a prompt: 12
  None,
  MaxQuoted, MaxTokens, MaxChunks   \* BOUNDS: spans, words, chunks

Files == {FileOrder[i] : i \in DOMAIN FileOrder}

\* What a chunk is to the locator: "has" are the words of its path and text.
Chunk == [file : Files, score : Similarities, has : SUBSET {Folded[w] : w \in Words}]

Candidate == [file : Files, line : Nat, why : SUBSET Words, score : Nat]

ASSUME LocatorConstants ==
  /\ Folded \in [Words -> Words] /\ AsciiFolded \in [Words -> Words]
  /\ \A v, w \in Words : AsciiFolded[v] = AsciiFolded[w] => Folded[v] = Folded[w]
  /\ FileOrder \in Seq(Files)
  /\ \A i, j \in DOMAIN FileOrder : FileOrder[i] = FileOrder[j] => i = j
  /\ Similarities \subseteq Nat /\ MaxTargets \subseteq Nat /\ Room \in Nat
  /\ MaxQuoted \in Nat /\ MaxTokens \in Nat /\ MaxChunks \in Nat
  /\ None \notin Candidate /\ None \notin Seq(Candidate)

VARIABLES
  named,   \* the prompt's quoted spans, then its words that look like a target
  action,  \* whether it has an action verb
  ranked,  \* the chunks, by similarity
  max,     \* cfg.max_targets
  words,   \* targets of the intent so far
  byFile,  \* candidate of each file so far
  report,  \* the targets reported, None before
  turn     \* turns of the loops so far

locatorVars == <<named, action, ranked, max, words, byFile, report, turn>>

LocatorInit ==
  /\ \E q \in BoundedSeq(Words, MaxQuoted), t \in BoundedSeq(Words \ Short, MaxTokens) :
       named = q \o t
  /\ action \in BOOLEAN
  /\ ranked \in BoundedSeq(Chunk, MaxChunks)
  /\ max \in MaxTargets
  /\ words = <<>> /\ byFile = [f \in Files |-> None] /\ report = None /\ turn = 0

\* push_target: a word is dropped when one like it up to the case of ASCII letters
\* is there (eq_ignore_ascii_case).
Push(w) ==
  IF \/ \E v \in ToSet(words) : AsciiFolded[v] = AsciiFolded[w]
     \/ Len(words) >= Room
  THEN words
  ELSE Append(words, w)

Extract ==
  /\ turn < Len(named)
  /\ turn'  = turn + 1
  /\ words' = Push(named[turn + 1])
  /\ UNCHANGED <<named, action, ranked, max, byFile, report>>

\* matched_terms: a word is found in whatever case (to_lowercase).
Matched(chunk) == {w \in ToSet(words) : w \notin Short /\ Folded[w] \in chunk.has}

Boosted(chunk) == chunk.score + Cardinality(Matched(chunk))

\* Mutant: a later chunk of the same score takes the place.
MergedLate(old, line, chunk) ==
  LET new == [file |-> chunk.file, line |-> line, why |-> Matched(chunk), score |-> Boosted(chunk)]
  IN  IF old = None THEN new
      ELSE IF new.score >= old.score THEN [new EXCEPT !.why = @ \cup old.why]
      ELSE [old EXCEPT !.why = @ \cup new.why]

Merged(old, line, chunk) ==
  LET new == [file |-> chunk.file, line |-> line, why |-> Matched(chunk), score |-> Boosted(chunk)]
  IN  IF old = None THEN new
      ELSE IF new.score > old.score THEN [new EXCEPT !.why = @ \cup old.why]
      ELSE [old EXCEPT !.why = @ \cup new.why]

Ranking == action /\ max > 0

Rank ==
  LET line == turn - Len(named) + 1 IN
  /\ Ranking /\ turn >= Len(named) /\ line <= Len(ranked)
  /\ turn' = turn + 1
  /\ byFile' = [byFile EXCEPT ![ranked[line].file] = Merged(@, line, ranked[line])]
  /\ UNCHANGED <<named, action, ranked, max, words, report>>

Candidates == {byFile[f] : f \in {g \in Files : byFile[g] # None}}

PlaceOf(f) == CHOOSE i \in DOMAIN FileOrder : FileOrder[i] = f

\* By score, then by name.
Better ==
  {p \in Candidates \X Candidates :
     \/ p[1].score > p[2].score
     \/ p[1].score = p[2].score /\ PlaceOf(p[1].file) < PlaceOf(p[2].file)}

\* At most max of them.
Best ==
  LET all == InOrder(Candidates, Better)
  IN  SubSeq(all, 1, IF Len(all) < max THEN Len(all) ELSE max)

Report ==
  /\ report = None
  /\ turn = Len(named) + (IF Ranking THEN Len(ranked) ELSE 0)
  /\ report' = IF Ranking THEN Best ELSE <<>>
  /\ UNCHANGED <<named, action, ranked, max, words, byFile, turn>>

LocatorNext == Extract \/ Rank \/ Report

LocatorSpec == LocatorInit /\ [][LocatorNext]_locatorVars

-----------------------------------------------------------------------------
LocatorTypeOK ==
  /\ named \in Seq(Words) /\ action \in BOOLEAN /\ ranked \in Seq(Chunk) /\ max \in MaxTargets
  /\ words \in Seq(Words) /\ byFile \in [Files -> Candidate \cup {None}]
  /\ report \in Seq(Candidate) \cup {None}
  /\ turn \in Nat

\* Chunks of a file that the loop has seen.
Seen(f) == {n \in 1 .. turn - Len(named) : ranked[n].file = f}

\* However often a prompt has a word, and in whatever case of ASCII letters, it
\* boosts a chunk once, and the first mentions have the room.  Words that differ in
\* the case of another letter too, as "ação" and "AÇÃO", are each kept: both are
\* then found in the same chunks, which they boost twice.
EachWordOnce ==
  /\ \A i, j \in DOMAIN words : AsciiFolded[words[i]] = AsciiFolded[words[j]] => i = j
  /\ \A n \in 1 .. turn : n <= Len(named) =>
       Len(words) >= Room \/ \E w \in ToSet(words) : AsciiFolded[w] = AsciiFolded[named[n]]
  /\ Len(words) <= Room

\* While chunks are ranked, each file's candidate is the first of its chunks with
\* the highest score, and explains itself with the words of all of them.
CandidateIsBest ==
  \A f \in Files :
    /\ byFile[f] = None <=> Seen(f) = {}
    /\ byFile[f] # None =>
         LET c == byFile[f] IN
         /\ c.line \in Seen(f) /\ c.file = f /\ c.score = Boosted(ranked[c.line])
         /\ \A n \in Seen(f) : /\ Boosted(ranked[n]) <= c.score
                               /\ n < c.line => Boosted(ranked[n]) < c.score
         /\ c.why = UNION {Matched(ranked[n]) : n \in Seen(f)}

\* Only actions get targets: at most max of them, no file twice, and each at
\* least as good as what follows it and as what is left out.
ReportIsTop ==
  report # None =>
    /\ Len(report) <= max
    /\ ~action => report = <<>>
    /\ Ranking => \A f \in Files : Seen(f) # {} /\ Len(report) < max
                    => \E i \in DOMAIN report : report[i].file = f
    /\ \A i, j \in DOMAIN report : i < j => report[i].score >= report[j].score
    /\ \A i, j \in DOMAIN report : report[i].file = report[j].file => i = j
    /\ \A f \in Files : byFile[f] # None =>
         \/ \E i \in DOMAIN report : report[i].file = f
         \/ \A i \in DOMAIN report : report[i].score >= byFile[f].score

\* What the locator promises, from the words of the prompt to the report.
TargetsAreBest == EachWordOnce /\ CandidateIsBest /\ ReportIsTop
=============================================================================
