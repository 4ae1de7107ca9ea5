------------------------------- MODULE Chunking -------------------------------
(***************************************************************************)
(* chunk_text: a file is cut into windows of lines that overlap.  One step *)
(* is one turn of its loop.  What a line says does not matter, only        *)
(* whether all of them are blank.                                          *)
(***************************************************************************)
EXTENDS Integers, Sequences

CONSTANTS
  Lengths,   \* numbers of lines
  MaxLines,  \* values of cfg.max_lines
  Overlaps,  \* values of cfg.overlap_lines
  Width      \* the values of a usize are 0 .. Width - 1

ASSUME ChunkConstants ==
  /\ Lengths \subseteq Nat /\ MaxLines \subseteq Nat /\ Overlaps \subseteq Nat
  /\ Width \in Nat
  \* A file's lines are counted in memory that also holds their bytes.
  /\ \A n \in Lengths : n + n < Width
  /\ \A m \in MaxLines : m < Width

VARIABLES
  lines,   \* how many lines the text has
  cfg,     \* max_lines and overlap_lines
  start,   \* first line of the next window, counted from zero
  chunks,  \* windows so far: first and last line, counted from one
  looping  \* whether the loop is still running

chunkVars == <<lines, cfg, start, chunks, looping>>

Window == [start_line : Nat, end_line : Nat]

MaxWindow == IF cfg.max = 0 THEN 1 ELSE cfg.max

\* Mutant: the overlap may be as long as a window.
OverlapAsGiven == cfg.overlap

Overlap == IF cfg.overlap < MaxWindow - 1 THEN cfg.overlap ELSE MaxWindow - 1

Step == MaxWindow - Overlap

ChunkInit ==
  /\ lines \in Lengths
  /\ cfg \in [max : MaxLines, overlap : Overlaps]
  /\ start = 0 /\ chunks = <<>>
  /\ looping \in BOOLEAN   \* FALSE: all lines are blank
  /\ lines = 0 => ~looping

\* (start + max_lines) is an addition of usize.
End == LET sum == (start + MaxWindow) % Width IN IF sum < lines THEN sum ELSE lines

\* Mutant: only whole windows are cut.
NextWindowWhole ==
  /\ looping
  /\ chunks' = Append(chunks, [start_line |-> start + 1, end_line |-> End])
  /\ start' = start + Step
  /\ looping' = (start' + MaxWindow <= lines)
  /\ UNCHANGED <<lines, cfg>>

NextWindow ==
  /\ looping
  /\ chunks' = Append(chunks, [start_line |-> start + 1, end_line |-> End])
  /\ start' = IF End = lines THEN start ELSE start + Step
  /\ looping' = (End # lines /\ start' < lines)
  /\ UNCHANGED <<lines, cfg>>

ChunkSpec == ChunkInit /\ [][NextWindow]_chunkVars

-----------------------------------------------------------------------------
(* Properties: the three guarantees of chunk_text, and what an index built *)
(* from its windows relies on.                                             *)

ChunkTypeOK ==
  /\ lines \in Lengths /\ cfg \in [max : MaxLines, overlap : Overlaps]
  /\ start \in Nat /\ chunks \in Seq(Window) /\ looping \in BOOLEAN

Covered(l) == \E n \in DOMAIN chunks : chunks[n].start_line <= l /\ l <= chunks[n].end_line

\* Every source line is in a chunk once the loop has ended, unless the text is
\* blank and has none; no chunk reaches outside the file or is longer than
\* max_lines, whatever the configuration.
EveryLineCovered ==
  /\ ~looping /\ chunks # <<>> => \A l \in 1 .. lines : Covered(l)
  /\ \A n \in DOMAIN chunks :
       /\ 1 <= chunks[n].start_line /\ chunks[n].end_line <= lines
       /\ chunks[n].start_line <= chunks[n].end_line
       /\ chunks[n].end_line < chunks[n].start_line + MaxWindow

\* Windows go forward at both ends, so that none is contained in another: the
\* last one in particular adds lines of its own.
NoneContained ==
  \A m, n \in DOMAIN chunks : m < n =>
    /\ chunks[m].start_line < chunks[n].start_line
    /\ chunks[m].end_line < chunks[n].end_line

\* No addition of the loop overflows, even with max_lines = usize::MAX.
NoOverflow == looping => start + MaxWindow < Width

\* Every turn of the loop brings its start nearer to the end of the text or is
\* the last, so it ends for every configuration, overlap_lines >= max_lines
\* included.
LoopAdvances == [][looping' => start < start' /\ start' < lines]_chunkVars
=============================================================================
