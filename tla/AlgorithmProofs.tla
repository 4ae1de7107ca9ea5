--------------------------- MODULE AlgorithmProofs ---------------------------
(* The loops of the chunker, of the model router, of the choice of an       *)
(* embedder and of the locator, for any input and any configuration; at the *)
(* end the small parts together, as one run checks them.                    *)
EXTENDS MCSmallParts, PersistenceProofs, DataLemmas, TLAPS

-----------------------------------------------------------------------------
(* chunk_text.                                                              *)

Final == chunks[Len(chunks)]

\* All lines up to the end of the last window are covered; while the loop runs
\* that window is a whole one, does not reach the end, and the next starts Step
\* lines after it did.
Reaching ==
  /\ chunks = <<>> => start = 0
  /\ chunks # <<>> =>
       /\ \A l \in 1 .. Final.end_line : Covered(l)
       /\ \A n \in DOMAIN chunks : /\ chunks[n].start_line <= Final.start_line
                                   /\ chunks[n].end_line <= Final.end_line
       /\ looping => /\ start + 1 = Final.start_line + Step
                     /\ Final.end_line + 1 = Final.start_line + MaxWindow
                     /\ Final.end_line < lines
       /\ ~looping => Final.end_line = lines
  /\ looping => start < lines

ChunkInv == ChunkTypeOK /\ Reaching /\ EveryLineCovered /\ NoneContained

\* The configuration and the length are numbers, within the width.
LEMMA Numbers ==
  ASSUME ChunkTypeOK
  PROVE  /\ lines \in Nat /\ lines + lines < Width /\ start \in Nat
         /\ cfg.max \in Nat /\ cfg.max < Width /\ cfg.overlap \in Nat /\ Width \in Nat
<1>1. cfg.max \in MaxLines /\ cfg.overlap \in Overlaps /\ lines \in Lengths
  BY DEF ChunkTypeOK
<1> QED  BY <1>1, ChunkConstants DEF ChunkTypeOK

\* The window always moves on, and by no more than its length.
LEMMA StepBounds ==
  ASSUME ChunkTypeOK
  PROVE  /\ MaxWindow \in Nat /\ Step \in Nat /\ Overlap \in Nat
         /\ 1 <= Step /\ Step <= MaxWindow
         /\ MaxWindow = 1 \/ MaxWindow < Width
<1>1. cfg.max \in Nat /\ cfg.max < Width /\ cfg.overlap \in Nat /\ Width \in Nat
  BY Numbers
<1>2. MaxWindow \in Nat /\ MaxWindow >= 1 /\ (MaxWindow = 1 \/ MaxWindow < Width)
  BY <1>1 DEF MaxWindow
<1> QED  BY <1>1, <1>2 DEF Step, Overlap

\* The last window is a window of the sequence.
LEMMA LastWindow ==
  ASSUME ChunkTypeOK, chunks # <<>>
  PROVE  Final \in Window /\ Len(chunks) \in DOMAIN chunks
         /\ Final.start_line \in Nat /\ Final.end_line \in Nat
<1>1. chunks \in Seq(Window) /\ Len(chunks) \in Nat \ {0}
  BY DEF ChunkTypeOK
<1>2. Len(chunks) \in DOMAIN chunks /\ Final \in Window
  BY <1>1 DEF Final
<1> QED  BY <1>2 DEF Window

\* The invariant of chunk_text holds before its loop.
THEOREM ChunkInvInit == ChunkInit => ChunkInv
<1> SUFFICES ASSUME ChunkInit PROVE ChunkInv
  OBVIOUS
<1>1. ChunkTypeOK
  BY DEF ChunkInit, ChunkTypeOK
<1>2. Reaching /\ EveryLineCovered /\ NoneContained
  BY <1>1, Numbers DEF ChunkInit, Reaching, EveryLineCovered, NoneContained
<1> QED  BY <1>1, <1>2 DEF ChunkInv

\* No turn of the loop overflows, so a window ends where it should.
LEMMA EndIs ==
  ASSUME ChunkInv, looping
  PROVE  /\ start + MaxWindow < Width
         /\ End = IF start + MaxWindow < lines THEN start + MaxWindow ELSE lines
<1>0. ChunkTypeOK
  BY DEF ChunkInv
<1>1. start < lines
  BY DEF ChunkInv, Reaching
<1>2. start = 0 \/ MaxWindow <= lines
  <2>1. CASE chunks = <<>>
    BY <2>1 DEF ChunkInv, Reaching
  <2>2. CASE chunks # <<>>
    <3>1. Final.end_line \in Nat /\ Final.start_line \in Nat
      BY <2>2, <1>0, LastWindow
    <3>2. 1 <= Final.start_line
      BY <2>2, <1>0, LastWindow DEF ChunkInv, EveryLineCovered, Final
    <3> QED  BY <2>2, <3>1, <3>2, <1>0, Numbers, StepBounds DEF ChunkInv, Reaching
  <2> QED  BY <2>1, <2>2
<1>3. start + MaxWindow < Width
  BY <1>0, <1>1, <1>2, Numbers, StepBounds
<1>4. (start + MaxWindow) % Width = start + MaxWindow
  BY <1>0, <1>3, Numbers, StepBounds
<1> QED  BY <1>3, <1>4 DEF End

\* The window a turn adds starts no later than where the last one ended, and
\* ends beyond it.
LEMMA NewWindow ==
  ASSUME ChunkInv, NextWindow
  PROVE  LET w == [start_line |-> start + 1, end_line |-> End] IN
         /\ w \in Window /\ chunks' = Append(chunks, w)
         /\ start + 1 <= End /\ End <= lines /\ End <= start + MaxWindow
         /\ chunks # <<>> => /\ Final.start_line < start + 1
                             /\ start + 1 <= Final.end_line + 1
                             /\ Final.end_line < End
<1>0. ChunkTypeOK /\ looping /\ start < lines
  BY DEF ChunkInv, NextWindow, Reaching
<1>1. End = IF start + MaxWindow < lines THEN start + MaxWindow ELSE lines
  BY <1>0, EndIs
<1>2. End \in Nat /\ start + 1 <= End /\ End <= lines /\ End <= start + MaxWindow
  BY <1>0, <1>1, Numbers, StepBounds
<1>3. ASSUME chunks # <<>>
      PROVE  Final.start_line < start + 1 /\ start + 1 <= Final.end_line + 1 /\ Final.end_line < End
  <2>1. /\ start + 1 = Final.start_line + Step /\ Final.end_line + 1 = Final.start_line + MaxWindow
        /\ Final.end_line < lines
    BY <1>0, <1>3 DEF ChunkInv, Reaching
  <2>2. Final.start_line \in Nat /\ Final.end_line \in Nat
    BY <1>0, <1>3, LastWindow
  <2> QED  BY <2>1, <2>2, <1>0, <1>1, Numbers, StepBounds
<1> QED  BY <1>0, <1>2, <1>3, Numbers DEF NextWindow, Window

\* And every turn of the loop keeps it.
THEOREM ChunkInvNext == ChunkInv /\ [NextWindow]_chunkVars => ChunkInv'
<1> SUFFICES ASSUME ChunkInv, [NextWindow]_chunkVars PROVE ChunkInv'
  OBVIOUS
<1>1. CASE UNCHANGED chunkVars
  BY <1>1 DEF chunkVars, ChunkInv, ChunkTypeOK, Reaching, Final, Covered, EveryLineCovered,
              NoneContained, MaxWindow, Step, Overlap
<1>2. CASE NextWindow
  <2> DEFINE w == [start_line |-> start + 1, end_line |-> End]
  <2>0. ChunkTypeOK /\ looping /\ lines' = lines /\ cfg' = cfg /\ start < lines
    BY <1>2 DEF ChunkInv, NextWindow, Reaching
  <2>1. /\ w \in Window /\ chunks' = Append(chunks, w)
        /\ start + 1 <= End /\ End <= lines /\ End <= start + MaxWindow
        /\ chunks # <<>> => /\ Final.start_line < start + 1
                            /\ start + 1 <= Final.end_line + 1
                            /\ Final.end_line < End
    BY <1>2, NewWindow
  <2>2. chunks \in Seq(Window) /\ Len(chunks) \in Nat
    BY <2>0 DEF ChunkTypeOK
  <2>3. /\ Len(chunks') = Len(chunks) + 1 /\ DOMAIN chunks' = 1 .. Len(chunks) + 1
        /\ \A n \in DOMAIN chunks : n \in 1 .. Len(chunks) /\ chunks'[n] = chunks[n]
        /\ chunks'[Len(chunks) + 1] = w /\ chunks' # <<>>
    BY <2>1, <2>2
  <2>4. Final' = w
    BY <2>3 DEF Final
  <2>5. MaxWindow' = MaxWindow /\ Step' = Step
    BY <2>0 DEF MaxWindow, Step, Overlap
  <2>6. ChunkTypeOK'
    <3>1. start' \in Nat /\ looping' \in BOOLEAN
      BY <1>2, <2>0, Numbers, StepBounds DEF NextWindow
    <3> QED  BY <2>0, <2>1, <2>2, <3>1 DEF ChunkTypeOK
  <2>7. Reaching'
    <3>1. \A l \in 1 .. End : Covered(l)'
      <4> SUFFICES ASSUME NEW l \in 1 .. End PROVE Covered(l)'
        OBVIOUS
      <4>1. CASE start + 1 <= l
        BY <4>1, <2>3 DEF Covered
      <4>2. CASE l <= start
        <5>1. chunks # <<>> /\ l \in 1 .. Final.end_line
          BY <4>2, <2>0, <2>1, LastWindow, Numbers DEF ChunkInv, Reaching
        <5>2. PICK n \in DOMAIN chunks : chunks[n].start_line <= l /\ l <= chunks[n].end_line
          BY <5>1 DEF ChunkInv, Reaching, Covered
        <5> QED  BY <5>2, <2>2, <2>3 DEF Covered
      <4> QED  BY <4>1, <4>2, <2>0, Numbers
    <3>2. \A n \in DOMAIN chunks' : /\ chunks'[n].start_line <= w.start_line
                                    /\ chunks'[n].end_line <= w.end_line
      <4> SUFFICES ASSUME NEW n \in DOMAIN chunks'
                   PROVE  chunks'[n].start_line <= w.start_line /\ chunks'[n].end_line <= w.end_line
        OBVIOUS
      <4>1. CASE n = Len(chunks) + 1
        BY <4>1, <2>1, <2>3 DEF Window
      <4>2. CASE n \in DOMAIN chunks
        <5>1. /\ chunks[n] \in Window /\ chunks # <<>>
              /\ chunks[n].start_line <= Final.start_line /\ chunks[n].end_line <= Final.end_line
          BY <4>2, <2>2 DEF ChunkInv, Reaching
        <5>2. /\ Final.start_line \in Nat /\ Final.start_line < w.start_line
              /\ Final.end_line \in Nat /\ Final.end_line < w.end_line
              /\ chunks[n].start_line \in Nat /\ chunks[n].end_line \in Nat
          BY <5>1, <2>0, <2>1, LastWindow DEF Window
        <5>3. w.start_line \in Nat /\ w.end_line \in Nat /\ chunks'[n] = chunks[n]
          BY <4>2, <2>1, <2>3 DEF Window
        <5> QED  BY <5>1, <5>2, <5>3
      <4> QED  BY <4>1, <4>2, <2>2, <2>3
    <3>3. looping' => /\ start' + 1 = w.start_line + Step /\ start' < lines
                      /\ w.end_line + 1 = w.start_line + MaxWindow
                      /\ w.end_line < lines
      <4>1. End = IF start + MaxWindow < lines THEN start + MaxWindow ELSE lines
        BY <2>0, EndIs
      <4>2. looping' => /\ End # lines /\ start' < lines /\ start' = start + Step
        BY <1>2 DEF NextWindow
      <4>3. End # lines => End = start + MaxWindow /\ End < lines
        BY <4>1, <2>0, Numbers, StepBounds
      <4> QED  BY <4>2, <4>3, <2>0, Numbers, StepBounds
    <3>4. ~looping' => w.end_line = lines
      <4>1. CASE End = lines
        BY <4>1
      <4>2. CASE End # lines
        <5>1. start' = start + Step /\ End = start + MaxWindow /\ End < lines
          BY <4>2, <1>2, <2>0, EndIs, Numbers, StepBounds DEF NextWindow
        <5>2. start' < lines
          BY <5>1, <2>0, Numbers, StepBounds
        <5> QED  BY <4>2, <5>2, <1>2 DEF NextWindow
      <4> QED  BY <4>1, <4>2
    <3> QED  BY <3>1, <3>2, <3>3, <3>4, <2>0, <2>3, <2>4, <2>5 DEF Reaching
  <2>8. EveryLineCovered'
    <3>1. ~looping' => \A l \in 1 .. lines : Covered(l)'
      BY <2>0, <2>3, <2>4, <2>7 DEF Reaching
    <3>2. ASSUME NEW n \in DOMAIN chunks'
          PROVE  /\ 1 <= chunks'[n].start_line /\ chunks'[n].end_line <= lines
                 /\ chunks'[n].start_line <= chunks'[n].end_line
                 /\ chunks'[n].end_line < chunks'[n].start_line + MaxWindow
      <4>1. CASE n \in DOMAIN chunks
        BY <4>1, <2>3 DEF ChunkInv, EveryLineCovered
      <4>2. CASE n = Len(chunks) + 1
        BY <4>2, <2>0, <2>1, <2>3, Numbers, StepBounds DEF Window
      <4> QED  BY <4>1, <4>2, <2>2, <2>3
    <3> QED  BY <3>1, <3>2, <2>0, <2>5 DEF EveryLineCovered
  <2>9. NoneContained'
    <3> SUFFICES ASSUME NEW m \in DOMAIN chunks', NEW n \in DOMAIN chunks', m < n
                 PROVE  /\ chunks'[m].start_line < chunks'[n].start_line
                        /\ chunks'[m].end_line < chunks'[n].end_line
      BY DEF NoneContained
    <3>1. m \in DOMAIN chunks /\ (n \in DOMAIN chunks \/ n = Len(chunks) + 1)
      BY <2>2, <2>3
    <3>2. CASE n \in DOMAIN chunks
      BY <3>1, <3>2, <2>3 DEF ChunkInv, NoneContained
    <3>3. CASE n = Len(chunks) + 1
      <4>1. /\ chunks[m] \in Window /\ chunks # <<>>
            /\ chunks[m].start_line <= Final.start_line /\ chunks[m].end_line <= Final.end_line
        BY <3>1, <2>2 DEF ChunkInv, Reaching
      <4>2. /\ Final.start_line \in Nat /\ Final.start_line < w.start_line
            /\ Final.end_line \in Nat /\ Final.end_line < w.end_line
            /\ chunks[m].start_line \in Nat /\ chunks[m].end_line \in Nat
        BY <4>1, <2>0, <2>1, LastWindow DEF Window
      <4>3. /\ w.start_line \in Nat /\ w.end_line \in Nat
            /\ chunks'[m] = chunks[m] /\ chunks'[n] = w
        BY <3>1, <3>3, <2>1, <2>3 DEF Window
      <4> QED  BY <4>1, <4>2, <4>3
    <3> QED  BY <3>1, <3>2, <3>3
  <2> QED  BY <2>6, <2>7, <2>8, <2>9 DEF ChunkInv
<1> QED  BY <1>1, <1>2

\* Every source line is in a chunk, for every text and configuration.
THEOREM EveryLineCoveredCorrect == ChunkSpec => []EveryLineCovered
<1>1. ChunkInv => EveryLineCovered
  BY DEF ChunkInv
<1> QED  BY <1>1, ChunkInvInit, ChunkInvNext, PTL DEF ChunkSpec

\* No window is contained in another.
THEOREM NoneContainedCorrect == ChunkSpec => []NoneContained
<1>1. ChunkInv => NoneContained
  BY DEF ChunkInv
<1> QED  BY <1>1, ChunkInvInit, ChunkInvNext, PTL DEF ChunkSpec

\* The arithmetic of the loop stays within a usize, for every configuration.
THEOREM NoOverflowCorrect == ChunkSpec => []NoOverflow
<1>1. ChunkInv => NoOverflow
  BY EndIs DEF NoOverflow
<1> QED  BY <1>1, ChunkInvInit, ChunkInvNext, PTL DEF ChunkSpec

\* The loop comes nearer to its end with every turn.
THEOREM LoopAdvancesCorrect == ChunkSpec => LoopAdvances
<1>1. ChunkInv /\ ChunkInv' /\ [NextWindow]_chunkVars
        => [looping' => start < start' /\ start' < lines]_chunkVars
  <2> SUFFICES ASSUME ChunkInv, ChunkInv', NextWindow, looping'
               PROVE  start < start' /\ start' < lines
    OBVIOUS
  <2>1. ChunkTypeOK /\ lines' = lines
    BY DEF ChunkInv, NextWindow
  <2>2. start' < lines
    BY <2>1 DEF ChunkInv, Reaching
  <2>3. start' = start + Step
    BY DEF NextWindow
  <2> QED  BY <2>1, <2>2, <2>3, Numbers, StepBounds
<1> QED  BY <1>1, ChunkInvInit, ChunkInvNext, PTL DEF ChunkSpec, LoopAdvances

-----------------------------------------------------------------------------
(* The model router.                                                        *)

LEMMA ModelOrder ==
  /\ DOMAIN All = 1 .. 5 /\ Len(All) = 5
  /\ All[1] = "sonnet" /\ All[2] = "opus" /\ All[3] = "deepseek" /\ All[4] = "haiku" /\ All[5] = "local"
  /\ Models = {"sonnet", "opus", "deepseek", "haiku", "local"}
<1>1. /\ DOMAIN All = 1 .. 5 /\ Len(All) = 5
      /\ All[1] = "sonnet" /\ All[2] = "opus" /\ All[3] = "deepseek" /\ All[4] = "haiku"
      /\ All[5] = "local"
  BY DEF All
<1>2. Models = {All[i] : i \in 1 .. 5}
  BY <1>1 DEF Models
<1>3. {All[i] : i \in 1 .. 5} = {All[1], All[2], All[3], All[4], All[5]}
  OBVIOUS
<1> QED
  BY <1>1, <1>2, <1>3

LEMMA ScoresAreNumbers ==
  ASSUME NEW p \in Prompt, NEW m \in Models
  PROVE  Scores(classify(p))[m] \in Nat
<1> DEFINE c == classify(p)
<1>2. ASSUME NEW there, NEW n \in Nat PROVE Signal(there, n) \in Nat
  BY DEF Signal
<1>3. m \in {"sonnet", "opus", "deepseek", "haiku", "local"}
  BY ModelOrder
<1> HIDE DEF c
<1>4. Scores(c)["opus"] \in Nat /\ Scores(c)["haiku"] \in Nat /\ Scores(c)["local"] \in Nat
  BY <1>2 DEF Scores
<1>5. Scores(c)["sonnet"] \in Nat /\ Scores(c)["deepseek"] \in Nat
  BY <1>2 DEF Scores
<1> QED
  BY <1>3, <1>4, <1>5 DEF c

\* The classes of prompts, and which model each gets.
Types == {"architecture", "code", "text", "faq", "unknown"}

Choice(c) ==
  IF c.is_critical \/ c.type = "architecture" THEN "opus"
  ELSE IF c.type = "faq" THEN "local"
  ELSE IF c.complexity = "low" /\ c.type = "code" THEN "deepseek"
  ELSE IF c.complexity = "low" /\ c.type = "text" THEN "haiku"
  ELSE "sonnet"

Class ==
  {c \in [type : Types, complexity : {"low", "medium", "high"},
          has_code : BOOLEAN, is_critical : BOOLEAN] :
     /\ c.is_critical \/ c.type = "architecture" => c.complexity = "high"
     /\ c.type = "faq" => c.complexity # "medium" /\ ~c.has_code
     /\ c.type \in {"text", "faq", "unknown"} => ~c.has_code}

LEMMA PromptClass ==
  ASSUME NEW p \in Prompt
  PROVE  classify(p) \in Class
<1>1. detect_type(p) \in Types
  BY DEF detect_type, Types
<1>2. detect_complexity(p) \in {"low", "medium", "high"}
  BY DEF detect_complexity
<1>3. p.critical \in BOOLEAN /\ p.marks \in BOOLEAN
  BY DEF Prompt
<1>4. p.critical \/ detect_type(p) = "architecture" => detect_complexity(p) = "high"
  BY DEF detect_complexity
<1>5. detect_type(p) = "faq" => detect_complexity(p) # "medium"
  BY DEF detect_complexity
<1>6. detect_type(p) \in {"text", "faq", "unknown"} => ~p.marks
  BY DEF detect_type
<1> QED
  BY <1>1, <1>2, <1>3, <1>4, <1>5, <1>6 DEF classify, Class

\* Highest score, ties toward the front of the list: there is one such model.
LEMMA OneWinner ==
  ASSUME NEW p \in Prompt, NEW m \in Models,
         \A n \in Models : Beats(Scores(classify(p)), m, n)
  PROVE  Winner(p) = m
<1> DEFINE s == Scores(classify(p))
<1>1. \A n \in Models : s[n] \in Nat
  BY ScoresAreNumbers
<1> HIDE DEF s
<1>2. ASSUME NEW w \in Models, \A n \in Models : Beats(s, w, n) PROVE w = m
  <2>1. Beats(s, w, m) /\ Beats(s, m, w)
    BY <1>2 DEF s
  <2>2. s[w] = s[m]
    BY <1>1, <2>1 DEF Beats
  <2>3. PICK i, j \in DOMAIN All : All[i] = w /\ All[j] = m /\ i <= j
    BY <1>1, <2>1, <2>2 DEF Beats
  <2>4. PICK k, l \in DOMAIN All : All[k] = m /\ All[l] = w /\ k <= l
    BY <1>1, <2>1, <2>2 DEF Beats
  <2>5. i = l /\ j = k
    BY <2>3, <2>4, ModelOrder
  <2> QED
    BY <2>3, <2>4, <2>5, ModelOrder
<1>3. \E w \in Models : \A n \in Models : Beats(s, w, n)
  BY DEF s
<1>4. Winner(p) = CHOOSE w \in Models : \A n \in Models : Beats(s, w, n)
  BY DEF Winner, s
<1> QED
  BY <1>2, <1>3, <1>4

LEMMA ChoiceWins ==
  ASSUME NEW c \in Class
  PROVE  Choice(c) \in Models /\ \A n \in Models : Beats(Scores(c), Choice(c), n)
<1> DEFINE s == Scores(c)
<1>1. /\ c.type \in Types /\ c.complexity \in {"low", "medium", "high"}
      /\ c.has_code \in BOOLEAN /\ c.is_critical \in BOOLEAN
      /\ c.is_critical \/ c.type = "architecture" => c.complexity = "high"
      /\ c.type = "faq" => c.complexity # "medium" /\ ~c.has_code
      /\ c.type \in {"text", "faq", "unknown"} => ~c.has_code
  BY DEF Class
<1>2. /\ s["opus"] = Signal(c.is_critical, 100) + Signal(c.complexity = "high", 2)
                       + Signal(c.type = "architecture", 3)
      /\ s["sonnet"] = Signal(c.complexity = "high", 1) + Signal(c.complexity = "medium", 2)
                       + Signal(c.type = "architecture", 1)
                       + Signal(c.type = "code" /\ ~(c.complexity = "low"), 3)
                       + Signal(c.type = "text" /\ ~(c.complexity = "low"), 2)
                       + Signal(c.type = "unknown", 1) + Signal(c.has_code, 1)
      /\ s["deepseek"] = Signal(c.complexity = "low", 1)
                       + Signal(c.type = "code", IF c.complexity = "low" THEN 2 ELSE 1)
                       + Signal(c.has_code, 1)
      /\ s["haiku"] = Signal(c.complexity = "low", 1) + Signal(c.type = "faq", 1)
                       + Signal(c.type = "text" /\ c.complexity = "low", 3)
      /\ s["local"] = Signal(c.complexity = "low", 1) + Signal(c.type = "faq", 3)
  BY DEF Scores
<1> SUFFICES Choice(c) \in Models /\ \A n \in Models : Beats(s, Choice(c), n)
  OBVIOUS
<1> HIDE DEF s
<1>3. ASSUME NEW m \in Models,
             \A n \in Models : s[m] > s[n] \/ (s[m] = s[n] /\ (n = m \/ m = "sonnet"))
      PROVE  \A n \in Models : Beats(s, m, n)
  BY <1>3, ModelOrder DEF Beats
<1>4. CASE c.is_critical
  <2>1. s["opus"] >= 100 /\ s["sonnet"] <= 50 /\ s["deepseek"] <= 50 /\ s["haiku"] <= 50
        /\ s["local"] <= 50 /\ s["opus"] \in Int /\ s["sonnet"] \in Int /\ s["deepseek"] \in Int
        /\ s["haiku"] \in Int /\ s["local"] \in Int
    BY <1>1, <1>2, <1>4 DEF Signal
  <2>2. Choice(c) = "opus"
    BY <1>4 DEF Choice
  <2> QED
    BY <1>3, <2>1, <2>2, ModelOrder
<1>5. CASE ~c.is_critical /\ c.type = "architecture"
  <2>1. s["opus"] = 5 /\ s["sonnet"] \in 0 .. 3 /\ s["deepseek"] \in 0 .. 1 /\ s["haiku"] = 0
        /\ s["local"] = 0
    BY <1>1, <1>2, <1>5 DEF Signal
  <2>2. Choice(c) = "opus"
    BY <1>5 DEF Choice
  <2> QED
    BY <1>3, <2>1, <2>2, ModelOrder
<1>6. CASE ~c.is_critical /\ c.type = "faq"
  <2>1. s["local"] >= 3 /\ s["opus"] <= 2 /\ s["sonnet"] <= 1 /\ s["deepseek"] <= 1
        /\ s["haiku"] <= 2 /\ s["opus"] \in Int /\ s["sonnet"] \in Int /\ s["deepseek"] \in Int
        /\ s["haiku"] \in Int /\ s["local"] \in Int
    BY <1>1, <1>2, <1>6 DEF Signal
  <2>2. Choice(c) = "local"
    BY <1>6 DEF Choice
  <2> QED
    BY <1>3, <2>1, <2>2, ModelOrder
<1>7. CASE ~c.is_critical /\ c.type = "code"
  <2>1. /\ s["opus"] \in 0 .. 2 /\ s["haiku"] \in 0 .. 1 /\ s["local"] \in 0 .. 1
        /\ IF c.complexity = "low"
           THEN s["sonnet"] \in 0 .. 1 /\ s["deepseek"] \in 3 .. 4
           ELSE s["sonnet"] \in 4 .. 6 /\ s["deepseek"] \in 1 .. 2
    BY <1>1, <1>2, <1>7 DEF Signal
  <2>2. Choice(c) = IF c.complexity = "low" THEN "deepseek" ELSE "sonnet"
    BY <1>7 DEF Choice
  <2> QED
    BY <1>3, <2>1, <2>2, ModelOrder
<1>8. CASE ~c.is_critical /\ c.type = "text"
  <2>1. /\ s["opus"] \in 0 .. 2 /\ s["deepseek"] \in 0 .. 1 /\ s["local"] \in 0 .. 1
        /\ IF c.complexity = "low"
           THEN s["sonnet"] = 0 /\ s["haiku"] = 4
           ELSE s["sonnet"] \in 3 .. 4 /\ s["haiku"] = 0
    BY <1>1, <1>2, <1>8 DEF Signal
  <2>2. Choice(c) = IF c.complexity = "low" THEN "haiku" ELSE "sonnet"
    BY <1>8 DEF Choice
  <2> QED
    BY <1>3, <2>1, <2>2, ModelOrder
<1>9. CASE ~c.is_critical /\ c.type = "unknown"
  <2>1. /\ s["opus"] \in 0 .. 2 /\ s["deepseek"] \in 0 .. 1 /\ s["local"] \in 0 .. 1
        /\ s["haiku"] \in 0 .. 1 /\ s["sonnet"] \in 1 .. 3 /\ s["opus"] <= s["sonnet"]
    BY <1>1, <1>2, <1>9 DEF Signal
  <2>2. Choice(c) = "sonnet"
    BY <1>9 DEF Choice
  <2> QED
    BY <1>3, <2>1, <2>2, ModelOrder
<1> QED
  BY <1>1, <1>4, <1>5, <1>6, <1>7, <1>8, <1>9 DEF Types

LEMMA WinnerIsChoice ==
  ASSUME NEW p \in Prompt
  PROVE  Winner(p) = Choice(classify(p))
BY PromptClass, ChoiceWins, OneWinner

\* More words make a prompt no simpler, and change nothing else of its class.
LEMMA MoreWords ==
  ASSUME NEW p \in Prompt, NEW n \in WordCounts, n >= p.words
  PROVE  LET q == [p EXCEPT !.words = n] IN
         /\ q \in Prompt
         /\ Tier[Winner(q)] >= Tier[Winner(p)]
<1> DEFINE q == [p EXCEPT !.words = n]
<1>1. /\ q \in Prompt /\ q.words = n /\ q.critical = p.critical /\ q.arch = p.arch
      /\ q.marks = p.marks /\ q.code = p.code /\ q.text = p.text /\ q.faq = p.faq
      /\ q.multistep = p.multistep
  BY DEF Prompt
<1> HIDE DEF q
<1>2. detect_type(q) = detect_type(p)
  BY <1>1 DEF detect_type
<1>3. n \in Nat /\ p.words \in Nat
  BY RouterConstants DEF Prompt
<1>4. detect_complexity(q) = "low" => detect_complexity(p) = "low"
  BY <1>1, <1>2, <1>3 DEF detect_complexity, LongPrompt, ShortPrompt
<1>5. /\ classify(q).type = classify(p).type
      /\ classify(q).is_critical = classify(p).is_critical
      /\ classify(q).complexity = "low" => classify(p).complexity = "low"
  BY <1>1, <1>2, <1>4 DEF classify
<1>6. /\ Tier["local"] = 1 /\ Tier["haiku"] = 2 /\ Tier["deepseek"] = 3 /\ Tier["sonnet"] = 4
      /\ Tier["opus"] = 5
  BY DEF Tier
<1>7. Tier[Choice(classify(q))] >= Tier[Choice(classify(p))]
  BY <1>5, <1>6 DEF Choice
<1> QED
  BY <1>1, <1>7, WinnerIsChoice DEF q

\* The best of the models the loop has tried, the first of equals.
BestSoFar ==
  /\ \A j \in 1 .. tried : Scores(classify(prompt))[All[j]] <= best.score
  /\ IF tried = 0 THEN best.score = -1
     ELSE \E k \in 1 .. tried :
            /\ best.model = All[k] /\ best.score = Scores(classify(prompt))[All[k]]
            /\ \A j \in 1 .. k - 1 : Scores(classify(prompt))[All[j]] < best.score

RouterInv == RouterTypeOK /\ BestSoFar

LEMMA RouterStarts == RouterInit => RouterInv
BY ModelOrder DEF RouterInit, RouterInv, RouterTypeOK, BestSoFar

LEMMA PickStep == RouterInv /\ [Pick]_routerVars => RouterInv'
<1> SUFFICES ASSUME RouterInv, [Pick]_routerVars PROVE RouterInv'
  OBVIOUS
<1> DEFINE s == Scores(classify(prompt))
<1>1. CASE UNCHANGED routerVars
  BY <1>1 DEF routerVars, RouterInv, RouterTypeOK, BestSoFar
<1>2. CASE Pick
  <2>1. /\ tried < 5 /\ tried' = tried + 1 /\ prompt' = prompt /\ tried \in 0 .. 5
        /\ best' = IF s[All[tried + 1]] > best.score
                   THEN [model |-> All[tried + 1], score |-> s[All[tried + 1]]] ELSE best
    BY <1>2, ModelOrder DEF Pick, RouterInv, RouterTypeOK
  <2>2. \A j \in 1 .. 5 : All[j] \in Models /\ s[All[j]] \in Nat
    BY ScoresAreNumbers, ModelOrder DEF RouterInv, RouterTypeOK
  <2>3. best.score \in Int /\ best.model \in Models
    BY DEF RouterInv, RouterTypeOK
  <2>4. RouterTypeOK'
    BY <2>1, <2>2, <2>3, ModelOrder DEF RouterInv, RouterTypeOK
  <2>5. s' = s
    BY <2>1
  <2> HIDE DEF s
  <2>6. /\ \A j \in 1 .. tried : s[All[j]] <= best.score
        /\ IF tried = 0 THEN best.score = -1
           ELSE \E k \in 1 .. tried : /\ best.model = All[k] /\ best.score = s[All[k]]
                                      /\ \A j \in 1 .. k - 1 : s[All[j]] < best.score
    BY DEF RouterInv, BestSoFar, s
  <2>7. CASE s[All[tried + 1]] > best.score
    <3>1. best'.model = All[tried + 1] /\ best'.score = s[All[tried + 1]]
      BY <2>1, <2>7
    <3>2. \A j \in 1 .. tried : s[All[j]] < best'.score
      BY <2>1, <2>2, <2>3, <2>6, <2>7, <3>1
    <3>3. /\ \A j \in 1 .. tried' : s[All[j]] <= best'.score
          /\ \A j \in 1 .. tried' - 1 : s[All[j]] < best'.score
          /\ tried' \in 1 .. tried' /\ tried' # 0
      BY <2>1, <2>2, <3>1, <3>2
    <3>4. \E k \in 1 .. tried' : /\ best'.model = All[k] /\ best'.score = s[All[k]]
                                 /\ \A j \in 1 .. k - 1 : s[All[j]] < best'.score
      BY <2>1, <3>1, <3>3
    <3>5. BestSoFar'
      BY <2>5, <3>3, <3>4 DEF BestSoFar, s
    <3> QED
      BY <2>4, <3>5 DEF RouterInv
  <2>8. CASE ~(s[All[tried + 1]] > best.score)
    <3>1. best' = best /\ tried # 0
      BY <2>1, <2>2, <2>6, <2>8
    <3>2. \A j \in 1 .. tried' : s[All[j]] <= best.score
      BY <2>1, <2>2, <2>3, <2>6, <2>8
    <3>3. \E k \in 1 .. tried' : /\ best.model = All[k] /\ best.score = s[All[k]]
                                 /\ \A j \in 1 .. k - 1 : s[All[j]] < best.score
      BY <2>1, <2>6, <3>1
    <3>4. BestSoFar'
      BY <2>1, <2>5, <3>1, <3>2, <3>3 DEF BestSoFar, s
    <3> QED
      BY <2>4, <3>4 DEF RouterInv
  <2> QED
    BY <2>7, <2>8
<1> QED
  BY <1>1, <1>2

\* pick_winner looks at five models, and its best is one of them.
THEOREM RouterTypeCorrect == RouterSpec => []RouterTypeOK
<1>1. RouterInv => RouterTypeOK
  BY DEF RouterInv
<1> QED
  BY <1>1, RouterStarts, PickStep, PTL DEF RouterSpec

\* pick_winner's loop ends with the model of the highest score, ties toward the
\* front of Model::ALL; a critical or architectural prompt gets Opus, a plain
\* question the local model, and more words never a weaker one.
THEOREM ModelChoiceCorrect == RouterSpec => []ModelChoice
<1>1. ASSUME RouterInv PROVE ModelChoice
  <2> SUFFICES ASSUME tried = 5 PROVE
        /\ best.model = Winner(prompt)
        /\ prompt.critical \/ prompt.arch => best.model = "opus"
        /\ detect_type(prompt) = "faq" /\ ~prompt.critical => best.model = "local"
        /\ \A n \in WordCounts : n >= prompt.words =>
             Tier[Winner([prompt EXCEPT !.words = n])] >= Tier[best.model]
    BY ModelOrder DEF ModelChoice
  <2> DEFINE s == Scores(classify(prompt))
  <2>1. prompt \in Prompt
    BY <1>1 DEF RouterInv, RouterTypeOK
  <2>2. \A j \in 1 .. 5 : All[j] \in Models /\ s[All[j]] \in Nat
    BY <2>1, ScoresAreNumbers, ModelOrder
  <2>3. PICK k \in 1 .. 5 : /\ best.model = All[k] /\ best.score = s[All[k]]
                            /\ \A j \in 1 .. k - 1 : s[All[j]] < best.score
    BY <1>1 DEF RouterInv, BestSoFar
  <2>4. \A j \in 1 .. 5 : s[All[j]] <= best.score
    BY <1>1 DEF RouterInv, BestSoFar
  <2> HIDE DEF s
  <2>5. ASSUME NEW j \in 1 .. 5 PROVE Beats(s, best.model, All[j])
    <3>1. CASE j < k
      BY <2>2, <2>3, <3>1 DEF Beats
    <3>2. CASE j >= k
      BY <2>2, <2>3, <2>4, <3>2, ModelOrder DEF Beats
    <3> QED
      BY <3>1, <3>2
  <2>6. \A n \in Models : Beats(s, best.model, n)
    BY <2>5, ModelOrder
  <2>7. best.model = Winner(prompt)
    BY <2>1, <2>2, <2>3, <2>6, OneWinner DEF s
  <2>8. best.model = Choice(classify(prompt))
    BY <2>1, <2>7, WinnerIsChoice
  <2>9. prompt.arch => detect_type(prompt) = "architecture"
    BY DEF detect_type
  <2> QED
    BY <2>1, <2>7, <2>8, <2>9, MoreWords DEF Choice, classify
<1> QED
  BY <1>1, RouterStarts, PickStep, PTL DEF RouterSpec

-----------------------------------------------------------------------------
(* The choice of an embedder.                                               *)

LEMMA EntryTypes ==
  ASSUME registry \in Registries, NEW p \in Embeddings
  PROVE  /\ registry[p].runtime \in Backends \cup {"unknown", "auto"}
         /\ registry[p].runtime = "auto" =>
              registry[p].next[1] \in Embeddings /\ registry[p].next[2] \in Embeddings
         /\ registry[p].runtime \in Backends => registry[p].runtime \notin {"unknown", "auto"}
<1>1. registry[p] \in [runtime : Backends \cup {"unknown"}, next : {<<>>}]
                   \cup [runtime : {"auto"}, next : Embeddings \X Embeddings]
  BY DEF Registries
<1> QED
  BY <1>1, EmbedderConstants

\* What a name leads to.
LEMMA ReachedByName ==
  ASSUME registry \in Registries, NEW p \in Embeddings
  PROVE  /\ registry[p].runtime \in Backends => p \in Reached(p) /\ Reached(p) \subseteq {p}
         /\ registry[p].runtime = "unknown" => Reached(p) = {}
         /\ registry[p].runtime = "auto" =>
              Reached(p) \subseteq Reached(registry[p].next[1]) \cup Reached(registry[p].next[2])
<1>1. CASE registry[p].runtime # "auto"
  <2>1. Within({p}, p)
    BY <1>1 DEF Within, LeadTo
  <2>2. Reached(p) \subseteq {p}
    BY <2>1 DEF Reached
  <2> QED
    BY <1>1, <2>2, EntryTypes DEF Reached, Within
<1>2. CASE registry[p].runtime = "auto"
  <2> DEFINE a == registry[p].next[1]
             b == registry[p].next[2]
  <2>1. a \in Embeddings /\ b \in Embeddings
    BY <1>2, EntryTypes
  <2>2. SUFFICES ASSUME NEW q \in Reached(p), q \notin Reached(a), q \notin Reached(b) PROVE FALSE
    BY <1>2, EntryTypes
  <2>3. q \in Embeddings /\ registry[q].runtime \in Backends
    BY DEF Reached
  <2>4. PICK S \in SUBSET Embeddings : Within(S, a) /\ q \notin S
    BY <2>2, <2>3 DEF Reached
  <2>5. PICK T \in SUBSET Embeddings : Within(T, b) /\ q \notin T
    BY <2>2, <2>3 DEF Reached
  <2> DEFINE U == S \cup T \cup {p}
  <2>6. Within(U, p)
    <3>1. ASSUME NEW r \in U, registry[r].runtime = "auto"
          PROVE  registry[r].next[1] \in U /\ registry[r].next[2] \in U
      BY <3>1, <2>4, <2>5 DEF Within, LeadTo
    <3> QED
      BY <3>1 DEF Within, LeadTo
  <2>7. q \in U
    BY <2>6 DEF Reached
  <2>8. q = p
    BY <2>4, <2>5, <2>7
  <2> QED
    BY <1>2, <2>3, <2>8, EntryTypes
<1> QED
  BY <1>1, <1>2, EntryTypes

\* The calls in progress, the innermost first.
Depth   == Len(pending) + 1
Call(n) == IF n = 1 THEN trying ELSE pending[n - 1]

\* Each of X has refused, or is what one of the n innermost calls leads to.
Ahead(X, n) == \A x \in X : x \in refused \/ \E j \in 1 .. n : x \in Reached(Call(j).name)

\* Asked leads to a name.
LedTo(name) == \A S \in SUBSET Embeddings : Within(S, Asked) => name \in S

\* What a call stands in for was led to by the calls inside it, and has refused
\* otherwise; so has what was asked for, unless one of the calls leads to it.
EmbedderInv ==
  /\ EmbeddersTypeOK
  /\ pending \in Seq([name : Embeddings, instead : SUBSET Embeddings])
  /\ trying \in [name : Embeddings, instead : SUBSET Embeddings]
  /\ \A n \in 1 .. Depth : /\ \A p \in Call(n).instead : Ahead(Reached(p), n - 1)
                           /\ LedTo(Call(n).name)
  /\ IF embedder = Failed THEN Reached(Asked) \subseteq refused
     ELSE Ahead(Reached(Asked), Depth)
  /\ embedder \in Embeddings => embedder \in Reached(Asked)

LEMMA EmbedderStarts == EmbeddersInit => EmbedderInv
<1> SUFFICES ASSUME EmbeddersInit PROVE EmbedderInv
  OBVIOUS
<1>1. /\ registry \in Registries /\ trying = [name |-> Asked, instead |-> {}]
      /\ pending = <<>> /\ refused = {} /\ embedder = Looking /\ Looking # Failed
  BY DEF EmbeddersInit, Looking, Failed
<1>2. Depth = 1 /\ Call(1).name = Asked /\ Call(1).instead = {}
  BY <1>1 DEF Depth, Call
<1>3. LedTo(Asked)
  BY DEF LedTo, Within
<1> QED
  BY <1>1, <1>2, <1>3, EmbedderConstants DEF EmbedderInv, EmbeddersTypeOK, Ahead

LEMMA CallTypes ==
  ASSUME EmbedderInv
  PROVE  /\ Depth \in Nat /\ Depth >= 1
         /\ \A n \in 1 .. Depth : Call(n) \in [name : Embeddings, instead : SUBSET Embeddings]
<1>1. Depth \in Nat /\ Depth >= 1
  BY DEF EmbedderInv, Depth
<1>2. ASSUME NEW n \in 1 .. Depth PROVE Call(n) \in [name : Embeddings, instead : SUBSET Embeddings]
  <2>1. CASE n = 1
    BY <2>1 DEF EmbedderInv, Call
  <2>2. CASE n # 1
    <3>1. n - 1 \in 1 .. Len(pending)
      BY <1>1, <2>2 DEF Depth, EmbedderInv
    <3> DEFINE T == [name : Embeddings, instead : SUBSET Embeddings]
    <3>2. pending \in Seq(T)
      BY DEF EmbedderInv
    <3> HIDE DEF T
    <3>3. pending[n - 1] \in T
      BY <3>1, <3>2
    <3> QED
      BY <2>2, <3>3 DEF Call, T
  <2> QED
    BY <2>1, <2>2
<1> QED
  BY <1>1, <1>2

\* The innermost call is over: the one outside it tries its fallback.
LEMMA FallStep ==
  ASSUME EmbedderInv, embedder = Looking, Fall, UNCHANGED registry,
         refused' \in {refused, refused \cup {trying.name}}, Reached(trying.name) \subseteq refused'
  PROVE  EmbedderInv'
<1>1. /\ \A p : Reached(p)' = Reached(p) /\ LedTo(p)' = LedTo(p)
      /\ trying.name \in Embeddings /\ registry \in Registries /\ refused \subseteq Embeddings
  BY DEF Reached, LedTo, Within, LeadTo, EmbedderInv, EmbeddersTypeOK
<1>2. CASE pending = <<>>
  <2>1. /\ embedder' = Failed /\ UNCHANGED <<trying, pending>>
        /\ Depth = 1 /\ Depth' = 1 /\ Call(1) = trying /\ Call(1)' = trying
    BY <1>2 DEF Fall, Depth, Call
  <2>2. Reached(Asked) \subseteq refused'
    BY <2>1 DEF EmbedderInv, Ahead, Looking, Failed
  <2>3. \A p \in trying.instead : Reached(p) \subseteq refused'
    BY <2>1 DEF EmbedderInv, Ahead
  <2>4. EmbeddersTypeOK'
    BY <1>1, <2>1 DEF EmbedderInv, EmbeddersTypeOK
  <2>5. \A n \in 1 .. Depth' : /\ \A p \in Call(n)'.instead : Ahead(Reached(p), n - 1)'
                               /\ LedTo(Call(n).name)'
    BY <1>1, <2>1, <2>3 DEF EmbedderInv, Ahead, Call
  <2> QED
    BY <1>1, <2>1, <2>2, <2>4, <2>5, EmbedderConstants DEF EmbedderInv
<1>3. CASE pending # <<>>
  <2>1. /\ trying' = Head(pending) /\ pending' = Tail(pending) /\ UNCHANGED embedder
        /\ pending \in Seq([name : Embeddings, instead : SUBSET Embeddings])
    BY <1>3 DEF Fall, EmbedderInv
  <2>2. /\ Depth \in Nat /\ Depth >= 2 /\ Depth' = Depth - 1
        /\ \A n \in 1 .. Depth' : Call(n)' = Call(n + 1)
    BY <1>3, <2>1 DEF Depth, Call
  <2>3. ASSUME NEW X, NEW n \in 1 .. Depth, Ahead(X, n) PROVE Ahead(X, n - 1)'
    <3> SUFFICES ASSUME NEW x \in X PROVE x \in refused' \/ \E j \in 1 .. n - 1 : x \in Reached(Call(j).name)'
      BY DEF Ahead
    <3>1. CASE x \in refused
      BY <3>1
    <3>2. ASSUME NEW j \in 1 .. n, x \in Reached(Call(j).name)
          PROVE  x \in refused' \/ \E i \in 1 .. n - 1 : x \in Reached(Call(i).name)'
      <4>1. CASE j = 1
        BY <3>2, <4>1 DEF Call
      <4>2. CASE j # 1
        <5>1. j - 1 \in 1 .. n - 1 /\ j - 1 \in 1 .. Depth'
          BY <2>2, <4>2
        <5>2. Call(j - 1)' = Call(j)
          BY <2>2, <5>1
        <5>3. Reached(Call(j - 1).name)' = Reached(Call(j).name)
          BY <1>1, <5>2 DEF Reached, Within, LeadTo
        <5> QED
          BY <3>2, <5>1, <5>3
      <4> QED
        BY <4>1, <4>2
    <3> QED
      BY <2>3, <3>1, <3>2 DEF Ahead
  <2>0. /\ trying' \in [name : Embeddings, instead : SUBSET Embeddings]
        /\ pending' \in Seq([name : Embeddings, instead : SUBSET Embeddings])
    <3> DEFINE T == [name : Embeddings, instead : SUBSET Embeddings]
    <3>1. pending \in Seq(T)
      BY <2>1
    <3> HIDE DEF T
    <3>2. Head(pending) \in T /\ Tail(pending) \in Seq(T)
      BY <1>3, <3>1
    <3> QED
      BY <2>1, <3>2 DEF T
  <2>4. EmbeddersTypeOK'
    BY <1>1, <2>0, <2>1 DEF EmbedderInv, EmbeddersTypeOK
  <2>5. ASSUME NEW n \in 1 .. Depth'
        PROVE  /\ \A p \in Call(n)'.instead : Ahead(Reached(p), n - 1)'
               /\ LedTo(Call(n).name)'
    <3>1. n + 1 \in 1 .. Depth /\ Call(n)' = Call(n + 1)
      BY <2>2
    <3>2. LedTo(Call(n + 1).name)
      BY <3>1 DEF EmbedderInv
    <3>3. ASSUME NEW p \in Call(n)'.instead PROVE Ahead(Reached(p), n - 1)'
      <4>1. Ahead(Reached(p), n)
        BY <3>1 DEF EmbedderInv
      <4>2. n \in 1 .. Depth
        BY <2>2
      <4> DEFINE X == Reached(p)
      <4>3. X' = X
        BY <1>1
      <4> HIDE DEF X
      <4>4. PICK Y : Y = X
        OBVIOUS
      <4>5. Ahead(Y, n - 1)'
        BY <2>3, <4>1, <4>2, <4>4 DEF X
      <4> QED
        BY <4>3, <4>4, <4>5 DEF X, Ahead
    <3> QED
      BY <1>1, <3>1, <3>2, <3>3 DEF LedTo, Within, LeadTo
  <2>6. Ahead(Reached(Asked), Depth)'
    <3>1. Ahead(Reached(Asked), Depth)
      BY DEF EmbedderInv, Looking, Failed
    <3>2. PICK Y, m : Y = Reached(Asked) /\ m = Depth
      OBVIOUS
    <3>3. Ahead(Y, m - 1)'
      BY <2>2, <2>3, <3>1, <3>2
    <3> QED
      BY <1>1, <2>2, <3>2, <3>3 DEF Ahead
  <2> QED
    BY <1>1, <2>0, <2>1, <2>4, <2>5, <2>6, EmbedderConstants DEF EmbedderInv, Looking, Failed
<1> QED
  BY <1>2, <1>3

LEMMA TryPrimaryStep ==
  ASSUME EmbedderInv, TryPrimary
  PROVE  EmbedderInv'
<1> DEFINE e == trying.name
           a == registry[e].next[1]
           b == registry[e].next[2]
<1>1. /\ \A p : Reached(p)' = Reached(p) /\ LedTo(p)' = LedTo(p)
      /\ e \in Embeddings /\ registry \in Registries
      /\ UNCHANGED <<registry, refused, embedder>> /\ embedder = Looking
  BY DEF Reached, LedTo, Within, LeadTo, EmbedderInv, EmbeddersTypeOK, TryPrimary
<1>2. /\ registry[e].runtime = "auto" /\ a \in Embeddings /\ b \in Embeddings
      /\ trying' = [name |-> a, instead |-> trying.instead]
      /\ pending' = <<[name |-> b, instead |-> trying.instead \cup {a}]>> \o pending
      /\ pending \in Seq([name : Embeddings, instead : SUBSET Embeddings])
      /\ trying.instead \subseteq Embeddings
  BY <1>1, EntryTypes DEF TryPrimary, Entry, EmbedderInv, EmbeddersTypeOK
<1>3. Reached(e) \subseteq Reached(a) \cup Reached(b)
  BY <1>1, <1>2, ReachedByName
<1>4. (LedTo(e) => LedTo(a) /\ LedTo(b)) /\ LedTo(e)
  <2>1. LedTo(e)
    BY CallTypes DEF EmbedderInv, Call
  <2>2. \A S \in SUBSET Embeddings : e \in S /\ LeadTo(S) \subseteq S => a \in S /\ b \in S
    BY <1>2 DEF LeadTo
  <2> QED
    BY <2>1, <2>2 DEF LedTo, Within
<1> HIDE DEF e, a, b
<1>5. /\ pending' \in Seq([name : Embeddings, instead : SUBSET Embeddings])
      /\ trying' \in [name : Embeddings, instead : SUBSET Embeddings]
      /\ Len(pending') = Len(pending) + 1
      /\ pending'[1] = [name |-> b, instead |-> trying.instead \cup {a}]
      /\ \A n \in 1 .. Len(pending) : pending'[n + 1] = pending[n]
  BY <1>2
<1>6. /\ Depth \in Nat /\ Depth >= 1 /\ Depth' = Depth + 1
      /\ Call(1)' = [name |-> a, instead |-> trying.instead]
      /\ Call(2)' = [name |-> b, instead |-> trying.instead \cup {a}]
  BY <1>2, <1>5, CallTypes DEF Depth, Call
<1>7. ASSUME NEW n \in 2 .. Depth PROVE Call(n + 1)' = Call(n)
  <2>1. n - 1 \in 1 .. Len(pending) /\ n # 1 /\ n + 1 # 1 /\ (n - 1) + 1 = (n + 1) - 1
    BY <1>6, <1>2 DEF Depth
  <2>2. pending'[(n + 1) - 1] = pending[n - 1]
    BY <1>5, <2>1
  <2> QED
    BY <2>1, <2>2 DEF Call
<1>8. ASSUME NEW X, NEW n \in 1 .. Depth, Ahead(X, n) PROVE Ahead(X, n + 1)'
  <2> SUFFICES ASSUME NEW x \in X PROVE x \in refused' \/ \E j \in 1 .. n + 1 : x \in Reached(Call(j).name)'
    BY DEF Ahead
  <2>1. CASE x \in refused
    BY <1>1, <2>1
  <2>2. ASSUME NEW j \in 1 .. n, x \in Reached(Call(j).name)
        PROVE  \E i \in 1 .. n + 1 : x \in Reached(Call(i).name)'
    <3>1. CASE j = 1
      <4>1. x \in Reached(a) \/ x \in Reached(b)
        BY <1>3, <2>2, <3>1 DEF Call, e
      <4>2. Reached(Call(1).name)' = Reached(a) /\ Reached(Call(2).name)' = Reached(b)
        BY <1>1, <1>6 DEF Reached, Within, LeadTo
      <4>3. 1 \in 1 .. n + 1 /\ 2 \in 1 .. n + 1
        BY <1>6
      <4> QED
        BY <4>1, <4>2, <4>3
    <3>2. CASE j # 1
      <4>1. j \in 2 .. Depth /\ j + 1 \in 1 .. n + 1
        BY <1>6, <3>2
      <4>2. Reached(Call(j + 1).name)' = Reached(Call(j).name)
        BY <1>1, <1>7, <4>1 DEF Reached, Within, LeadTo
      <4> QED
        BY <2>2, <4>1, <4>2
    <3> QED
      BY <3>1, <3>2
  <2> QED
    BY <1>8, <2>1, <2>2 DEF Ahead
<1>9. ASSUME NEW n \in 1 .. Depth'
      PROVE  /\ \A p \in Call(n)'.instead : Ahead(Reached(p), n - 1)'
             /\ LedTo(Call(n).name)'
  <2>1. \A p \in trying.instead : Ahead(Reached(p), 0)
    BY <1>6 DEF EmbedderInv, Call
  <2>2. ASSUME NEW p, Ahead(Reached(p), 0), NEW m \in Nat PROVE Ahead(Reached(p), m)'
    BY <1>1, <2>2 DEF Ahead
  <2>3. CASE n = 1
    BY <1>1, <1>4, <1>6, <2>1, <2>2, <2>3 DEF LedTo, Within, LeadTo
  <2>4. CASE n = 2
    <3>1. Reached(Call(1).name)' = Reached(a)
      BY <1>1, <1>6 DEF Reached, Within, LeadTo
    <3>2. ASSUME NEW p \in Call(n)'.instead PROVE Ahead(Reached(p), n - 1)'
      <4>1. CASE p \in trying.instead
        BY <2>1, <2>2, <2>4, <4>1
      <4>2. CASE p \notin trying.instead
        <5>1. p = a
          BY <1>6, <2>4, <3>2, <4>2
        <5>2. Reached(p)' = Reached(a) /\ 1 \in 1 .. n - 1
          BY <1>1, <2>4, <5>1
        <5> QED
          BY <3>1, <5>2 DEF Ahead
      <4> QED
        BY <4>1, <4>2
    <3>3. Call(n)'.name = b
      BY <1>6, <2>4
    <3>4. LedTo(Call(n).name)'
      BY <1>1, <1>4, <3>3 DEF LedTo, Within, LeadTo
    <3> QED
      BY <3>2, <3>4
  <2>5. CASE n > 2
    <3>1. n - 1 \in 2 .. Depth /\ n - 1 \in 1 .. Depth /\ n - 2 \in 1 .. Depth /\ (n - 1) + 1 = n
          /\ (n - 2) + 1 = n - 1 /\ (n - 1) - 1 = n - 2
      BY <1>6, <2>5
    <3>2. Call(n)' = Call(n - 1)
      BY <1>7, <3>1
    <3>3. ASSUME NEW p \in Call(n)'.instead PROVE Ahead(Reached(p), n - 1)'
      <4>1. Ahead(Reached(p), n - 2)
        BY <3>1, <3>2 DEF EmbedderInv
      <4>2. PICK Y : Y = Reached(p)
        OBVIOUS
      <4>3. Ahead(Y, n - 1)'
        BY <1>8, <3>1, <4>1, <4>2
      <4> QED
        BY <1>1, <4>2, <4>3 DEF Ahead
    <3>4. LedTo(Call(n - 1).name)
      BY <3>1 DEF EmbedderInv
    <3> QED
      BY <1>1, <3>2, <3>3, <3>4 DEF LedTo, Within, LeadTo
  <2> QED
    BY <1>6, <2>3, <2>4, <2>5
<1>10. Ahead(Reached(Asked), Depth)'
  <2>1. Ahead(Reached(Asked), Depth)
    BY <1>1, EmbedderConstants DEF EmbedderInv, Looking, Failed
  <2>2. PICK Y, m : Y = Reached(Asked) /\ m = Depth
    OBVIOUS
  <2>3. Ahead(Y, m + 1)'
    BY <1>6, <1>8, <2>1, <2>2
  <2> QED
    BY <1>1, <1>6, <2>2, <2>3 DEF Ahead
<1>11. EmbeddersTypeOK'
  BY <1>1, <1>5 DEF EmbedderInv, EmbeddersTypeOK
<1> QED
  BY <1>1, <1>5, <1>9, <1>10, <1>11, EmbedderConstants DEF EmbedderInv, Looking, Failed

\* A call that ends with a backend leaves the calls as they are.
LEMMA CallsRest ==
  ASSUME EmbedderInv, UNCHANGED <<registry, trying, pending, refused>>,
         embedder' = embedder \/ (embedder' \in Reached(Asked) /\ embedder = Looking)
  PROVE  EmbedderInv'
<1>1. ASSUME NEW p PROVE Reached(p)' = Reached(p) /\ LedTo(p)' = LedTo(p)
  BY DEF Reached, LedTo, Within, LeadTo
<1>2. ASSUME NEW n PROVE Call(n)' = Call(n)
  BY DEF Call
<1>3. ASSUME NEW n
      PROVE  Reached(Call(n).name)' = Reached(Call(n).name) /\ LedTo(Call(n).name)' = LedTo(Call(n).name)
  BY <1>2 DEF Reached, LedTo, Within, LeadTo
<1>4. ASSUME NEW X, NEW n, Ahead(X, n) PROVE Ahead(X, n)'
  <2> SUFFICES ASSUME NEW x \in X, x \notin refused
               PROVE  \E j \in 1 .. n : x \in Reached(Call(j).name)'
    BY DEF Ahead
  <2>1. PICK j \in 1 .. n : x \in Reached(Call(j).name)
    BY <1>4 DEF Ahead
  <2> QED
    BY <1>3, <2>1
<1>5. Depth' = Depth
  BY DEF Depth
<1>6. ASSUME NEW n \in 1 .. Depth
      PROVE  /\ \A p \in Call(n)'.instead : Ahead(Reached(p), n - 1)'
             /\ LedTo(Call(n).name)'
  <2>1. ASSUME NEW p \in Call(n)'.instead PROVE Ahead(Reached(p), n - 1)'
    <3>1. Ahead(Reached(p), n - 1)
      BY <1>2, <2>1 DEF EmbedderInv
    <3>2. PICK Y, m : Y = Reached(p) /\ m = n - 1
      OBVIOUS
    <3>3. Ahead(Y, m)'
      BY <1>4, <3>1, <3>2
    <3> QED
      BY <1>1, <3>2, <3>3 DEF Ahead
  <2> QED
    BY <1>3, <2>1 DEF EmbedderInv
<1>7. ASSUME embedder # Failed PROVE Ahead(Reached(Asked), Depth)'
  <2>1. PICK Y, m : Y = Reached(Asked) /\ m = Depth
    OBVIOUS
  <2>2. Ahead(Y, m)'
    BY <1>4, <1>7, <2>1 DEF EmbedderInv
  <2> QED
    BY <1>1, <1>5, <2>1, <2>2 DEF Ahead
<1>8. Reached(Asked) \subseteq Embeddings /\ Reached(Asked)' = Reached(Asked) /\ Looking # Failed
  BY <1>1 DEF Reached, Looking, Failed
<1>9. EmbeddersTypeOK'
  BY <1>8 DEF EmbedderInv, EmbeddersTypeOK
<1>10. embedder' = Failed => embedder = Failed
  BY <1>8, EmbedderConstants
<1>11. IF embedder' = Failed THEN Reached(Asked)' \subseteq refused' ELSE Ahead(Reached(Asked), Depth)'
  BY <1>7, <1>8, <1>10 DEF EmbedderInv
<1>12. embedder' \in Embeddings => embedder' \in Reached(Asked)'
  BY <1>8, EmbedderConstants DEF EmbedderInv
<1> QED
  BY <1>5, <1>6, <1>9, <1>11, <1>12 DEF EmbedderInv

LEMMA BuildStep ==
  ASSUME EmbedderInv, BuildBackend
  PROVE  EmbedderInv'
<1>1. /\ registry' = registry /\ registry \in Registries /\ trying.name \in Embeddings
      /\ embedder = Looking /\ registry[trying.name].runtime \in Backends
      /\ refused \subseteq Embeddings
  BY DEF BuildBackend, Entry, EmbedderInv, EmbeddersTypeOK
<1>2. Reached(trying.name) \subseteq {trying.name}
  BY <1>1, ReachedByName
<1>3. CASE Fall /\ refused' = refused \cup {trying.name}
  BY <1>1, <1>2, <1>3, FallStep
<1>4. CASE embedder' = trying.name /\ UNCHANGED <<trying, pending, refused>>
  <2>1. LedTo(trying.name)
    BY CallTypes DEF EmbedderInv, Call
  <2>2. trying.name \in Reached(Asked)
    BY <1>1, <2>1 DEF Reached, LedTo
  <2> QED
    BY <1>1, <1>4, <2>2, CallsRest
<1> QED
  BY <1>3, <1>4 DEF BuildBackend

LEMMA EmbedderStep == EmbedderInv /\ [EmbeddersNext]_embedderVars => EmbedderInv'
<1> SUFFICES ASSUME EmbedderInv, [EmbeddersNext]_embedderVars PROVE EmbedderInv'
  OBVIOUS
<1>1. CASE RefuseUnknown
  <2>1. Reached(trying.name) = {}
    BY <1>1, ReachedByName DEF RefuseUnknown, Entry, EmbedderInv, EmbeddersTypeOK
  <2> QED
    BY <1>1, <2>1, FallStep DEF RefuseUnknown
<1>2. CASE UNCHANGED embedderVars
  BY <1>2, CallsRest DEF embedderVars
<1> QED
  BY <1>1, <1>2, BuildStep, TryPrimaryStep DEF EmbeddersNext

\* What from_provider tries and builds are names of providers.json.
THEOREM EmbeddersTypeCorrect == EmbeddersSpec => []EmbeddersTypeOK
<1>1. EmbedderInv => EmbeddersTypeOK
  BY DEF EmbedderInv
<1> QED
  BY <1>1, EmbedderStarts, EmbedderStep, PTL DEF EmbeddersSpec

\* Whatever providers.json nests, and if it leads back to itself, a fallback is
\* tried only after all its primary leads to has refused, a failure means that
\* all has, and what is built is of what was asked for (from_provider).
THEOREM FallbackIsLastCorrect == EmbeddersSpec => []FallbackIsLast
<1>1. ASSUME EmbedderInv PROVE FallbackIsLast
  <2>1. \A p \in trying.instead : Ahead(Reached(p), 0)
    <3>1. 1 \in 1 .. Depth /\ Call(1) = trying
      BY <1>1, CallTypes DEF Call
    <3>2. \A p \in Call(1).instead : Ahead(Reached(p), 1 - 1)
      BY <1>1, <3>1 DEF EmbedderInv
    <3> QED
      BY <3>1, <3>2
  <2> QED
    BY <1>1, <2>1 DEF EmbedderInv, FallbackIsLast, Ahead
<1> QED
  BY <1>1, EmbedderStarts, EmbedderStep, PTL DEF EmbeddersSpec

-----------------------------------------------------------------------------
(* locate.                                                                  *)

Named == Len(named)

\* The words while the prompt is read, the candidates while chunks are ranked,
\* and where the report is made of.
LocatorInv ==
  /\ LocatorTypeOK
  /\ EachWordOnce /\ CandidateIsBest
  /\ turn <= Named + Len(ranked)
  /\ report # None => /\ turn = Named + (IF Ranking THEN Len(ranked) ELSE 0)
                      /\ report = IF Ranking THEN Best ELSE <<>>

LEMMA FilesAreFinite == IsFiniteSet(Files)
<1>1. Len(FileOrder) \in Nat /\ DOMAIN FileOrder = 1 .. Len(FileOrder)
  BY LocatorConstants
<1>2. 1 \in Int /\ Len(FileOrder) \in Int
  BY <1>1
<1>3. IsFiniteSet(DOMAIN FileOrder)
  BY <1>1, <1>2, FS_Interval
<1>4. FileOrder \in Surjection(DOMAIN FileOrder, Files)
  <2>1. FileOrder \in [DOMAIN FileOrder -> Files]
    BY <1>1, LocatorConstants
  <2> QED
    BY <2>1 DEF Surjection, Files
<1> QED
  BY <1>3, <1>4, FS_Surjection

LEMMA LocatorStarts == LocatorInit => LocatorInv
<1> SUFFICES ASSUME LocatorInit PROVE LocatorInv
  OBVIOUS
<1>1. ASSUME NEW S, NEW n \in Nat PROVE BoundedSeq(S, n) \subseteq Seq(S)
  BY DEF BoundedSeq, SeqOf
<1>2. named \in Seq(Words)
  <2>1. PICK q \in BoundedSeq(Words, MaxQuoted), t \in BoundedSeq(Words \ Short, MaxTokens) : named = q \o t
    BY DEF LocatorInit
  <2>2. q \in Seq(Words) /\ t \in Seq(Words \ Short)
    BY <1>1, LocatorConstants
  <2>3. t \in Seq(Words)
    BY <2>2
  <2> QED
    BY <2>1, <2>2, <2>3
<1>3. ranked \in Seq(Chunk)
  BY <1>1, LocatorConstants DEF LocatorInit
<1>4. /\ action \in BOOLEAN /\ max \in MaxTargets /\ words = <<>> /\ byFile = [f \in Files |-> None]
      /\ report = None /\ turn = 0
  BY DEF LocatorInit
<1>5. Len(named) \in Nat /\ Len(ranked) \in Nat /\ <<>> \in Seq(Words) /\ Len(<<>>) = 0 /\ DOMAIN <<>> = {}
  BY <1>2, <1>3
<1>6. LocatorTypeOK
  BY <1>2, <1>3, <1>4, <1>5 DEF LocatorTypeOK
<1>7. EachWordOnce
  BY <1>4, <1>5, LocatorConstants DEF EachWordOnce
<1>8. \A f \in Files : Seen(f) = {}
  BY <1>4, <1>5 DEF Seen
<1> QED
  BY <1>4, <1>5, <1>6, <1>7, <1>8 DEF LocatorInv, CandidateIsBest, Named

\* push_target, its guard met or not.
LEMMA ExtractStep ==
  ASSUME LocatorInv, Extract
  PROVE  LocatorInv'
<1> DEFINE w == named[turn + 1]
<1>1. /\ turn \in Nat /\ turn < Len(named) /\ turn' = turn + 1 /\ words' = Push(w)
      /\ UNCHANGED <<named, action, ranked, max, byFile, report>>
      /\ named \in Seq(Words) /\ words \in Seq(Words) /\ ranked \in Seq(Chunk)
      /\ Len(named) \in Nat /\ Len(ranked) \in Nat /\ Len(words) \in Nat
  BY DEF Extract, LocatorInv, LocatorTypeOK
<1>2. w \in Words
  BY <1>1
<1> HIDE DEF w
<1>3. report = None
  BY <1>1 DEF LocatorInv, Named
<1>4. /\ \A i, j \in DOMAIN words : AsciiFolded[words[i]] = AsciiFolded[words[j]] => i = j
      /\ \A n \in 1 .. turn : n <= Len(named) =>
           Len(words) >= Room \/ \E v \in ToSet(words) : AsciiFolded[v] = AsciiFolded[named[n]]
      /\ Len(words) <= Room
  BY DEF LocatorInv, EachWordOnce
<1>5. ASSUME NEW n \in 1 .. turn + 1 PROVE n \in 1 .. turn \/ n = turn + 1
  BY <1>1
<1>6. /\ words' \in Seq(Words)
      /\ EachWordOnce'
  <2>1. CASE (\E v \in ToSet(words) : AsciiFolded[v] = AsciiFolded[w]) \/ Len(words) >= Room
    <3>1. words' = words
      BY <1>1, <2>1 DEF Push
    <3>2. ASSUME NEW n \in 1 .. turn'
          PROVE  Len(words) >= Room \/ \E v \in ToSet(words) : AsciiFolded[v] = AsciiFolded[named[n]]
      BY <1>1, <1>4, <1>5, <2>1, <3>2 DEF w
    <3> QED
      BY <1>1, <1>4, <3>1, <3>2 DEF EachWordOnce, ToSet
  <2>2. CASE ~((\E v \in ToSet(words) : AsciiFolded[v] = AsciiFolded[w]) \/ Len(words) >= Room)
    <3>1. /\ words' = Append(words, w) /\ words' \in Seq(Words) /\ Len(words') = Len(words) + 1
          /\ DOMAIN words = 1 .. Len(words) /\ DOMAIN words' = 1 .. Len(words) + 1
          /\ \A i \in DOMAIN words : words'[i] = words[i] /\ i \in DOMAIN words'
          /\ words'[Len(words) + 1] = w /\ Len(words) + 1 \in DOMAIN words'
      BY <1>1, <1>2, <2>2 DEF Push
    <3>2. \A i \in DOMAIN words' : i \in DOMAIN words \/ i = Len(words) + 1
      BY <1>1, <3>1
    <3>3. \A i \in DOMAIN words : AsciiFolded[words[i]] # AsciiFolded[w]
      BY <2>2 DEF ToSet
    <3>4. \A i, j \in DOMAIN words' : AsciiFolded[words'[i]] = AsciiFolded[words'[j]] => i = j
      BY <1>4, <3>1, <3>2, <3>3
    <3>5. ToSet(words) \subseteq ToSet(words') /\ w \in ToSet(words')
      BY <3>1 DEF ToSet
    <3>6. ASSUME NEW n \in 1 .. turn', n <= Len(named)
          PROVE  Len(words') >= Room \/ \E v \in ToSet(words') : AsciiFolded[v] = AsciiFolded[named[n]]
      <4>1. CASE n = turn + 1
        BY <3>5, <4>1 DEF w
      <4>2. CASE n \in 1 .. turn
        BY <1>1, <1>4, <2>2, <3>5, <3>6, <4>2
      <4> QED
        BY <1>1, <1>5, <4>1, <4>2
    <3>7. Len(words') <= Room
      BY <1>1, <2>2, <3>1, LocatorConstants
    <3> QED
      BY <1>1, <3>1, <3>4, <3>6, <3>7 DEF EachWordOnce, ToSet
  <2> QED
    BY <2>1, <2>2
<1>7. LocatorTypeOK'
  BY <1>1, <1>6 DEF LocatorInv, LocatorTypeOK
<1>8. CandidateIsBest'
  <2>1. \A f \in Files : Seen(f) = {} /\ Seen(f)' = {}
    BY <1>1 DEF Seen
  <2> QED
    BY <1>1, <2>1 DEF LocatorInv, CandidateIsBest
<1> QED
  BY <1>1, <1>3, <1>6, <1>7, <1>8 DEF LocatorInv, Named

LEMMA BoostIsNumber ==
  ASSUME LocatorTypeOK, NEW c \in Chunk
  PROVE  Boosted(c) \in Nat /\ Matched(c) \subseteq Words
<1>1. Len(words) \in Nat /\ DOMAIN words = 1 .. Len(words) /\ words \in [DOMAIN words -> Words]
  BY DEF LocatorTypeOK
<1>2. IsFiniteSet(DOMAIN words)
  <2>1. 1 \in Int /\ Len(words) \in Int
    BY <1>1
  <2> QED
    BY <1>1, <2>1, FS_Interval
<1>3. words \in Surjection(DOMAIN words, ToSet(words))
  BY <1>1 DEF Surjection, ToSet
<1>4. IsFiniteSet(ToSet(words))
  BY <1>2, <1>3, FS_Surjection
<1>5. Matched(c) \subseteq ToSet(words) /\ ToSet(words) \subseteq Words
  BY <1>1 DEF Matched, ToSet
<1>6. Cardinality(Matched(c)) \in Nat
  BY <1>4, <1>5, FS_Subset, FS_CardinalityType
<1>7. c.score \in Nat
  BY LocatorConstants DEF Chunk
<1> QED
  BY <1>5, <1>6, <1>7 DEF Boosted

\* d is the candidate of file g made of the chunks S of it.
Stands(d, g, S) ==
  /\ d.line \in S /\ d.file = g /\ d.score = Boosted(ranked[d.line])
  /\ \A n \in S : /\ Boosted(ranked[n]) <= d.score
                  /\ n < d.line => Boosted(ranked[n]) < d.score
  /\ d.why = UNION {Matched(ranked[n]) : n \in S}

\* A turn over the chunks: only the candidate of that chunk's file may change.
LEMMA RankStep ==
  ASSUME LocatorInv, Rank
  PROVE  LocatorInv'
<1>0. PICK line, c, g : line = turn - Named + 1 /\ c = ranked[line] /\ g = c.file
  OBVIOUS
<1> DEFINE old == byFile[g]
           new == Merged(old, line, c)
           own == [file |-> g, line |-> line, why |-> Matched(c), score |-> Boosted(c)]
<1>1. /\ Ranking /\ turn >= Named /\ line <= Len(ranked) /\ turn' = turn + 1
      /\ byFile' = [byFile EXCEPT ![g] = new]
      /\ UNCHANGED <<named, action, ranked, max, words, report>>
      /\ turn \in Nat /\ Named \in Nat /\ Len(ranked) \in Nat /\ ranked \in Seq(Chunk)
  BY <1>0 DEF Rank, Named, LocatorInv, LocatorTypeOK
<1>2. line \in 1 .. Len(ranked) /\ line \in Nat
  BY <1>0, <1>1
<1>3. c \in Chunk /\ \A n \in 1 .. line : ranked[n] \in Chunk
  BY <1>0, <1>1, <1>2
<1>4. g \in Files /\ Boosted(c) \in Nat /\ Matched(c) \subseteq Words
  BY <1>0, <1>3, BoostIsNumber DEF Chunk, LocatorInv
<1>5. \A n \in 1 .. line : Boosted(ranked[n]) \in Nat
  BY <1>3, BoostIsNumber DEF LocatorInv
<1>6. report = None
  BY <1>0, <1>1 DEF LocatorInv
<1>7. \A f \in Files \ {g} : Seen(f)' = Seen(f)
  <2> SUFFICES ASSUME NEW f \in Files \ {g} PROVE Seen(f)' = Seen(f)
    OBVIOUS
  <2>1. turn' - Len(named') = line /\ turn - Len(named) = line - 1
    BY <1>0, <1>1 DEF Named
  <2>2. Seen(f)' = {n \in 1 .. line : ranked[n].file = f} /\ Seen(f) = {n \in 1 .. line - 1 : ranked[n].file = f}
    BY <1>1, <2>1 DEF Seen
  <2> QED
    BY <1>0, <1>2, <2>2
<1>8. Seen(g)' = Seen(g) \cup {line} /\ \A n \in Seen(g) : n \in 1 .. line /\ n < line
  <2>1. turn' - Len(named') = line /\ turn - Len(named) = line - 1
    BY <1>0, <1>1 DEF Named
  <2>2. Seen(g)' = {n \in 1 .. line : ranked[n].file = g} /\ Seen(g) = {n \in 1 .. line - 1 : ranked[n].file = g}
    BY <1>1, <2>1 DEF Seen
  <2> QED
    BY <1>0, <1>2, <2>2
<1>9. \A x \in Chunk : Boosted(x)' = Boosted(x) /\ Matched(x)' = Matched(x)
  BY <1>1 DEF Boosted, Matched, ToSet
<1>10. old \in Candidate \cup {None}
  BY <1>4 DEF LocatorInv, LocatorTypeOK
<1>11. /\ old = None <=> Seen(g) = {}
       /\ old # None =>
            /\ old.line \in Seen(g) /\ old.file = g /\ old.score = Boosted(ranked[old.line])
            /\ \A n \in Seen(g) : /\ Boosted(ranked[n]) <= old.score
                                  /\ n < old.line => Boosted(ranked[n]) < old.score
            /\ old.why = UNION {Matched(ranked[n]) : n \in Seen(g)}
  BY <1>4 DEF LocatorInv, CandidateIsBest
<1>12. own \in Candidate
  BY <1>2, <1>4 DEF Candidate
<1>13. /\ new = IF old = None THEN own
                ELSE IF own.score > old.score THEN [own EXCEPT !.why = @ \cup old.why]
                ELSE [old EXCEPT !.why = @ \cup own.why]
       /\ own.file = g /\ own.line = line /\ own.score = Boosted(c) /\ own.why = Matched(c)
  BY <1>0 DEF Merged
<1> HIDE DEF new, own, old
<1>14. new \in Candidate /\ new # None /\ Stands(new, g, Seen(g) \cup {line})
  <2>0. Boosted(ranked[line]) = own.score /\ Matched(ranked[line]) = own.why /\ own.score \in Nat
        /\ own.line = line /\ own.file = g
    BY <1>0, <1>4, <1>13
  <2>4. \A n \in Seen(g) : n \in Nat /\ n < line /\ Boosted(ranked[n]) \in Nat
    BY <1>2, <1>5, <1>8
  <2>1. CASE old = None
    <3>1. new = own /\ Seen(g) = {}
      BY <1>11, <1>13, <2>1
    <3>2. UNION {Matched(ranked[n]) : n \in {line}} = own.why
      BY <2>0
    <3>3. Stands(own, g, {line})
      BY <1>2, <2>0, <3>2 DEF Stands
    <3>4. Seen(g) \cup {line} = {line}
      BY <3>1
    <3> QED
      BY <1>12, <3>1, <3>3, <3>4, LocatorConstants
  <2>2. CASE old # None /\ own.score > old.score
    <3>1. /\ new \in Candidate /\ new.file = g /\ new.line = line /\ new.score = own.score
          /\ new.why = own.why \cup old.why /\ new # None
      BY <1>10, <1>12, <1>13, <2>0, <2>2, LocatorConstants DEF Candidate
    <3>2. new.why = UNION {Matched(ranked[n]) : n \in Seen(g) \cup {line}}
      BY <1>11, <2>0, <2>2, <3>1
    <3>0. old.score \in Nat
      BY <1>10, <2>2 DEF Candidate
    <3>3. \A n \in Seen(g) \cup {line} : /\ Boosted(ranked[n]) <= new.score
                                         /\ n < new.line => Boosted(ranked[n]) < new.score
      BY <1>2, <1>11, <2>0, <2>2, <2>4, <3>0, <3>1
    <3>4. new.score = Boosted(ranked[new.line]) /\ new.line \in Seen(g) \cup {line}
      BY <2>0, <3>1
    <3>5. Stands(new, g, Seen(g) \cup {line})
      BY <3>1, <3>2, <3>3, <3>4 DEF Stands
    <3> QED
      BY <3>1, <3>5
  <2>3. CASE old # None /\ ~(own.score > old.score)
    <3>1. /\ new \in Candidate /\ new.file = g /\ new.line = old.line /\ new.score = old.score
          /\ new.why = old.why \cup own.why /\ new # None
      BY <1>10, <1>11, <1>12, <1>13, <2>3, LocatorConstants DEF Candidate
    <3>2. new.why = UNION {Matched(ranked[n]) : n \in Seen(g) \cup {line}}
      BY <1>11, <2>0, <2>3, <3>1
    <3>0. old.score \in Nat
      BY <1>10, <2>3 DEF Candidate
    <3>3. \A n \in Seen(g) \cup {line} : /\ Boosted(ranked[n]) <= new.score
                                         /\ n < new.line => Boosted(ranked[n]) < new.score
      BY <1>2, <1>11, <2>0, <2>3, <2>4, <3>0, <3>1
    <3>4. new.score = Boosted(ranked[new.line]) /\ new.line \in Seen(g) \cup {line}
      BY <1>11, <2>3, <3>1
    <3>5. Stands(new, g, Seen(g) \cup {line})
      BY <3>1, <3>2, <3>3, <3>4 DEF Stands
    <3> QED
      BY <3>1, <3>5
  <2> QED
    BY <2>1, <2>2, <2>3
<1>15. byFile' = [byFile EXCEPT ![g] = new] /\ byFile'[g] = new
  BY <1>1, <1>4 DEF LocatorInv, LocatorTypeOK
<1>16. LocatorTypeOK'
  <2>1. byFile' \in [Files -> Candidate \cup {None}]
    BY <1>14, <1>15 DEF LocatorInv, LocatorTypeOK
  <2>2. turn' \in Nat
    BY <1>1
  <2> QED
    BY <1>1, <2>1, <2>2 DEF LocatorInv, LocatorTypeOK
<1>17. EachWordOnce'
  <2>1. \A n \in 1 .. turn' : n <= Len(named) => n \in 1 .. turn
    BY <1>1 DEF Named
  <2> QED
    BY <1>1, <2>1 DEF LocatorInv, EachWordOnce, ToSet
<1>18. ASSUME NEW f \in Files
       PROVE  /\ byFile'[f] = None <=> Seen(f)' = {}
              /\ byFile'[f] # None =>
                   LET d == byFile'[f] IN
                   /\ d.line \in Seen(f)' /\ d.file = f /\ d.score = Boosted(ranked[d.line])
                   /\ \A n \in Seen(f)' : /\ Boosted(ranked[n]) <= d.score
                                          /\ n < d.line => Boosted(ranked[n]) < d.score
                   /\ d.why = UNION {Matched(ranked[n]) : n \in Seen(f)'}
  <2>1. CASE f = g
    BY <1>8, <1>14, <1>15, <2>1 DEF Stands
  <2>2. CASE f # g
    <3>1. byFile'[f] = byFile[f] /\ Seen(f)' = Seen(f)
      BY <1>7, <1>15, <2>2 DEF LocatorInv, LocatorTypeOK
    <3> QED
      BY <3>1 DEF LocatorInv, CandidateIsBest
  <2> QED
    BY <2>1, <2>2
<1>19. CandidateIsBest'
  <2>1. \A x : Boosted(ranked[x])' = Boosted(ranked[x]) /\ Matched(ranked[x])' = Matched(ranked[x])
    BY <1>1 DEF Boosted, Matched, ToSet
  <2> QED
    BY <1>1, <1>18, <2>1 DEF CandidateIsBest
<1> QED
  BY <1>0, <1>1, <1>2, <1>6, <1>16, <1>17, <1>19 DEF LocatorInv, Named

\* The candidates, listed: each of them once, the better first.
LEMMA CandidatesListed ==
  ASSUME LocatorInv
  PROVE  LET all == InOrder(Candidates, Better) IN
         /\ all \in Seq(Candidate) /\ Len(all) \in Nat /\ DOMAIN all = 1 .. Len(all)
         /\ \A f \in Files : byFile[f] # None => \E i \in DOMAIN all : all[i] = byFile[f]
         /\ \A i \in DOMAIN all : all[i] \in Candidate /\ all[i] = byFile[all[i].file]
         /\ \A i, j \in DOMAIN all : i < j => all[i].score >= all[j].score /\ all[i] # all[j]
<1> DEFINE all == InOrder(Candidates, Better)
<1>1. /\ \A f \in Files : byFile[f] \in Candidate \cup {None} /\ (byFile[f] # None => byFile[f].file = f)
  BY DEF LocatorInv, LocatorTypeOK, CandidateIsBest
<1>2. \A c \in Candidates : c \in Candidate /\ c = byFile[c.file] /\ c.file \in Files /\ c.score \in Nat
  BY <1>1 DEF Candidates, Candidate
<1>3. \A f \in Files : PlaceOf(f) \in DOMAIN FileOrder /\ FileOrder[PlaceOf(f)] = f /\ PlaceOf(f) \in Nat
  <2>1. DOMAIN FileOrder = 1 .. Len(FileOrder) /\ Len(FileOrder) \in Nat
    BY LocatorConstants
  <2> QED
    BY <2>1 DEF PlaceOf, Files
<1>4. IsFiniteSet(Candidates)
  <2> DEFINE G == {g \in Files : byFile[g] # None}
             r == [f \in G |-> byFile[f]]
  <2>1. IsFiniteSet(G)
    BY FilesAreFinite, FS_Subset
  <2>2. r \in Surjection(G, Candidates)
    BY DEF Surjection, Candidates
  <2> QED
    BY <2>1, <2>2, FS_Surjection
<1>5. \A c, d \in Candidates : <<c, d>> \in Better <=>
        c.score > d.score \/ (c.score = d.score /\ PlaceOf(c.file) < PlaceOf(d.file))
  BY DEF Better
<1>6. Orders(Better, Candidates)
  <2>1. \A c, d \in Candidates : <<c, d>> \in Better => <<d, c>> \notin Better
    BY <1>2, <1>3, <1>5
  <2>2. \A c, d, e \in Candidates : <<c, d>> \in Better /\ <<d, e>> \in Better => <<c, e>> \in Better
    BY <1>2, <1>3, <1>5
  <2>3. ASSUME NEW c \in Candidates, NEW d \in Candidates, c # d
        PROVE  <<c, d>> \in Better \/ <<d, c>> \in Better
    <3>1. PlaceOf(c.file) # PlaceOf(d.file)
      BY <1>2, <1>3, <2>3
    <3> QED
      BY <1>2, <1>3, <1>5, <3>1
  <2> QED
    BY <2>1, <2>2, <2>3 DEF Orders
<1>7. /\ all \in Seq(Candidates) /\ Len(all) \in Nat /\ DOMAIN all = 1 .. Len(all)
      /\ \A i \in DOMAIN all : all[i] \in Candidates
      /\ \A c \in Candidates : \E i \in DOMAIN all : all[i] = c
      /\ \A i, j \in DOMAIN all : i < j => <<all[i], all[j]>> \in Better
  BY <1>4, <1>6, ListInOrder
<1> HIDE DEF all
<1>8. \A f \in Files : byFile[f] # None => byFile[f] \in Candidates
  BY DEF Candidates
<1>9. all \in Seq(Candidate)
  <2>1. Candidates \subseteq Candidate
    BY <1>2
  <2>2. \A S, T : S \subseteq T => Seq(S) \subseteq Seq(T)
    OBVIOUS
  <2> QED
    BY <1>7, <2>1, <2>2
<1>10. ASSUME NEW i \in DOMAIN all, NEW j \in DOMAIN all, i < j
       PROVE  all[i].score >= all[j].score /\ all[i] # all[j]
  <2>1. <<all[i], all[j]>> \in Better /\ all[i] \in Candidates /\ all[j] \in Candidates
    BY <1>7, <1>10
  <2>2. <<all[j], all[i]>> \notin Better
    BY <1>6, <2>1 DEF Orders
  <2> QED
    BY <1>2, <1>5, <2>1, <2>2
<1> QED
  BY <1>2, <1>7, <1>8, <1>9, <1>10 DEF all

\* A report is the best of the candidates.
LEMMA BestOfCandidates ==
  ASSUME LocatorInv, Ranking
  PROVE  /\ Best \in Seq(Candidate)
         /\ report = Best => ReportIsTop
<1> DEFINE all == InOrder(Candidates, Better)
<1>1. /\ all \in Seq(Candidate) /\ Len(all) \in Nat /\ DOMAIN all = 1 .. Len(all)
      /\ \A f \in Files : byFile[f] # None => \E i \in DOMAIN all : all[i] = byFile[f]
      /\ \A i \in DOMAIN all : all[i] \in Candidate /\ all[i] = byFile[all[i].file]
      /\ \A i, j \in DOMAIN all : i < j => all[i].score >= all[j].score /\ all[i] # all[j]
  BY CandidatesListed
<1>2. max \in Nat
  BY LocatorConstants DEF LocatorInv, LocatorTypeOK
<1>3. Best = SubSeq(all, 1, IF Len(all) < max THEN Len(all) ELSE max)
  BY DEF Best
<1> HIDE DEF all
<1>0. PICK n \in Nat : n = Len(all) /\ DOMAIN all = 1 .. n /\ all \in Seq(Candidate)
  BY <1>1
<1>4. PICK k \in Nat : Best = SubSeq(all, 1, k) /\ k <= n /\ k <= max /\ (k = n \/ k = max)
  <2>1. CASE n < max
    BY <1>0, <1>2, <1>3, <2>1
  <2>2. CASE ~(n < max)
    BY <1>0, <1>2, <1>3, <2>2
  <2> QED
    BY <2>1, <2>2
<1>5. /\ Best \in Seq(Candidate) /\ Len(Best) = k /\ DOMAIN Best = 1 .. k
      /\ \A i \in 1 .. k : Best[i] = all[i] /\ i \in DOMAIN all
  BY <1>0, <1>4
<1>6. ASSUME report = Best PROVE ReportIsTop
  <2>1. ASSUME NEW f \in Files, byFile[f] # None
        PROVE  \/ \E i \in DOMAIN Best : Best[i].file = f
               \/ Len(Best) = max /\ \A i \in DOMAIN Best : Best[i].score >= byFile[f].score
    <3>1. PICK i \in DOMAIN all : all[i] = byFile[f]
      BY <1>1, <2>1
    <3>2. byFile[f].file = f
      BY <2>1 DEF LocatorInv, CandidateIsBest
    <3>3. CASE i <= k
      <4>1. i \in 1 .. k
        BY <1>0, <1>4, <3>1, <3>3
      <4> QED
        BY <1>5, <3>1, <3>2, <4>1
    <3>4. CASE ~(i <= k)
      <4>1. \A j \in 1 .. k : j \in DOMAIN all /\ j < i
        BY <1>0, <1>4, <1>5, <3>1, <3>4
      <4>2. \A j \in 1 .. k : all[j].score >= all[i].score
        BY <1>1, <4>1
      <4>3. k = max
        BY <1>0, <1>2, <1>4, <3>1, <3>4
      <4> QED
        BY <1>5, <3>1, <4>2, <4>3
    <3> QED
      BY <3>3, <3>4
  <2>2. ASSUME NEW i \in DOMAIN Best, NEW j \in DOMAIN Best
        PROVE  /\ i < j => Best[i].score >= Best[j].score
               /\ Best[i].file = Best[j].file => i = j
    <3>1. /\ i \in DOMAIN all /\ j \in DOMAIN all /\ Best[i] = all[i] /\ Best[j] = all[j]
          /\ i \in Nat /\ j \in Nat
      BY <1>4, <1>5
    <3>2. Best[i].file = Best[j].file => all[i] = all[j]
      BY <1>1, <3>1
    <3> QED
      BY <1>1, <3>1, <3>2
  <2>3. \A f \in Files : Seen(f) # {} => byFile[f] # None
    BY DEF LocatorInv, CandidateIsBest
  <2>4. Len(Best) <= max /\ Len(Best) \in Nat
    BY <1>4, <1>5
  <2>5. \A f \in Files : Seen(f) # {} /\ Len(Best) < max => \E i \in DOMAIN Best : Best[i].file = f
    BY <1>2, <2>1, <2>3, <2>4
  <2> QED
    BY <1>6, <2>1, <2>2, <2>4, <2>5 DEF ReportIsTop, Ranking
<1> QED
  BY <1>5, <1>6

LEMMA ReportStep ==
  ASSUME LocatorInv, Report
  PROVE  LocatorInv'
<1>1. /\ turn = Named + (IF Ranking THEN Len(ranked) ELSE 0)
      /\ report' = IF Ranking THEN Best ELSE <<>>
      /\ UNCHANGED <<named, action, ranked, max, words, byFile, turn>>
  BY DEF Report, Named
<1>2. report' \in Seq(Candidate)
  <2>1. <<>> \in Seq(Candidate)
    OBVIOUS
  <2> QED
    BY <1>1, <2>1, BestOfCandidates
<1>3. LocatorTypeOK'
  BY <1>1, <1>2 DEF LocatorInv, LocatorTypeOK
<1>4. EachWordOnce' /\ Ranking' = Ranking
  BY <1>1 DEF LocatorInv, EachWordOnce, ToSet, Ranking
<1>5. \A f : Seen(f)' = Seen(f)
  BY <1>1 DEF Seen
<1>6. \A n : Boosted(ranked[n])' = Boosted(ranked[n]) /\ Matched(ranked[n])' = Matched(ranked[n])
  BY <1>1 DEF Boosted, Matched, ToSet
<1>7. CandidateIsBest'
  BY <1>1, <1>5, <1>6 DEF LocatorInv, CandidateIsBest
<1>8. Best' = Best
  BY <1>1 DEF Best, Candidates, Better, PlaceOf
<1> QED
  BY <1>1, <1>3, <1>4, <1>7, <1>8 DEF LocatorInv, Named

LEMMA LocatorStays ==
  ASSUME LocatorInv, UNCHANGED locatorVars
  PROVE  LocatorInv'
<1>1. UNCHANGED <<named, action, ranked, max, words, byFile, report, turn>>
  BY DEF locatorVars
<1>4. EachWordOnce' /\ Ranking' = Ranking /\ LocatorTypeOK'
  BY <1>1 DEF LocatorInv, EachWordOnce, ToSet, Ranking, LocatorTypeOK
<1>5. \A f : Seen(f)' = Seen(f)
  BY <1>1 DEF Seen
<1>6. \A n : Boosted(ranked[n])' = Boosted(ranked[n]) /\ Matched(ranked[n])' = Matched(ranked[n])
  BY <1>1 DEF Boosted, Matched, ToSet
<1>7. CandidateIsBest'
  BY <1>1, <1>5, <1>6 DEF LocatorInv, CandidateIsBest
<1>8. Best' = Best
  BY <1>1 DEF Best, Candidates, Better, PlaceOf
<1> QED
  BY <1>1, <1>4, <1>7, <1>8 DEF LocatorInv, Named

LEMMA LocateStep == LocatorInv /\ [LocatorNext]_locatorVars => LocatorInv'
  BY ExtractStep, RankStep, ReportStep, LocatorStays DEF LocatorNext

\* The locator keeps its types.
THEOREM LocatorTypeCorrect == LocatorSpec => []LocatorTypeOK
<1>1. LocatorInv => LocatorTypeOK
  BY DEF LocatorInv
<1> QED
  BY <1>1, LocatorStarts, LocateStep, PTL DEF LocatorSpec

\* For any prompt and any chunks: a word counts once in any letter case, a file
\* has the candidate of its best chunk, and the report is of the best files.
THEOREM TargetsAreBestCorrect == LocatorSpec => []TargetsAreBest
<1>1. ASSUME LocatorInv PROVE TargetsAreBest
  <2>1. CASE Ranking
    BY <1>1, <2>1, BestOfCandidates DEF LocatorInv, TargetsAreBest, ReportIsTop
  <2>2. CASE ~Ranking
    <3>1. report # None => report = <<>>
      BY <1>1, <2>2 DEF LocatorInv
    <3>2. max \in Nat /\ Len(<<>>) = 0 /\ DOMAIN <<>> = {}
      BY <1>1, LocatorConstants DEF LocatorInv, LocatorTypeOK
    <3>3. ReportIsTop
      BY <2>2, <3>1, <3>2 DEF ReportIsTop
    <3> QED
      BY <1>1, <3>3 DEF LocatorInv, TargetsAreBest
  <2> QED
    BY <2>1, <2>2
<1> QED
  BY <1>1, LocatorStarts, LocateStep, PTL DEF LocatorSpec

-----------------------------------------------------------------------------
(* The small parts, each on its own in what one run checks of them all.     *)

SmallPartsInv ==
  /\ ChunkInv /\ LocatorInv /\ RouterInv /\ BlockInv
  /\ SchemaInv /\ MetricsInv /\ EmbedderInv

LEMMA RestsHold ==
  /\ ChunkingRests => ChunkInv
  /\ LocatorRests => LocatorInv
  /\ RouterRests => RouterInv
  /\ MigrationsRest => SchemaInv
  /\ EmbeddersRest => EmbedderInv
<1>1. ChunkingRests => ChunkInv
  <2>1. \E n \in Lengths : TRUE
    BY SmallPartsConstants
  <2>2. \E c \in [max : MaxLines, overlap : Overlaps] : TRUE
    <3>1. PICK m \in MaxLines, o \in Overlaps : TRUE
      BY SmallPartsConstants
    <3>2. [max |-> m, overlap |-> o] \in [max : MaxLines, overlap : Overlaps]
      BY <3>1
    <3> QED
      BY <3>2
  <2>3. ChunkingRests => ChunkInit
    BY <2>1, <2>2 DEF ChunkingRests, ChunkInit
  <2> QED
    BY <2>3, ChunkInvInit
<1>2. LocatorRests => LocatorInv
  <2> SUFFICES ASSUME LocatorRests PROVE LocatorInv
    OBVIOUS
  <2>1. \E m \in MaxTargets : TRUE
    BY SmallPartsConstants
  <2>2. /\ named = <<>> /\ action = FALSE /\ ranked = <<>> /\ max \in MaxTargets /\ words = <<>>
        /\ byFile = [f \in Files |-> None] /\ report = <<>> /\ turn = 0
    BY <2>1 DEF LocatorRests
  <2>3. Len(<<>>) = 0 /\ DOMAIN <<>> = {}
    OBVIOUS
  <2>4. LocatorTypeOK
    <3>1. <<>> \in Seq(Words) /\ <<>> \in Seq(Chunk) /\ <<>> \in Seq(Candidate)
      OBVIOUS
    <3>2. byFile \in [Files -> Candidate \cup {None}] /\ turn \in Nat /\ action \in BOOLEAN
      BY <2>2
    <3> QED
      BY <2>2, <3>1, <3>2 DEF LocatorTypeOK
  <2>5. EachWordOnce
    BY <2>2, <2>3, LocatorConstants DEF EachWordOnce
  <2>6. \A f \in Files : Seen(f) = {}
    BY <2>2, <2>3 DEF Seen
  <2> QED
    BY <2>2, <2>3, <2>4, <2>5, <2>6 DEF LocatorInv, CandidateIsBest, Named, Ranking
<1>3. RouterRests => RouterInv
  <2>1. \E p \in Prompt : TRUE
    <3>1. PICK w \in WordCounts : TRUE
      BY SmallPartsConstants
    <3>2. [critical |-> FALSE, marks |-> FALSE, arch |-> FALSE, code |-> FALSE, text |-> FALSE,
           faq |-> FALSE, multistep |-> FALSE, words |-> w] \in Prompt
      BY <3>1 DEF Prompt
    <3> QED
      BY <3>2
  <2>2. RouterRests => RouterInit
    BY <2>1 DEF RouterRests, RouterInit
  <2> QED
    BY <2>2, RouterStarts
<1>4. MigrationsRest => SchemaInv
  <2>1. MigrationsRest => MigrationsInit
    BY DEF MigrationsRest, MigrationsInit, SCHEMA_VERSION
  <2> QED
    BY <2>1, MigrationsInvInit
<1>5. EmbeddersRest => EmbedderInv
  <2>1. EmbeddersRest => EmbeddersInit
    BY DEF EmbeddersRest, EmbeddersInit, Registries
  <2> QED
    BY <2>1, EmbedderStarts
<1> QED
  BY <1>1, <1>2, <1>3, <1>4, <1>5

LEMMA SmallPartsStart == Init => SmallPartsInv
BY RestsHold, ChunkInvInit, LocatorStarts, RouterStarts, InvInit, MigrationsInvInit, MetricsInvInit,
   EmbedderStarts DEF Init, SmallPartsInv

\* A step of the whole is a step of one part; the others rest.
LEMMA OnePartSteps ==
  [Next]_<<part, allVars>> =>
    /\ [NextWindow]_chunkVars /\ [LocatorNext]_locatorVars /\ [Pick]_routerVars
    /\ [BlocksNext]_blockVars /\ [MigrationsNext]_migrationVars /\ [MetricsNext]_metricVars
    /\ [EmbeddersNext]_embedderVars
BY DEF Next, allVars, ChunkStep, LocatorStep, RouterStep, BlocksStep, MigrationsStep, MetricsStep,
       EmbeddersStep, QueriesStep

LEMMA SmallPartsStay == SmallPartsInv /\ [Next]_<<part, allVars>> => SmallPartsInv'
<1> SUFFICES ASSUME SmallPartsInv, [Next]_<<part, allVars>> PROVE SmallPartsInv'
  OBVIOUS
<1>1. ChunkInv' /\ LocatorInv' /\ RouterInv' /\ EmbedderInv'
  BY OnePartSteps, ChunkInvNext, LocateStep, PickStep, EmbedderStep DEF SmallPartsInv
<1>2. BlockInv' /\ SchemaInv' /\ MetricsInv'
  BY OnePartSteps, StepKeepsInv, InvStep, MetricsInvStep DEF SmallPartsInv
<1> QED
  BY <1>1, <1>2 DEF SmallPartsInv

\* Each part's variables keep their types, for all inputs and configurations.
THEOREM SmallPartsTypeCorrect == Spec => []TypeOK
<1>1. SmallPartsInv => TypeOK
  BY DEF SmallPartsInv, TypeOK, ChunkInv, LocatorInv, RouterInv, BlockInv, SchemaInv, MetricsInv,
         MetricsTyped, EmbedderInv
<1> QED
  BY <1>1, SmallPartsStart, SmallPartsStay, PTL DEF Spec
=============================================================================
