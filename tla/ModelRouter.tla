----------------------------- MODULE ModelRouter ------------------------------
(***************************************************************************)
(* The model router: a prompt is classified by what it contains, each      *)
(* model scores by the class, and a loop over the models keeps the best.   *)
(***************************************************************************)
EXTENDS Integers, Sequences

CONSTANTS WordCounts  \* numbers of words of a prompt

ASSUME RouterConstants == WordCounts \subseteq Nat

\* What the classifier looks for in a prompt: a word of each of its lists (the
\* configured critical words are of the list of critical ones), the marks of
\* code, a question.
Prompt == [critical : BOOLEAN, marks : BOOLEAN, arch : BOOLEAN, code : BOOLEAN, text : BOOLEAN,
           faq : BOOLEAN, multistep : BOOLEAN, words : WordCounts]

\* Model::ALL, in the order of tie_break_rank.
All == <<"sonnet", "opus", "deepseek", "haiku", "local">>

Models == {All[i] : i \in DOMAIN All}

LongPrompt  == 60
ShortPrompt == 12

detect_type(p) ==
  IF p.arch THEN "architecture"
  ELSE IF p.marks \/ p.code THEN "code"
  ELSE IF p.text THEN "text"
  ELSE IF p.faq THEN "faq"
  ELSE "unknown"

detect_complexity(p) ==
  IF \/ detect_type(p) = "architecture" \/ p.critical
     \/ p.words >= LongPrompt \/ p.multistep
  THEN "high"
  ELSE IF detect_type(p) = "faq" \/ p.words <= ShortPrompt THEN "low" ELSE "medium"

classify(p) ==
  [type |-> detect_type(p), complexity |-> detect_complexity(p),
   has_code |-> p.marks, is_critical |-> p.critical]

\* A signal of weight n.
Signal(there, n) == IF there THEN n ELSE 0

Scores(c) ==
  LET high == c.complexity = "high"
      low  == c.complexity = "low"
      of(t) == c.type = t
  IN  [opus     |-> Signal(c.is_critical, 100) + Signal(high, 2) + Signal(of("architecture"), 3),
       sonnet   |-> Signal(high, 1) + Signal(c.complexity = "medium", 2)
                      + Signal(of("architecture"), 1) + Signal(of("code") /\ ~low, 3)
                      + Signal(of("text") /\ ~low, 2) + Signal(of("unknown"), 1)
                      + Signal(c.has_code, 1),
       deepseek |-> Signal(low, 1) + Signal(of("code"), IF low THEN 2 ELSE 1)
                      + Signal(c.has_code, 1),
       haiku    |-> Signal(low, 1) + Signal(of("faq"), 1) + Signal(of("text") /\ low, 3),
       local    |-> Signal(low, 1) + Signal(of("faq"), 3)]

VARIABLES
  prompt,  \* what is routed
  tried,   \* how many models the loop has looked at
  best     \* the best so far: model and score

routerVars == <<prompt, tried, best>>

RouterInit ==
  /\ prompt \in Prompt
  /\ tried = 0
  /\ best = [model |-> "sonnet", score |-> -1]   \* i32::MIN: below every score

\* Mutant: a later model of the same score wins.
PickLate ==
  LET m == All[tried + 1]
      sc == Scores(classify(prompt))[m]
  IN  /\ tried < Len(All)
      /\ tried' = tried + 1
      /\ best' = IF sc >= best.score THEN [model |-> m, score |-> sc] ELSE best
      /\ UNCHANGED prompt

\* One turn of pick_winner.  Ranks grow along All, so a later model needs more.
Pick ==
  LET m == All[tried + 1]
      sc == Scores(classify(prompt))[m]
  IN  /\ tried < Len(All)
      /\ tried' = tried + 1
      /\ best' = IF sc > best.score THEN [model |-> m, score |-> sc] ELSE best
      /\ UNCHANGED prompt

RouterSpec == RouterInit /\ [][Pick]_routerVars

-----------------------------------------------------------------------------
RouterTypeOK ==
  /\ prompt \in Prompt /\ tried \in 0 .. Len(All)
  /\ best \in [model : Models, score : Int]

Beats(s, m, n) ==
  \/ s[m] > s[n]
  \/ s[m] = s[n] /\ \E i, j \in DOMAIN All : All[i] = m /\ All[j] = n /\ i <= j

\* What the documentation says of the choice: highest score, ties toward Sonnet.
Winner(p) == CHOOSE m \in Models : \A n \in Models : Beats(Scores(classify(p)), m, n)

\* Models from the lightest to the strongest.
Tier == [local |-> 1, haiku |-> 2, deepseek |-> 3, sonnet |-> 4, opus |-> 5]

\* The loop picks the winner; a critical prompt gets Opus whatever else it
\* contains, an architectural one too, a plain question never does; and with more
\* words a prompt never gets a weaker model.
ModelChoice ==
  tried = Len(All) =>
    /\ best.model = Winner(prompt)
    /\ prompt.critical \/ prompt.arch => best.model = "opus"
    /\ detect_type(prompt) = "faq" /\ ~prompt.critical => best.model = "local"
    /\ \A n \in WordCounts : n >= prompt.words =>
         Tier[Winner([prompt EXCEPT !.words = n])] >= Tier[best.model]
=============================================================================
