-------------------------- MODULE PersistenceProofs --------------------------
(* What processes leave of the state they share: the rate-limit state, the *)
(* files that setting up shares with the user, the schema of brain.db and  *)
(* the metrics in it.                                                      *)
EXTENDS LlmBlocks, Setup, Migrations, Metrics, FiniteSetTheorems, TLAPS

-----------------------------------------------------------------------------
(* LlmBlocks: blocks are honoured and expire, for any number of processes, *)
(* providers and windows, however long the clock runs.                     *)

EntryOf(s, p) == IF s[p] = Absent THEN 0 ELSE s[p]

Agrees(s) == \A p \in Providers : EntryOf(s, p) = due[p]

Active(c) == command[c].pc # "idle"

\* What a command is about to write: the entries of the others are as they
\* should be, its own is there or is not.
Intended(c) ==
  LET me == command[c] IN
  /\ \A p \in Providers \ {me.provider} : EntryOf(me.state, p) = due[p]
  /\ me.op = "block" <=> me.state[me.provider] # Absent

\* No text anywhere blocks Claude for longer than has been asked.
Bounded ==
  /\ file.state # Malformed => EntryOf(file.state, Claude) <= last
  /\ \A c \in Commands : EntryOf(command[c].state, Claude) <= last
  /\ EntryOf(query.state, Claude) <= last

\* A block is about to write its entry.
Inserted ==
  \A c \in Commands : command[c].pc \in {"open", "fill"} /\ command[c].op = "block"
    => command[c].state[command[c].provider] # Absent

\* While commands come one after the other, the file is what they have made of
\* it, except while one of them rewrites it.
Serialised ==
  orderly =>
    /\ \A c, d \in Commands : Active(c) /\ Active(d) => c = d
    /\ (\A c \in Commands : command[c].pc # "fill") =>
         file.state # Malformed /\ Agrees(file.state)
    /\ \A c \in Commands :
         /\ command[c].pc = "change" => Agrees(command[c].state)
         /\ command[c].pc \in {"open", "fill"} => Intended(c)
         /\ command[c].pc = "fill" => file.size = 0

Remembered == query.pc = "read" /\ query.calm => EntryOf(query.state, Claude) = query.due

BlockInv == BlocksTypeOK /\ Bounded /\ Inserted /\ Serialised /\ Remembered /\ BlockHonoured

\* Sizes are numbers, and one that writes into an emptied file writes it all.
LEMMA SizeIsNat ==
  ASSUME NEW s \in LlmState PROVE Size(s) \in Nat
<1>1. IsFiniteSet({p \in Providers : s[p] # Absent})
  BY BlockConstants, FS_Subset
<1> QED  BY <1>1, FS_CardinalityType DEF Size

\* An entry is a number, zero for a provider without one.
LEMMA EntryIsNat ==
  ASSUME NEW s \in LlmState, NEW p \in Providers
  PROVE  /\ EntryOf(s, p) \in Nat
         /\ s[p] # Absent => EntryOf(s, p) = s[p]
         /\ s[p] = Absent => EntryOf(s, p) = 0
BY BlockConstants DEF EntryOf, LlmState

\* Nobody blocks nobody.
LEMMA NobodyBlocks ==
  Nobody \in LlmState /\ Nobody # Malformed /\ \A p \in Providers : EntryOf(Nobody, p) = 0
BY BlockConstants DEF Nobody, LlmState, EntryOf

LEMMA InvInit == BlocksInit => BlockInv
<1> SUFFICES ASSUME BlocksInit PROVE BlockInv
  OBVIOUS
<1> USE DEF BlocksInit
<1>1. \A c \in Commands : command[c] = Idle
  OBVIOUS
<1>2. BlocksTypeOK
  BY NobodyBlocks, BlockConstants DEF BlocksTypeOK, Idle
<1>3. Bounded
  BY <1>1, NobodyBlocks, BlockConstants DEF Bounded, Idle
<1>4. Serialised
  BY <1>1, NobodyBlocks DEF Serialised, Active, Agrees, Idle
<1>5. Remembered /\ BlockHonoured /\ Inserted
  BY <1>1 DEF Remembered, BlockHonoured, Inserted, Idle
<1> QED  BY <1>2, <1>3, <1>4, <1>5 DEF BlockInv

\* What a step that leaves the query alone keeps of it: the bound only grows.
LEMMA QueryKept ==
  ASSUME BlockInv, UNCHANGED query, last' \in Nat, last' >= last
  PROVE  EntryOf(query'.state, Claude) <= last' /\ Remembered' /\ BlockHonoured'
<1>1. /\ query.state \in LlmState /\ query.at \in Nat /\ last \in Nat
      /\ EntryOf(query.state, Claude) <= last
  BY DEF BlockInv, BlocksTypeOK, Bounded
<1>2. EntryOf(query.state, Claude) \in Nat
  BY <1>1, EntryIsNat, BlockConstants
<1>3. EntryOf(query'.state, Claude) <= last'
  BY <1>1, <1>2
<1>4. Remembered'
  BY DEF BlockInv, Remembered
<1>5. BlockHonoured'
  BY <1>1 DEF BlockInv, BlockHonoured
<1> QED  BY <1>3, <1>4, <1>5

LEMMA ReadStateKeepsInv ==
  ASSUME BlockInv, NEW c \in Commands, NEW op \in {"block", "unblock"}, NEW p \in Providers,
         ReadState(c, op, p)
  PROVE  BlockInv'
<1> USE DEF ReadState
<1>0. BlocksTypeOK /\ Bounded /\ Serialised
  BY DEF BlockInv
<1>1. file.state \in LlmState
  BY <1>0 DEF BlocksTypeOK
<1>2. /\ command'[c] = [pc |-> "change", op |-> op, provider |-> p, state |-> file.state]
      /\ \A d \in Commands \ {c} : command'[d] = command[d]
  BY <1>0 DEF BlocksTypeOK
<1>3. BlocksTypeOK'
  BY <1>0, <1>1, <1>2 DEF BlocksTypeOK
<1>4. Remembered' /\ BlockHonoured' /\ EntryOf(query'.state, Claude) <= last'
  BY <1>0, QueryKept DEF BlocksTypeOK
<1>5. Bounded'
  BY <1>0, <1>2, <1>4 DEF Bounded
<1>6. Serialised'
  <2> SUFFICES ASSUME orderly' PROVE Serialised'
    BY DEF Serialised
  <2>1. orderly /\ \A d \in Commands : command[d].pc = "idle"
    BY DEF Quiet
  <2>2. Agrees(file.state)
    BY <2>1, <1>0 DEF Serialised
  <2>3. \A d \in Commands \ {c} : command'[d].pc = "idle"
    BY <1>2, <2>1
  <2> QED  BY <1>2, <2>2, <2>3 DEF Serialised, Active, Agrees
<1>7. Inserted'
  BY <1>2 DEF BlockInv, Inserted
<1> QED  BY <1>3, <1>4, <1>5, <1>6, <1>7 DEF BlockInv

LEMMA ChangeKeepsInv ==
  ASSUME BlockInv, NEW c \in Commands, NEW hours \in Hours, Change(c, hours)
  PROVE  BlockInv'
<1> DEFINE me == command[c]
           new == IF me.op = "block" THEN now + hours ELSE Absent
<1>0. BlocksTypeOK /\ Bounded /\ Serialised /\ me.pc = "change"
  BY DEF BlockInv, Change
<1>1. /\ me.state \in LlmState /\ me.provider \in Providers /\ me.op \in {"block", "unblock"}
      /\ now + hours \in Nat /\ last \in Nat
  BY <1>0, BlockConstants DEF BlocksTypeOK
<1>2. /\ command'[c] = [pc |-> "open", op |-> me.op, provider |-> me.provider,
                        state |-> [me.state EXCEPT ![me.provider] = new]]
      /\ \A d \in Commands \ {c} : command'[d] = command[d]
      /\ DOMAIN command' = Commands /\ command' = [d \in Commands |-> command'[d]]
  BY <1>0 DEF BlocksTypeOK, Change
<1>3. /\ command'[c].state \in LlmState /\ command'[c].state[me.provider] = new
      /\ \A q \in Providers \ {me.provider} : command'[c].state[q] = me.state[q]
  BY <1>1, <1>2 DEF LlmState
<1>4. /\ last' \in Nat /\ last' >= last
      /\ me.op = "block" /\ me.provider = Claude => last' >= now + hours
  BY <1>0, <1>1 DEF Change
<1>5. BlocksTypeOK'
  <2>1. command'[c] \in [pc : {"idle", "change", "open", "fill"}, op : {"block", "unblock"},
                         provider : Providers, state : LlmState]
    BY <1>1, <1>2, <1>3
  <2>2. command' \in [Commands -> [pc : {"idle", "change", "open", "fill"},
                         op : {"block", "unblock"}, provider : Providers, state : LlmState]]
    BY <1>0, <1>2, <2>1 DEF BlocksTypeOK
  <2> QED  BY <1>0, <1>4, <2>2 DEF BlocksTypeOK, Change
<1>6. Remembered' /\ BlockHonoured' /\ EntryOf(query'.state, Claude) <= last'
  BY <1>4, QueryKept DEF Change
<1>7. Bounded'
  <2>1. file.state # Malformed => EntryOf(file.state, Claude) <= last'
    <3> SUFFICES ASSUME file.state # Malformed PROVE EntryOf(file.state, Claude) <= last'
      OBVIOUS
    <3>1. file.state \in LlmState
      BY <1>0 DEF BlocksTypeOK
    <3>2. EntryOf(file.state, Claude) \in Nat /\ EntryOf(file.state, Claude) <= last
      BY <3>1, <1>0, EntryIsNat, BlockConstants DEF Bounded
    <3> QED  BY <3>2, <1>1, <1>4
  <2>2. \A d \in Commands : EntryOf(command[d].state, Claude) \in Nat
    BY <1>0, EntryIsNat, BlockConstants DEF BlocksTypeOK
  <2>3. \A d \in Commands : EntryOf(command[d].state, Claude) <= last'
    BY <1>0, <1>1, <1>4, <2>2 DEF Bounded
  <2>4. EntryOf(command'[c].state, Claude) <= last'
    <3>1. CASE me.provider = Claude
      <4>1. EntryOf(command'[c].state, Claude) = IF new = Absent THEN 0 ELSE new
        BY <3>1, <1>3 DEF EntryOf
      <4> QED  BY <4>1, <3>1, <1>1, <1>4
    <3>2. CASE me.provider # Claude
      <4>1. command'[c].state[Claude] = me.state[Claude]
        BY <3>2, <1>3, BlockConstants
      <4> QED  BY <4>1, <2>3 DEF EntryOf
    <3> QED  BY <3>1, <3>2
  <2>5. \A d \in Commands \ {c} : EntryOf(command'[d].state, Claude) <= last'
    BY <2>3, <1>2
  <2>6. \A d \in Commands : EntryOf(command'[d].state, Claude) <= last'
    BY <2>4, <2>5
  <2> QED  BY <2>1, <2>6, <1>6 DEF Bounded, Change
<1>8. Serialised'
  <2> SUFFICES ASSUME orderly' PROVE Serialised'
    BY DEF Serialised
  <2>1. orderly /\ due' = due /\ file' = file
    BY DEF Change
  <2>2. /\ \A d \in Commands \ {c} : ~Active(d)
        /\ Agrees(me.state)
    BY <2>1, <1>0 DEF Serialised, Active
  <2>3. /\ \A d \in Commands : command[d].pc # "fill"
        /\ file.state # Malformed /\ Agrees(file.state)
    BY <2>1, <2>2, <1>0 DEF Serialised, Active
  <2>4. Intended(c)'
    BY <2>1, <2>2, <1>1, <1>2, <1>3, BlockConstants DEF Intended, Agrees, EntryOf
  <2>5. \A d \in Commands \ {c} : command'[d].pc = "idle"
    BY <2>2, <1>2 DEF Active
  <2> QED  BY <2>1, <2>3, <2>4, <2>5, <1>2 DEF Serialised, Active, Agrees
<1>9. Inserted'
  <2>1. me.op = "block" => command'[c].state[me.provider] # Absent
    BY <1>1, <1>3, BlockConstants
  <2>2. command'[c].op = me.op /\ command'[c].provider = me.provider
    BY <1>2
  <2>3. \A d \in Commands \ {c} : command'[d] = command[d]
    BY <1>2
  <2>4. Inserted
    BY DEF BlockInv
  <2> HIDE DEF me, new
  <2> QED  BY <2>1, <2>2, <2>3, <2>4 DEF Inserted
<1> QED  BY <1>5, <1>6, <1>7, <1>8, <1>9 DEF BlockInv

LEMMA OpenKeepsInv ==
  ASSUME BlockInv, NEW c \in Commands, Open(c)
  PROVE  BlockInv'
<1> USE DEF Open
<1>0. BlocksTypeOK /\ Bounded /\ Serialised
  BY DEF BlockInv
<1>1. /\ command'[c] = [command[c] EXCEPT !.pc = "fill"]
      /\ \A d \in Commands \ {c} : command'[d] = command[d]
      /\ \A d \in Commands : /\ command'[d].state = command[d].state
                             /\ command'[d].op = command[d].op
                             /\ command'[d].provider = command[d].provider
      /\ command'[c].pc = "fill"
  BY <1>0 DEF BlocksTypeOK
<1>2. BlocksTypeOK'
  BY <1>0 DEF BlocksTypeOK
<1>3. Remembered' /\ BlockHonoured' /\ EntryOf(query'.state, Claude) <= last'
  BY <1>0, QueryKept DEF BlocksTypeOK
<1>4. Bounded'
  BY <1>0, <1>1, <1>3 DEF Bounded
<1>5. Serialised'
  <2> SUFFICES ASSUME orderly' PROVE Serialised'
    BY DEF Serialised
  <2>1. orderly /\ due' = due /\ file'.size = 0
    OBVIOUS
  <2>2. (\A d \in Commands \ {c} : ~Active(d)) /\ Intended(c)
    BY <2>1, <1>0 DEF Serialised, Active
  <2>3. Intended(c)'
    BY <2>1, <2>2, <1>1 DEF Intended
  <2>4. \A d \in Commands \ {c} : command'[d].pc = "idle"
    BY <2>2, <1>1 DEF Active
  <2> QED  BY <2>1, <2>3, <2>4, <1>1 DEF Serialised, Active
<1>6. Inserted'
  <2>1. Inserted /\ command[c].pc = "open"
    BY DEF BlockInv
  <2> QED  BY <2>1, <1>1 DEF Inserted
<1> QED  BY <1>2, <1>3, <1>4, <1>5, <1>6 DEF BlockInv

LEMMA FillKeepsInv ==
  ASSUME BlockInv, NEW c \in Commands, Fill(c)
  PROVE  BlockInv'
<1> DEFINE me == command[c]
<1>0. BlocksTypeOK /\ Bounded /\ Serialised /\ me.pc = "fill"
  BY DEF BlockInv, Fill
<1>1. /\ me.state \in LlmState /\ me.provider \in Providers /\ me.op \in {"block", "unblock"}
      /\ Size(me.state) \in Nat /\ file.size \in Nat
  BY <1>0, SizeIsNat DEF BlocksTypeOK
<1>2. command'[c] = Idle /\ \A d \in Commands \ {c} : command'[d] = command[d]
  BY <1>0 DEF BlocksTypeOK, Fill
<1>3. me.op = "block" => me.state[me.provider] \in Nat
  BY <1>0, <1>1 DEF BlockInv, Inserted, LlmState
<1>4. /\ due' \in [Providers -> Nat]
      /\ due'[me.provider] = IF me.op = "block" THEN me.state[me.provider] ELSE 0
      /\ \A p \in Providers \ {me.provider} : due'[p] = due[p]
  BY <1>0, <1>1, <1>3 DEF BlocksTypeOK, Fill
<1>5. /\ file' \in [state : LlmState \cup {Malformed}, size : Nat]
      /\ file'.state = Malformed \/ file'.state = me.state
      /\ file.size = 0 => file'.state = me.state
  BY <1>0, <1>1 DEF BlocksTypeOK, Fill
<1>6. BlocksTypeOK'
  <2>1. command' \in [Commands -> [pc : {"idle", "change", "open", "fill"},
                         op : {"block", "unblock"}, provider : Providers, state : LlmState]]
    BY <1>0, NobodyBlocks, BlockConstants DEF BlocksTypeOK, Fill, Idle
  <2> QED  BY <1>0, <1>4, <1>5, <2>1 DEF BlocksTypeOK, Fill
<1>7. Remembered' /\ BlockHonoured' /\ EntryOf(query'.state, Claude) <= last'
  BY <1>0, QueryKept DEF BlocksTypeOK, Fill
<1>8. Bounded'
  <2>1. last' = last /\ EntryOf(Idle.state, Claude) = 0 /\ last \in Nat
    BY <1>0, NobodyBlocks, BlockConstants DEF Fill, Idle, BlocksTypeOK
  <2>2. \A d \in Commands : EntryOf(command'[d].state, Claude) <= last'
    BY <1>0, <1>2, <2>1 DEF Bounded
  <2>3. file'.state # Malformed => EntryOf(file'.state, Claude) <= last'
    BY <1>0, <1>5, <2>1 DEF Bounded
  <2> QED  BY <2>2, <2>3, <1>7 DEF Bounded
<1>9. Inserted'
  BY <1>2 DEF BlockInv, Inserted, Idle
<1>10. Serialised'
  <2> SUFFICES ASSUME orderly' PROVE Serialised'
    BY DEF Serialised
  <2>1. orderly
    BY DEF Fill
  <2>2. (\A d \in Commands \ {c} : ~Active(d)) /\ Intended(c) /\ file.size = 0
    BY <2>1, <1>0 DEF Serialised, Active
  <2>3. file'.state = me.state /\ file'.state # Malformed
    BY <2>2, <1>5, <1>1, BlockConstants
  <2>4. Agrees(file.state)'
    <3> SUFFICES ASSUME NEW p \in Providers PROVE EntryOf(me.state, p) = due'[p]
      BY <2>3 DEF Agrees, EntryOf
    <3>1. CASE p = me.provider
      BY <3>1, <2>2, <1>1, <1>4 DEF Intended, EntryOf
    <3>2. CASE p # me.provider
      BY <3>2, <2>2, <1>4 DEF Intended
    <3> QED  BY <3>1, <3>2
  <2>5. \A d \in Commands : command'[d].pc = "idle"
    BY <2>2, <1>2 DEF Active, Idle
  <2> QED  BY <2>3, <2>4, <2>5 DEF Serialised, Active
<1> QED  BY <1>6, <1>7, <1>8, <1>9, <1>10 DEF BlockInv

LEMMA DieKeepsInv ==
  ASSUME BlockInv, NEW c \in Commands, Die(c)
  PROVE  BlockInv'
<1>0. BlocksTypeOK /\ Bounded /\ Serialised /\ Inserted /\ command[c].pc # "idle"
  BY DEF BlockInv, Die
<1>1. command'[c] = Idle /\ \A d \in Commands \ {c} : command'[d] = command[d]
  BY <1>0 DEF BlocksTypeOK, Die
<1>2. BlocksTypeOK'
  <2>1. command' \in [Commands -> [pc : {"idle", "change", "open", "fill"},
                         op : {"block", "unblock"}, provider : Providers, state : LlmState]]
    BY <1>0, NobodyBlocks, BlockConstants DEF BlocksTypeOK, Die, Idle
  <2> QED  BY <1>0, <2>1 DEF BlocksTypeOK, Die
<1>3. Remembered' /\ BlockHonoured' /\ EntryOf(query'.state, Claude) <= last'
  BY <1>0, QueryKept DEF BlocksTypeOK, Die
<1>4. Bounded'
  <2>1. last' = last /\ file' = file /\ EntryOf(Idle.state, Claude) = 0 /\ last \in Nat
    BY <1>0, NobodyBlocks, BlockConstants DEF Die, Idle, BlocksTypeOK
  <2>2. \A d \in Commands : EntryOf(command'[d].state, Claude) <= last'
    BY <1>0, <1>1, <2>1 DEF Bounded
  <2> QED  BY <2>1, <2>2, <1>0, <1>3 DEF Bounded
<1>5. Inserted'
  BY <1>0, <1>1 DEF Inserted, Idle
<1>6. Serialised'
  <2> SUFFICES ASSUME orderly' PROVE Serialised'
    BY DEF Serialised
  <2>1. orderly /\ command[c].pc # "fill" /\ file' = file /\ due' = due
    BY DEF Die
  <2>2. \A d \in Commands \ {c} : ~Active(d)
    BY <2>1, <1>0 DEF Serialised, Active
  <2>3. file.state # Malformed /\ Agrees(file.state)
    BY <2>1, <2>2, <1>0 DEF Serialised, Active
  <2>4. \A d \in Commands : command'[d].pc = "idle"
    BY <2>2, <1>1 DEF Active, Idle
  <2> QED  BY <2>1, <2>3, <2>4 DEF Serialised, Active, Agrees
<1> QED  BY <1>2, <1>3, <1>4, <1>5, <1>6 DEF BlockInv

LEMMA RepairKeepsInv == BlockInv /\ Repair => BlockInv'
<1> SUFFICES ASSUME BlockInv, Repair PROVE BlockInv'
  OBVIOUS
<1> USE DEF Repair
<1>0. BlocksTypeOK /\ Bounded /\ Inserted
  BY DEF BlockInv
<1>1. BlocksTypeOK'
  BY <1>0, NobodyBlocks DEF BlocksTypeOK
<1>2. Remembered' /\ BlockHonoured' /\ EntryOf(query'.state, Claude) <= last'
  BY <1>0, QueryKept DEF BlocksTypeOK
<1>3. Bounded'
  <2>1. EntryOf(file'.state, Claude) = 0 /\ last \in Nat
    BY <1>0, NobodyBlocks, BlockConstants DEF BlocksTypeOK
  <2> QED  BY <2>1, <1>0, <1>2 DEF Bounded
<1>4. Inserted'
  BY <1>0 DEF Inserted
<1>5. Serialised'
  <2>1. \A d \in Commands : command'[d].pc = "idle"
    BY DEF Quiet
  <2>2. file'.state # Malformed /\ Agrees(file.state)'
    BY NobodyBlocks DEF Agrees, EntryOf
  <2> QED  BY <2>1, <2>2 DEF Serialised, Active
<1> QED  BY <1>1, <1>2, <1>3, <1>4, <1>5 DEF BlockInv

\* A step of the query or of the clock leaves what commands have made alone.
LEMMA CommandsKept ==
  ASSUME BlockInv, UNCHANGED <<file, command, started, due, last, orderly>>,
         EntryOf(query'.state, Claude) <= last'
  PROVE  Bounded' /\ Inserted' /\ Serialised'
<1>1. Bounded'
  BY DEF BlockInv, Bounded
<1>2. Inserted'
  BY DEF BlockInv, Inserted
<1>3. Serialised'
  BY DEF BlockInv, Serialised, Agrees, Active, Intended
<1> QED  BY <1>1, <1>2, <1>3

LEMMA LookKeepsInv == BlockInv /\ Look => BlockInv'
<1> SUFFICES ASSUME BlockInv, Look PROVE BlockInv'
  OBVIOUS
<1> DEFINE s == IF file.state = Malformed THEN Nobody ELSE file.state
<1>0. BlocksTypeOK /\ Bounded /\ Serialised
  BY DEF BlockInv
<1>1. query' = [query EXCEPT !.pc = "read", !.state = s, !.calm = orderly /\ Quiet,
                             !.due = due[Claude]]
  BY DEF Look
<1>2. s \in LlmState /\ due[Claude] \in Nat /\ (orderly /\ Quiet) \in BOOLEAN
  BY <1>0, NobodyBlocks, BlockConstants DEF BlocksTypeOK
<1>3. /\ query'.pc = "read" /\ query'.state = s /\ query'.due = due[Claude]
      /\ query'.calm = (orderly /\ Quiet)
  BY <1>0, <1>1 DEF BlocksTypeOK
<1>4. BlocksTypeOK'
  BY <1>0, <1>1, <1>2 DEF BlocksTypeOK, Look
<1>5. EntryOf(query'.state, Claude) <= last'
  <2>1. last \in Nat /\ last' = last
    BY <1>0 DEF BlocksTypeOK, Look
  <2> QED  BY <2>1, <1>0, <1>3, NobodyBlocks, BlockConstants DEF Bounded
<1>6. Bounded' /\ Inserted' /\ Serialised'
  BY <1>5, CommandsKept DEF Look
<1>7. Remembered'
  <2> SUFFICES ASSUME query'.calm PROVE EntryOf(s, Claude) = due[Claude]
    BY <1>3 DEF Remembered
  <2>1. orderly /\ \A c \in Commands : command[c].pc = "idle"
    BY <1>3 DEF Quiet
  <2>2. file.state # Malformed /\ Agrees(file.state)
    BY <2>1, <1>0 DEF Serialised
  <2> QED  BY <2>2, BlockConstants DEF Agrees
<1>8. BlockHonoured'
  BY <1>3 DEF BlockHonoured
<1> QED  BY <1>4, <1>6, <1>7, <1>8 DEF BlockInv

LEMMA RouteKeepsInv ==
  ASSUME BlockInv, NEW load \in BOOLEAN, Route(load)
  PROVE  BlockInv'
<1>0. BlocksTypeOK /\ Bounded /\ Remembered /\ query.pc = "read"
  BY DEF BlockInv, Route
<1>1. query' = [query EXCEPT !.pc = "routed", !.at = now, !.load = load,
                 !.route = route(load, is_blocked(query.state)), !.state = Nobody]
  BY DEF Route
<1>2. route(load, is_blocked(query.state)) \in {"claude", "deepseek"}
  BY DEF route
<1>3. /\ query'.pc = "routed" /\ query'.at = now /\ query'.load = load /\ query'.state = Nobody
      /\ query'.route = route(load, is_blocked(query.state))
      /\ query'.calm = query.calm /\ query'.due = query.due
  BY <1>0, <1>1 DEF BlocksTypeOK
<1>4. BlocksTypeOK'
  BY <1>0, <1>1, <1>2, NobodyBlocks DEF BlocksTypeOK, Route
<1>5. EntryOf(query'.state, Claude) <= last'
  BY <1>0, <1>3, NobodyBlocks, BlockConstants DEF BlocksTypeOK, Route
<1>6. Bounded' /\ Inserted' /\ Serialised'
  BY <1>5, CommandsKept DEF Route
<1>7. Remembered'
  BY <1>3 DEF Remembered
<1>8. BlockHonoured'
  <2> SUFFICES ASSUME ~load
               PROVE  /\ query.calm => (query'.route = "deepseek" <=> query.due > now)
                      /\ query'.route = "deepseek" => now < last'
    BY <1>3 DEF BlockHonoured
  <2>1. query'.route = "deepseek" <=> is_blocked(query.state)
    BY <1>3 DEF route
  <2>2. EntryOf(query.state, Claude) \in Nat /\ now \in Nat /\ last \in Nat /\ last' = last
    BY <1>0, EntryIsNat, BlockConstants DEF BlocksTypeOK, Route
  <2>3. is_blocked(query.state) <=> EntryOf(query.state, Claude) > now
    BY <2>2 DEF is_blocked, EntryOf
  <2>4. EntryOf(query.state, Claude) <= last
    BY <1>0 DEF Bounded
  <2> QED  BY <2>1, <2>2, <2>3, <2>4, <1>0 DEF Remembered
<1> QED  BY <1>4, <1>6, <1>7, <1>8 DEF BlockInv

LEMMA TickKeepsInv == BlockInv /\ Tick => BlockInv'
<1> SUFFICES ASSUME BlockInv, Tick PROVE BlockInv'
  OBVIOUS
<1>0. BlocksTypeOK
  BY DEF BlockInv
<1>1. BlocksTypeOK'
  BY <1>0 DEF BlocksTypeOK, Tick
<1>2. Remembered' /\ BlockHonoured' /\ EntryOf(query'.state, Claude) <= last'
  BY <1>0, QueryKept DEF BlocksTypeOK, Tick
<1>3. Bounded' /\ Inserted' /\ Serialised'
  BY <1>2, CommandsKept DEF Tick
<1> QED  BY <1>1, <1>2, <1>3 DEF BlockInv

LEMMA StepKeepsInv == BlockInv /\ [BlocksNext]_blockVars => BlockInv'
<1> SUFFICES ASSUME BlockInv, [BlocksNext]_blockVars PROVE BlockInv'
  OBVIOUS
<1>1. CASE \E c \in Commands : Command(c)
  <2> PICK c \in Commands : Command(c)
    BY <1>1
  <2> QED  BY ReadStateKeepsInv, ChangeKeepsInv, OpenKeepsInv, FillKeepsInv, DieKeepsInv
           DEF Command
<1>2. CASE Repair
  BY <1>2, RepairKeepsInv
<1>3. CASE Look
  BY <1>3, LookKeepsInv
<1>4. CASE \E load \in BOOLEAN : Route(load)
  BY <1>4, RouteKeepsInv
<1>5. CASE Tick
  BY <1>5, TickKeepsInv
<1>6. CASE UNCHANGED blockVars
  <2>1. BlocksTypeOK' /\ EntryOf(query'.state, Claude) <= last'
    BY <1>6 DEF BlockInv, BlocksTypeOK, Bounded, blockVars
  <2>2. Bounded' /\ Inserted' /\ Serialised'
    BY <1>6, <2>1, CommandsKept DEF blockVars
  <2>3. Remembered' /\ BlockHonoured'
    BY <1>6 DEF BlockInv, Remembered, BlockHonoured, blockVars
  <2> QED  BY <2>1, <2>2, <2>3 DEF BlockInv
<1> QED  BY <1>1, <1>2, <1>3, <1>4, <1>5, <1>6 DEF BlocksNext

\* Blocks are honoured while commands do not meet, and never outlast the longest
\* that was asked for: llm_state.rs and Rule 2.5 of the router.
THEOREM BlockHonouredCorrect == BlocksSpec => []BlockHonoured
<1>1. BlocksSpec => []BlockInv
  BY InvInit, StepKeepsInv, PTL DEF BlocksSpec
<1>2. BlockInv => BlockHonoured
  BY DEF BlockInv
<1> QED  BY <1>1, <1>2, PTL

-----------------------------------------------------------------------------
(* Setup: for any number of runs of the two commands, and any edits.       *)

\* A process that runs one of the two commands.
SetupStages == {"idle", "config", "create", "fill", "database", "ignore", "open ignore",
                "fill ignore", "scripts", "settings", "open settings", "fill settings", "done"}
Installer == [op : {"init", "install"}, stage : SetupStages, n : 1 .. Len(Configs),
              lines : SUBSET Entries, merged : Settings, met : BOOLEAN]

\* What the user may have put into the files.
Wants == [configs : [Names -> BOOLEAN], ignore : SUBSET Entries,
          settings : [foreign : SUBSET Entries, odd : OddPlaces, parses : BOOLEAN]]

SetupTyped ==
  /\ SetupTypeOK
  /\ installer \in [Installers -> Installer]

\* At a configuration that is not excused one run at most is between its look
\* and the end of its write, and it has found none.
ConfigInv(c) ==
  c \notin excused =>
    /\ \A p, q \in Installers : Rewrites(p, c) /\ Rewrites(q, c) => p = q
    /\ \A p \in Installers : Rewrites(p, c) =>
         ~wanted.configs[c] /\ (~Emptied(p, c) => configs[c] = Missing)
    /\ (\A p \in Installers : ~Emptied(p, c)) =>
         configs[c] # Garbled /\ (configs[c] = "edited" <=> wanted.configs[c])

\* At the two other files, it has in hand what the user put there.
IgnoreInv ==
  "ignore" \notin excused =>
    /\ \A p, q \in Installers : Rewrites(p, "ignore") /\ Rewrites(q, "ignore") => p = q
    /\ \A p \in Installers : Rewrites(p, "ignore") => installer[p].lines = wanted.ignore
    /\ (\A p \in Installers : ~Emptied(p, "ignore")) => IgnoreLines \cap Entries = wanted.ignore

SettingsInv ==
  "settings" \notin excused =>
    /\ \A p, q \in Installers : Rewrites(p, "settings") /\ Rewrites(q, "settings") => p = q
    /\ \A p \in Installers : Rewrites(p, "settings") => installer[p].merged.foreign = wanted.settings.foreign
    /\ (\A p \in Installers : ~Emptied(p, "settings")) =>
         /\ InForce.foreign = wanted.settings.foreign
         /\ settings = Garbled => ~wanted.settings.parses

\* Scripts come before the registration, which is made once.
Registers ==
  /\ \A p \in Installers :
       /\ Stage(p) \in {"settings", "open settings", "fill settings"} => "scripts" \in made
       /\ Stage(p) \in {"open settings", "fill settings"} =>
            \A e \in Events : installer[p].merged.own[e] = 1
  /\ RegisteredOnce

\* A run that met nobody is alone, and has made what it is past.
Configured == \A c \in Names : configs[c] # Missing

HasMade(p) ==
  /\ Stage(p) \in {"config", "create", "fill"} =>
       \A m \in 1 .. installer[p].n - 1 : configs[Configs[m]] # Missing
  /\ Stage(p) \in {"database", "ignore", "open ignore", "fill ignore"} => Configured
  /\ Stage(p) \in {"ignore", "open ignore", "fill ignore"} => "database" \in made
  /\ Stage(p) = "done" /\ installer[p].op = "init" => Configured /\ Own \in IgnoreLines
  /\ Stage(p) \in {"scripts", "settings", "open settings", "fill settings", "done"} => Initialised
  /\ Stage(p) = "done" /\ installer[p].op = "install" => \A e \in Events : InForce.own[e] = 1

Alone ==
  \A p \in Installers : Stage(p) # "idle" /\ ~installer[p].met =>
    HasMade(p) /\ \A q \in Installers \ {p} : ~Working(q)

OpsFit ==
  \A p \in Installers :
    Stage(p) \in {"scripts", "settings", "open settings", "fill settings"} =>
      installer[p].op = "install"

SetupInv ==
  /\ SetupTyped
  /\ \A c \in Names : ConfigInv(c)
  /\ IgnoreInv /\ SettingsInv
  /\ Registers /\ Alone /\ OpsFit

-----------------------------------------------------------------------------
(* Types.                                                                  *)

LEMMA NamesDiffer ==
  /\ Names \subseteq {"config", "providers", "project"} /\ "project" \in Names
  /\ "ignore" \notin Names /\ "settings" \notin Names
  /\ Len(Configs) \in Nat /\ Len(Configs) >= 1
  /\ \A n \in 1 .. Len(Configs) : Configs[n] \in Names
<1>1. Configs \in Seq({"config", "providers", "project"}) /\ "project" \in Names
  BY SetupConstants
<1>2. Names \subseteq {"config", "providers", "project"}
  BY <1>1 DEF Names
<1>3. Len(Configs) \in Nat /\ Len(Configs) >= 1
  BY <1>1 DEF Names
<1> QED
  BY <1>1, <1>2, <1>3 DEF Names

LEMMA IdleTyped == IdleInstaller \in Installer /\ NoSettings \in Settings /\ {} \in OddPlaces
BY NamesDiffer DEF IdleInstaller, Installer, SetupStages, NoSettings, Settings, OddPlaces

LEMMA SetupTypeInit == SetupInit => SetupTyped
<1> SUFFICES ASSUME SetupInit PROVE SetupTyped
  OBVIOUS
<1>1. settings \in {Missing, Garbled} \/ settings \in Settings
  BY IdleTyped DEF SetupInit, NoSettings, Settings
<1>2. installer \in [Installers -> Installer]
  BY IdleTyped DEF SetupInit
<1>3. \A p \in Installers : installer[p].lines \subseteq Entries /\ installer[p].merged \in Settings
  BY <1>2 DEF Installer
<1>4. configs \in [Names -> {Missing, Garbled, "default", "edited"}] /\ userEdits \in 0 .. MaxUserEdits
  BY SetupConstants DEF SetupInit
<1>5. wanted \in Wants
  BY IdleTyped DEF SetupInit, Wants
<1> QED
  BY <1>1, <1>2, <1>3, <1>4, <1>5 DEF SetupInit, SetupTyped, SetupTypeOK, Wants

\* What an edit leaves of our hooks was there before.
LEMMA SettingsEdited ==
  ASSUME SetupTyped, EditSettings
  PROVE  /\ wanted' \in Wants
         /\ \/ /\ settings' = Garbled
               /\ wanted'.settings.foreign = {} /\ ~wanted'.settings.parses
            \/ /\ settings' \in Settings
               /\ settings'.foreign = wanted'.settings.foreign
               /\ \A e \in Events : settings'.own[e] \in {0, InForce.own[e]}
<1>1. wanted \in Wants /\ InForce \in Settings
  BY IdleTyped DEF SetupTyped, SetupTypeOK, InForce, Wants
<1>2. ASSUME NEW w \in [foreign : SUBSET Entries, odd : OddPlaces, parses : BOOLEAN],
             wanted' = [wanted EXCEPT !.settings = w]
      PROVE  wanted' \in Wants /\ wanted'.settings = w
  BY <1>1, <1>2 DEF Wants
<1>3. CASE /\ wanted' = [wanted EXCEPT !.settings = [foreign |-> {}, odd |-> {}, parses |-> FALSE]]
           /\ settings' = Garbled
  <2>1. [foreign |-> {}, odd |-> {}, parses |-> FALSE]
          \in [foreign : SUBSET Entries, odd : OddPlaces, parses : BOOLEAN]
    BY IdleTyped
  <2>2. wanted' \in Wants /\ wanted'.settings = [foreign |-> {}, odd |-> {}, parses |-> FALSE]
    BY <1>2, <1>3, <2>1
  <2> QED
    BY <1>3, <2>2
<1>4. ASSUME NEW foreign \in SUBSET Entries, NEW left \in SUBSET Events, NEW odd \in OddPlaces,
             wanted' = [wanted EXCEPT !.settings = [foreign |-> foreign, odd |-> odd, parses |-> TRUE]],
             settings' = [foreign |-> foreign, odd |-> odd,
                          own |-> [e \in Events |-> IF e \in left THEN InForce.own[e] ELSE 0]]
      PROVE  /\ wanted' \in Wants /\ settings' \in Settings
             /\ settings'.foreign = wanted'.settings.foreign
             /\ \A e \in Events : settings'.own[e] \in {0, InForce.own[e]}
  <2>1. wanted' \in Wants /\ wanted'.settings = [foreign |-> foreign, odd |-> odd, parses |-> TRUE]
    BY <1>2, <1>4
  <2>2. [e \in Events |-> IF e \in left THEN InForce.own[e] ELSE 0] \in [Events -> Nat]
    BY <1>1 DEF Settings
  <2> QED
    BY <1>4, <2>1, <2>2 DEF Settings
<1>5. InForce.own = IF settings \in {Missing, Garbled} THEN NoSettings.own ELSE settings.own
  BY DEF InForce
<1> QED
  BY <1>3, <1>4, <1>5 DEF EditSettings

LEMMA SetupTypeStep == SetupTyped /\ [SetupNext]_setupVars => SetupTyped'
<1> SUFFICES ASSUME SetupTyped, [SetupNext]_setupVars PROVE SetupTyped'
  OBVIOUS
<1> USE DEF shared, user, Wants
<1> DEFINE Files == Names \cup {"ignore", "settings"}
<1>1. /\ configs \in [Names -> {Missing, Garbled, "default", "edited"}]
      /\ ignore = Missing \/ ignore \subseteq Entries \cup {Own}
      /\ settings \in {Missing, Garbled} \/ settings \in Settings
      /\ made \subseteq {"database", "scripts"}
      /\ wanted \in Wants
      /\ excused \subseteq Files /\ userEdits \in 0 .. MaxUserEdits
      /\ installer \in [Installers -> Installer]
  BY DEF SetupTyped, SetupTypeOK
<1>2. \A p \in Installers : installer[p] \in Installer /\ Config(p) \in Names
  BY <1>1, NamesDiffer DEF Installer, Config
\* What a step does to a process.
<1>3. ASSUME NEW p \in Installers, NEW r \in Installer, installer' = [installer EXCEPT ![p] = r]
      PROVE  installer' \in [Installers -> Installer]
  BY <1>1, <1>3
<1>4. ASSUME NEW p \in Installers, NEW l \in SetupStages, SetupTo(p, l)
      PROVE  installer' \in [Installers -> Installer]
  BY <1>2, <1>3, <1>4 DEF SetupTo, Installer
<1>5. ASSUME NEW p \in Installers, AfterConfig(p)
      PROVE  installer' \in [Installers -> Installer]
  <2> DEFINE final == installer[p].n = Len(Configs)
             r == [installer[p] EXCEPT !.stage = IF final THEN "database" ELSE "config",
                                       !.n     = IF final THEN 1 ELSE installer[p].n + 1]
  <2>1. installer[p] \in Installer /\ installer[p].n \in 1 .. Len(Configs)
    BY <1>2 DEF Installer
  <2>2. (IF final THEN 1 ELSE installer[p].n + 1) \in 1 .. Len(Configs)
    BY <2>1, NamesDiffer
  <2>3. r \in Installer
    BY <2>1, <2>2 DEF Installer, SetupStages
  <2>4. installer' = [installer EXCEPT ![p] = r]
    BY <1>1, <1>5 DEF AfterConfig
  <2> QED
    BY <1>3, <2>3, <2>4
<1>6. ASSUME NEW p \in Installers, AfterInit(p)
      PROVE  installer' \in [Installers -> Installer]
  <2> DEFINE r == [installer[p] EXCEPT !.lines = {},
                     !.stage = IF installer[p].op = "init" THEN "done" ELSE "scripts"]
  <2>1. r \in Installer
    <3>1. installer[p] \in Installer
      BY <1>2
    <3>2. {} \in SUBSET Entries
      OBVIOUS
    <3> QED
      BY <3>1, <3>2 DEF Installer, SetupStages
  <2>2. installer' = [installer EXCEPT ![p] = r]
    BY <1>1, <1>6 DEF AfterInit
  <2> QED
    BY <1>3, <2>1, <2>2
<1>7. ASSUME NEW p \in Installers, NEW f \in Files, Meets(p, f)
      PROVE  excused' \subseteq Files
  BY <1>1, <1>7 DEF Meets
<1>8. \A p \in Installers : \A l \in SetupStages : SetupTo(p, l) => installer' \in [Installers -> Installer]
  BY <1>4
<1>10. ASSUME NEW p \in Installers, BeginSetup(p) PROVE SetupTyped'
  <2>1. installer' \in [Installers -> Installer]
    <3>1. PICK op \in {"init", "install"} :
             installer' = [q \in Installers |->
               IF q = p
               THEN [IdleInstaller EXCEPT !.op = op, !.met = \E r \in Installers : Working(r),
                       !.stage = IF op = "install" /\ Initialised THEN "scripts" ELSE "config"]
               ELSE [installer[q] EXCEPT !.met = TRUE]]
      BY <1>10 DEF BeginSetup
    <3>2. \A b \in BOOLEAN, l \in {"scripts", "config"} :
            [IdleInstaller EXCEPT !.op = op, !.met = b, !.stage = l] \in Installer
      BY IdleTyped DEF Installer, SetupStages
    <3>3. \A q \in Installers : [installer[q] EXCEPT !.met = TRUE] \in Installer
      BY <1>2 DEF Installer
    <3>4. (\E r \in Installers : Working(r)) \in BOOLEAN
      OBVIOUS
    <3> QED
      BY <3>1, <3>2, <3>3, <3>4
  <2> QED
    BY <1>1, <1>10, <2>1 DEF BeginSetup, SetupTyped, SetupTypeOK, Installer
<1>11. ASSUME NEW p \in Installers, CheckConfig(p) PROVE SetupTyped'
  <2>1. installer' \in [Installers -> Installer]
    BY <1>5, <1>8, <1>11 DEF CheckConfig, SetupStages
  <2>2. excused' \subseteq Files
    BY <1>1, <1>2, <1>7, <1>11 DEF CheckConfig
  <2> QED
    BY <1>1, <1>11, <2>1, <2>2 DEF CheckConfig, SetupTyped, SetupTypeOK, Installer
<1>12. ASSUME NEW p \in Installers, CreateConfig(p) \/ FillConfig(p) PROVE SetupTyped'
  <2>1. installer' \in [Installers -> Installer]
    BY <1>5, <1>8, <1>12 DEF CreateConfig, FillConfig, SetupStages
  <2>2. configs' \in [Names -> {Missing, Garbled, "default", "edited"}]
    BY <1>1, <1>12 DEF CreateConfig, FillConfig
  <2> QED
    BY <1>1, <1>12, <2>1, <2>2 DEF CreateConfig, FillConfig, SetupTyped, SetupTypeOK, Installer
<1>13. ASSUME NEW p \in Installers, CreateDatabase(p) \/ WriteScripts(p) PROVE SetupTyped'
  <2>1. installer' \in [Installers -> Installer]
    BY <1>8, <1>13 DEF CreateDatabase, WriteScripts, SetupStages
  <2> QED
    BY <1>1, <1>13, <2>1 DEF CreateDatabase, WriteScripts, SetupTyped, SetupTypeOK, Installer
<1>14. ASSUME NEW p \in Installers, ReadIgnore(p) PROVE SetupTyped'
  <2> DEFINE lines == IF ignore = Missing THEN {} ELSE ignore
  <2>1. CASE Own \in lines
    <3>1. installer' \in [Installers -> Installer] /\ UNCHANGED excused
      BY <1>6, <1>14, <2>1 DEF ReadIgnore
    <3> QED
      BY <1>1, <1>14, <3>1 DEF ReadIgnore, SetupTyped, SetupTypeOK, Installer
  <2>2. CASE Own \notin lines
    <3>1. lines \in SUBSET Entries
      BY <1>1, <2>2
    <3>2. [installer[p] EXCEPT !.stage = "open ignore", !.lines = lines] \in Installer
      BY <1>2, <3>1 DEF Installer, SetupStages
    <3>5. installer' = [installer EXCEPT ![p] =
                          [installer[p] EXCEPT !.stage = "open ignore", !.lines = lines]]
      BY <1>1, <1>14, <2>2 DEF ReadIgnore
    <3>3. installer' \in [Installers -> Installer]
      BY <1>3, <3>2, <3>5
    <3>4. excused' \subseteq Files
      BY <1>7, <1>14, <2>2 DEF ReadIgnore
    <3> QED
      BY <1>1, <1>14, <3>3, <3>4 DEF ReadIgnore, SetupTyped, SetupTypeOK, Installer
  <2> QED
    BY <2>1, <2>2
<1>15. ASSUME NEW p \in Installers, OpenIgnore(p) \/ FillIgnore(p) PROVE SetupTyped'
  <2>1. installer' \in [Installers -> Installer]
    BY <1>6, <1>8, <1>15 DEF OpenIgnore, FillIgnore, SetupStages
  <2>2. ignore' \subseteq Entries \cup {Own}
    BY <1>2, <1>15 DEF OpenIgnore, FillIgnore, Installer
  <2> QED
    BY <1>1, <1>15, <2>1, <2>2 DEF OpenIgnore, FillIgnore, SetupTyped, SetupTypeOK, Installer
<1>16. ASSUME NEW p \in Installers, ReadSettings(p) PROVE SetupTyped'
  <2> DEFINE read   == IF settings \in {Missing, Garbled} THEN NoSettings ELSE settings
             merged == [read EXCEPT !.own = [e \in Events |-> IF @[e] > 0 THEN @[e] ELSE 1],
                                    !.odd = {}]
  <2>1. CASE \A e \in Events : read.own[e] > 0
    <3>1. installer' \in [Installers -> Installer] /\ UNCHANGED excused
      BY <1>8, <1>16, <2>1 DEF ReadSettings, SetupStages
    <3> QED
      BY <1>1, <1>16, <3>1 DEF ReadSettings, SetupTyped, SetupTypeOK, Installer
  <2>2. CASE ~(\A e \in Events : read.own[e] > 0)
    <3>1. read \in Settings
      BY <1>1, IdleTyped
    <3>2. merged \in Settings
      BY <3>1, IdleTyped DEF Settings
    <3>3. [installer[p] EXCEPT !.stage = "open settings", !.merged = merged] \in Installer
      BY <1>2, <3>2 DEF Installer, SetupStages
    <3>4. installer' = [installer EXCEPT ![p] =
                          [installer[p] EXCEPT !.stage = "open settings", !.merged = merged]]
      BY <1>1, <1>16, <2>2 DEF ReadSettings
    <3>5. installer' \in [Installers -> Installer]
      BY <1>3, <3>3, <3>4
    <3>6. excused' \subseteq Files
      BY <1>1, <1>7, <1>16, <2>2 DEF ReadSettings
    <3> QED
      BY <1>1, <1>16, <3>5, <3>6 DEF ReadSettings, SetupTyped, SetupTypeOK, Installer
  <2> QED
    BY <2>1, <2>2
<1>17. ASSUME NEW p \in Installers, OpenSettings(p) PROVE SetupTyped'
  <2>1. installer' \in [Installers -> Installer]
    BY <1>8, <1>17 DEF OpenSettings, SetupStages
  <2> QED
    BY <1>1, <1>17, <2>1 DEF OpenSettings, SetupTyped, SetupTypeOK, Installer
<1>18. ASSUME NEW p \in Installers, FillSettings(p) PROVE SetupTyped'
  <2>1. [installer[p] EXCEPT !.stage = "done", !.merged = NoSettings] \in Installer
    BY <1>2, IdleTyped DEF Installer, SetupStages
  <2>2. installer' \in [Installers -> Installer]
    BY <1>1, <1>3, <1>18, <2>1 DEF FillSettings
  <2>3. settings' \in Settings
    BY <1>2, <1>18 DEF FillSettings, Installer
  <2> QED
    BY <1>1, <1>18, <2>2, <2>3 DEF FillSettings, SetupTyped, SetupTypeOK, Installer
<1>19. ASSUME NEW p \in Installers, AbortSetup(p) PROVE SetupTyped'
  <2>1. installer' \in [Installers -> Installer]
    BY <1>3, <1>19, IdleTyped DEF AbortSetup
  <2>2. excused' \subseteq Files
    BY <1>1, <1>19 DEF AbortSetup
  <2> QED
    BY <1>1, <1>19, <2>1, <2>2 DEF AbortSetup, SetupTyped, SetupTypeOK, Installer
<1>20. ASSUME NEW f \in Files, Edited(f)
       PROVE  /\ installer' \in [Installers -> Installer] /\ excused' \subseteq Files
              /\ userEdits' \in 0 .. MaxUserEdits /\ made' = made
  <2>1. installer' \in [Installers -> Installer]
    BY <1>2, <1>20 DEF Edited, Installer
  <2> QED
    BY <1>1, <1>20, <2>1, SetupConstants DEF Edited
<1>21. ASSUME NEW c \in Names, EditConfig(c) PROVE SetupTyped'
  <2>1. configs' \in [Names -> {Missing, Garbled, "default", "edited"}]
    BY <1>1, <1>21 DEF EditConfig
  <2>2. wanted' \in Wants
    BY <1>1, <1>21 DEF EditConfig
  <2> QED
    BY <1>1, <1>20, <1>21, <2>1, <2>2 DEF EditConfig, SetupTyped, SetupTypeOK, Installer
<1>22. ASSUME EditIgnore PROVE SetupTyped'
  <2>1. ignore' \subseteq Entries \cup {Own}
    BY <1>1, <1>22 DEF EditIgnore
  <2>2. wanted' \in Wants
    BY <1>1, <1>22 DEF EditIgnore
  <2> QED
    BY <1>1, <1>20, <1>22, <2>1, <2>2 DEF EditIgnore, SetupTyped, SetupTypeOK, Installer
<1>23. ASSUME EditSettings PROVE SetupTyped'
  <2>2. settings' = Garbled \/ settings' \in Settings
    BY <1>1, <1>23, SettingsEdited
  <2>3. wanted' \in Wants
    BY <1>1, <1>23, SettingsEdited
  <2> QED
    BY <1>1, <1>20, <1>23, <2>2, <2>3 DEF EditSettings, SetupTyped, SetupTypeOK, Installer
<1>24. CASE UNCHANGED setupVars
  BY <1>1, <1>24 DEF setupVars, SetupTyped, SetupTypeOK, Installer
<1> QED
  BY <1>10, <1>11, <1>12, <1>13, <1>14, <1>15, <1>16, <1>17, <1>18, <1>19, <1>21, <1>22, <1>23, <1>24
     DEF SetupNext, SetupStep

-----------------------------------------------------------------------------
(* What a step does to the process that takes it, and to the others.       *)

\* p goes on to the stage l; the others stay as they are.
Moves(p, l) ==
  /\ installer'[p].stage = l /\ installer'[p].op = installer[p].op
  /\ installer'[p].met = installer[p].met
  /\ \A q \in Installers \ {p} : installer'[q] = installer[q]
Keeps(p, field) == installer'[p][field] = installer[p][field]

LEMMA Effects ==
  ASSUME SetupTyped, NEW p \in Installers
  PROVE  /\ \A l \in SetupStages : SetupTo(p, l) =>
              Moves(p, l) /\ Keeps(p, "n") /\ Keeps(p, "lines") /\ Keeps(p, "merged")
         /\ AfterConfig(p) => LET final == installer[p].n = Len(Configs) IN
              /\ Moves(p, IF final THEN "database" ELSE "config")
              /\ installer'[p].n = IF final THEN 1 ELSE installer[p].n + 1
         /\ AfterInit(p) =>
              Moves(p, IF installer[p].op = "init" THEN "done" ELSE "scripts")
<1>1. installer \in [Installers -> Installer] /\ installer[p] \in Installer
  BY DEF SetupTyped
<1>2. ASSUME NEW l \in SetupStages, SetupTo(p, l)
      PROVE  Moves(p, l) /\ Keeps(p, "n") /\ Keeps(p, "lines") /\ Keeps(p, "merged")
  BY <1>1, <1>2 DEF SetupTo, Moves, Keeps, Installer
<1>3. ASSUME AfterConfig(p)
      PROVE  LET final == installer[p].n = Len(Configs) IN
              /\ Moves(p, IF final THEN "database" ELSE "config")
              /\ installer'[p].n = IF final THEN 1 ELSE installer[p].n + 1
  BY <1>1, <1>3 DEF AfterConfig, Moves, Installer
<1>4. ASSUME AfterInit(p)
      PROVE  Moves(p, IF installer[p].op = "init" THEN "done" ELSE "scripts")
  BY <1>1, <1>4 DEF AfterInit, Moves, Installer
<1> QED
  BY <1>2, <1>3, <1>4

LEMMA RewritesIs ==
  ASSUME NEW p \in Installers, NEW c \in Names
  PROVE  /\ Rewrites(p, c) <=> Stage(p) \in {"create", "fill"} /\ Config(p) = c
         /\ Emptied(p, c)  <=> Stage(p) = "fill" /\ Config(p) = c
         /\ Rewrites(p, c)' <=> Stage(p)' \in {"create", "fill"} /\ Config(p)' = c
         /\ Emptied(p, c)'  <=> Stage(p)' = "fill" /\ Config(p)' = c
<1> c \notin {"ignore", "settings"}
  BY NamesDiffer
<1> QED
  BY DEF Rewrites, Emptied

LEMMA SharedIs ==
  ASSUME NEW p \in Installers
  PROVE  /\ Rewrites(p, "ignore") <=> Stage(p) \in {"open ignore", "fill ignore"}
         /\ Emptied(p, "ignore")  <=> Stage(p) = "fill ignore"
         /\ Rewrites(p, "ignore")' <=> Stage(p)' \in {"open ignore", "fill ignore"}
         /\ Emptied(p, "ignore")'  <=> Stage(p)' = "fill ignore"
         /\ Rewrites(p, "settings") <=> Stage(p) \in {"open settings", "fill settings"}
         /\ Emptied(p, "settings")  <=> Stage(p) = "fill settings"
         /\ Rewrites(p, "settings")' <=> Stage(p)' \in {"open settings", "fill settings"}
         /\ Emptied(p, "settings")'  <=> Stage(p)' = "fill settings"
BY DEF Rewrites, Emptied

\* The two looks at the shared files.
LEMMA ReadIgnoreIs ==
  ASSUME SetupTyped, NEW p \in Installers, ReadIgnore(p)
  PROVE  \/ /\ Own \in IgnoreLines /\ UNCHANGED excused
            /\ Moves(p, IF installer[p].op = "init" THEN "done" ELSE "scripts")
         \/ /\ Own \notin IgnoreLines /\ Meets(p, "ignore")
            /\ Moves(p, "open ignore") /\ installer'[p].lines = IgnoreLines
<1>1. installer \in [Installers -> Installer] /\ installer[p] \in Installer
  BY DEF SetupTyped
<1>2. CASE Own \in IgnoreLines
  <2>1. AfterInit(p) /\ UNCHANGED excused
    BY <1>2 DEF ReadIgnore, IgnoreLines
  <2> QED
    BY <1>2, <2>1, Effects
<1>3. CASE Own \notin IgnoreLines
  <2>1. installer' = [installer EXCEPT ![p].stage = "open ignore", ![p].lines = IgnoreLines]
    BY <1>3 DEF ReadIgnore, IgnoreLines
  <2>2. Moves(p, "open ignore") /\ installer'[p].lines = IgnoreLines
    BY <1>1, <2>1 DEF Moves, Installer
  <2>3. Meets(p, "ignore")
    BY <1>3 DEF ReadIgnore, IgnoreLines
  <2> QED
    BY <1>3, <2>2, <2>3
<1> QED
  BY <1>2, <1>3

LEMMA ReadSettingsIs ==
  ASSUME SetupTyped, NEW p \in Installers, ReadSettings(p)
  PROVE  \/ /\ \A e \in Events : InForce.own[e] > 0
            /\ Moves(p, "done") /\ UNCHANGED excused
         \/ /\ Moves(p, "open settings") /\ Meets(p, "settings")
            /\ installer'[p].merged.foreign = InForce.foreign
            /\ \A e \in Events : installer'[p].merged.own[e] =
                 IF InForce.own[e] > 0 THEN InForce.own[e] ELSE 1
<1> DEFINE merged == [InForce EXCEPT !.own = [e \in Events |-> IF @[e] > 0 THEN @[e] ELSE 1],
                                    !.odd = {}]
<1>1. installer \in [Installers -> Installer] /\ installer[p] \in Installer
  BY DEF SetupTyped
<1>2. CASE \A e \in Events : InForce.own[e] > 0
  <2>1. SetupTo(p, "done") /\ UNCHANGED excused
    BY <1>2 DEF ReadSettings, InForce
  <2> QED
    BY <1>2, <2>1, Effects DEF SetupStages
<1>3. CASE ~(\A e \in Events : InForce.own[e] > 0)
  <2>1. InForce \in Settings
    BY IdleTyped DEF SetupTyped, SetupTypeOK, InForce
  <2>2. /\ merged.foreign = InForce.foreign
        /\ \A e \in Events : merged.own[e] = IF InForce.own[e] > 0 THEN InForce.own[e] ELSE 1
    BY <2>1 DEF Settings
  <2>3. installer' = [installer EXCEPT ![p].stage = "open settings", ![p].merged = merged]
    BY <1>3 DEF ReadSettings, InForce
  <2>4. Moves(p, "open settings") /\ installer'[p].merged = merged
    <3> HIDE DEF merged
    <3> QED
      BY <1>1, <2>3 DEF Moves, Installer
  <2>5. Meets(p, "settings")
    BY <1>3 DEF ReadSettings, InForce
  <2> HIDE DEF merged
  <2> QED
    BY <2>2, <2>4, <2>5
<1> QED
  BY <1>2, <1>3

LEMMA FillSettingsIs ==
  ASSUME SetupTyped, NEW p \in Installers, FillSettings(p)
  PROVE  Moves(p, "done")
BY DEF SetupTyped, FillSettings, Moves, Installer

LEMMA BeginsAt ==
  ASSUME SetupTyped, NEW p \in Installers, BeginSetup(p)
  PROVE  /\ Stage(p) \in {"idle", "done"}
         /\ installer'[p].op \in {"init", "install"} /\ installer'[p].n = 1
         /\ installer'[p].met = \E r \in Installers : Working(r)
         /\ \/ Stage(p)' = "config"
            \/ Stage(p)' = "scripts" /\ Initialised /\ installer'[p].op = "install"
         /\ \A q \in Installers \ {p} :
              /\ Stage(q)' = Stage(q) /\ Config(q)' = Config(q) /\ installer'[q].met
              /\ installer'[q].op = installer[q].op
              /\ installer'[q].lines = installer[q].lines
              /\ installer'[q].merged = installer[q].merged
<1>1. PICK op \in {"init", "install"} :
         installer' = [q \in Installers |->
           IF q = p
           THEN [IdleInstaller EXCEPT !.op = op, !.met = \E r \in Installers : Working(r),
                   !.stage = IF op = "install" /\ Initialised THEN "scripts" ELSE "config"]
           ELSE [installer[q] EXCEPT !.met = TRUE]]
  BY DEF BeginSetup
<1>2. installer'[p] = [IdleInstaller EXCEPT !.op = op, !.met = \E r \in Installers : Working(r),
                         !.stage = IF op = "install" /\ Initialised THEN "scripts" ELSE "config"]
  BY <1>1
<1>3. /\ installer'[p].op = op /\ installer'[p].n = 1
      /\ installer'[p].stage = IF op = "install" /\ Initialised THEN "scripts" ELSE "config"
  BY <1>2 DEF IdleInstaller
<1>4. installer'[p].met = \E r \in Installers : Working(r)
  <2> DEFINE b == \E r \in Installers : Working(r)
             st == IF op = "install" /\ Initialised THEN "scripts" ELSE "config"
  <2>1. installer'[p] = [IdleInstaller EXCEPT !.op = op, !.met = b, !.stage = st]
    BY <1>2
  <2> HIDE DEF b, st
  <2>2. installer'[p].met = b
    BY <2>1, Zenon DEF IdleInstaller
  <2> QED
    BY <2>2 DEF b
<1>5. \A q \in Installers \ {p} :
        /\ Stage(q)' = Stage(q) /\ Config(q)' = Config(q) /\ installer'[q].met
        /\ installer'[q].op = installer[q].op
        /\ installer'[q].lines = installer[q].lines
        /\ installer'[q].merged = installer[q].merged
  BY <1>1 DEF SetupTyped, Installer, Stage, Config
<1> QED
  BY <1>3, <1>4, <1>5 DEF BeginSetup, Working, Stage

LEMMA EditedIs ==
  ASSUME SetupTyped, NEW f, Edited(f)
  PROVE  /\ \A q \in Installers :
              /\ Stage(q)' = Stage(q) /\ Config(q)' = Config(q) /\ installer'[q].met
              /\ installer'[q].op = installer[q].op
              /\ installer'[q].lines = installer[q].lines
              /\ installer'[q].merged = installer[q].merged
         /\ made' = made
         /\ excused' = IF \E p \in Installers : Rewrites(p, f) THEN excused \cup {f} ELSE excused \ {f}
BY DEF Edited, SetupTyped, Installer, Stage, Config

-----------------------------------------------------------------------------
(* The configurations.                                                     *)

\* A step that leaves a configuration, and who rewrites it, as they are.
LEMMA ConfigFrame ==
  ASSUME NEW c \in Names, ConfigInv(c), configs'[c] = configs[c],
         wanted'.configs[c] = wanted.configs[c], c \in excused => c \in excused',
         \A q \in Installers : /\ Rewrites(q, c)' <=> Rewrites(q, c)
                               /\ Emptied(q, c)' <=> Emptied(q, c)
  PROVE  ConfigInv(c)'
BY DEF ConfigInv

LEMMA ConfigStep ==
  ASSUME SetupTyped, NEW c \in Names, ConfigInv(c), [SetupNext]_setupVars
  PROVE  ConfigInv(c)'
<1> USE DEF shared, user, Wants
<1> DEFINE Files == Names \cup {"ignore", "settings"}
<1>1. /\ configs \in [Names -> {Missing, Garbled, "default", "edited"}]
      /\ wanted \in Wants
      /\ \A p \in Installers : Config(p) \in Names
  BY NamesDiffer DEF SetupTyped, SetupTypeOK, Config, Installer
<1>2. \A p \in Installers : \A f : Meets(p, f) =>
        /\ excused \subseteq excused' /\ (f # c => (c \in excused' <=> c \in excused))
        /\ f = c /\ c \notin excused' => \A q \in Installers \ {p} : ~Rewrites(q, c)
  BY DEF Meets
<1>3. \A p, q \in Installers : \A l : q # p /\ Moves(p, l) =>
        /\ Rewrites(q, c)' <=> Rewrites(q, c)
        /\ Emptied(q, c)' <=> Emptied(q, c)
  BY RewritesIs DEF Moves, Stage, Config
\* Steps of a process that neither is nor comes to be between look and write.
<1>4. ASSUME NEW p \in Installers, NEW l \in SetupStages \ {"create", "fill"}, Moves(p, l),
             Stage(p) \notin {"create", "fill"}, UNCHANGED <<configs, wanted>>,
             c \in excused => c \in excused'
      PROVE  ConfigInv(c)'
  <2>1. Rewrites(p, c)' <=> Rewrites(p, c)
    BY <1>4, RewritesIs DEF Moves, Stage
  <2>2. Emptied(p, c)' <=> Emptied(p, c)
    BY <1>4, RewritesIs DEF Moves, Stage
  <2> QED
    BY <1>3, <1>4, <2>1, <2>2, ConfigFrame
<1>5. ASSUME NEW p \in Installers, CheckConfig(p) PROVE ConfigInv(c)'
  <2>1. CASE configs[Config(p)] = Missing
    <3>1. Moves(p, "create") /\ Keeps(p, "n") /\ Meets(p, Config(p))
      BY <1>5, <2>1, Effects DEF CheckConfig, SetupStages
    <3>2. Config(p)' = Config(p)
      BY <3>1 DEF Config, Keeps
    <3>3. Rewrites(p, c)' <=> Config(p) = c
      BY <3>1, <3>2, RewritesIs DEF Moves, Stage
    <3>4. ~Rewrites(p, c) /\ ~Emptied(p, c) /\ ~Emptied(p, c)'
      BY <1>5, <3>1, RewritesIs DEF CheckConfig, Moves, Stage
    <3>5. UNCHANGED <<configs, wanted>>
      BY <1>5 DEF CheckConfig
    <3>6. CASE Config(p) # c
      BY <1>2, <1>3, <3>1, <3>3, <3>4, <3>5, <3>6, ConfigFrame
    <3>7. CASE Config(p) = c
      <4> SUFFICES ASSUME c \notin excused' PROVE ConfigInv(c)'
        BY DEF ConfigInv
      <4>1. c \notin excused /\ \A q \in Installers \ {p} : ~Rewrites(q, c)
        BY <1>2, <3>1, <3>7
      <4>2. \A q \in Installers \ {p} : ~Rewrites(q, c)' /\ ~Emptied(q, c) /\ ~Emptied(q, c)'
        BY <1>3, <3>1, <4>1, RewritesIs
      <4>3. configs[c] # Garbled /\ (configs[c] = "edited" <=> wanted.configs[c])
        BY <3>4, <4>1, <4>2 DEF ConfigInv
      <4>4. ~wanted.configs[c] /\ configs[c] = Missing
        BY <2>1, <3>7, <4>3, SetupSentinels
      <4> QED
        BY <3>3, <3>4, <3>5, <3>7, <4>2, <4>3, <4>4 DEF ConfigInv
    <3> QED
      BY <3>6, <3>7
  <2>2. CASE configs[Config(p)] # Missing
    <3>1. PICK l \in {"database", "config"} : Moves(p, l)
      BY <1>5, <2>2, Effects DEF CheckConfig
    <3> QED
      BY <1>4, <1>5, <2>2, <3>1 DEF CheckConfig, SetupStages
  <2> QED
    BY <2>1, <2>2
<1>6. ASSUME NEW p \in Installers, CreateConfig(p) PROVE ConfigInv(c)'
  <2>1. Moves(p, "fill") /\ Keeps(p, "n") /\ UNCHANGED <<wanted, excused>>
    BY <1>6, Effects DEF CreateConfig, SetupStages
  <2>2. Config(p)' = Config(p)
    BY <2>1 DEF Config, Keeps
  <2>3. /\ Rewrites(p, c) <=> Config(p) = c
        /\ Rewrites(p, c)' <=> Config(p) = c
        /\ Emptied(p, c)' <=> Config(p) = c
        /\ ~Emptied(p, c)
    BY <1>6, <2>1, <2>2, RewritesIs DEF CreateConfig, Moves, Stage
  <2>4. configs'[c] = IF c = Config(p) THEN Garbled ELSE configs[c]
    BY <1>1, <1>6 DEF CreateConfig
  <2>5. CASE Config(p) # c
    BY <1>3, <2>1, <2>3, <2>4, <2>5, ConfigFrame
  <2>6. CASE Config(p) = c
    BY <1>3, <2>1, <2>3, <2>6 DEF ConfigInv
  <2> QED
    BY <2>5, <2>6
<1>7. ASSUME NEW p \in Installers, FillConfig(p) PROVE ConfigInv(c)'
  <2>1. PICK l \in {"database", "config"} : Moves(p, l)
    BY <1>7, Effects DEF FillConfig
  <2>2. /\ Rewrites(p, c) <=> Config(p) = c
        /\ Emptied(p, c) <=> Config(p) = c
        /\ ~Rewrites(p, c)' /\ ~Emptied(p, c)'
    BY <1>7, <2>1, RewritesIs DEF FillConfig, Moves, Stage
  <2>3. configs'[c] = (IF c = Config(p) THEN "default" ELSE configs[c]) /\ UNCHANGED <<wanted, excused>>
    BY <1>1, <1>7 DEF FillConfig
  <2>4. CASE Config(p) # c
    BY <1>3, <2>1, <2>2, <2>3, <2>4, ConfigFrame
  <2>5. CASE Config(p) = c
    BY <1>3, <2>1, <2>2, <2>3, <2>5, SetupSentinels DEF ConfigInv
  <2> QED
    BY <2>4, <2>5
<1>8. ASSUME NEW p \in Installers,
             \/ CreateDatabase(p) \/ ReadIgnore(p) \/ OpenIgnore(p) \/ FillIgnore(p)
             \/ WriteScripts(p) \/ ReadSettings(p) \/ OpenSettings(p) \/ FillSettings(p)
      PROVE  ConfigInv(c)'
  <2>1. /\ Stage(p) \notin {"create", "fill"} /\ UNCHANGED <<configs, wanted>>
        /\ c \in excused => c \in excused'
    BY <1>2, <1>8 DEF CreateDatabase, ReadIgnore, OpenIgnore, FillIgnore, WriteScripts,
                      ReadSettings, OpenSettings, FillSettings
  <2>2. \E l \in SetupStages \ {"create", "fill"} : Moves(p, l)
    <3>1. CASE CreateDatabase(p) \/ OpenIgnore(p) \/ WriteScripts(p) \/ OpenSettings(p)
      BY <3>1, Effects DEF CreateDatabase, OpenIgnore, WriteScripts, OpenSettings, SetupStages
    <3>2. CASE FillIgnore(p)
      BY <3>2, Effects DEF FillIgnore, SetupStages
    <3> QED
      BY <1>8, <3>1, <3>2, FillSettingsIs, ReadIgnoreIs, ReadSettingsIs DEF SetupStages
  <2> QED
    BY <1>4, <2>1, <2>2
<1>9. ASSUME NEW p \in Installers, BeginSetup(p) PROVE ConfigInv(c)'
  <2>1. \A q \in Installers \ {p} : Stage(q)' = Stage(q) /\ Config(q)' = Config(q)
    BY <1>9, BeginsAt
  <2>2. Stage(p) \in {"idle", "done"} /\ Stage(p)' \in {"scripts", "config"}
    BY <1>9, BeginsAt
  <2>3. UNCHANGED <<configs, wanted, excused>>
    BY <1>9 DEF BeginSetup
  <2> QED
    BY <2>1, <2>2, <2>3, RewritesIs, ConfigFrame
<1>10. ASSUME NEW p \in Installers, AbortSetup(p) PROVE ConfigInv(c)'
  <2>1. Stage(p)' = "idle" /\ \A q \in Installers \ {p} : installer'[q] = installer[q]
    BY <1>10 DEF AbortSetup, SetupTyped, Stage, IdleInstaller
  <2>2. ~Rewrites(p, c)' /\ ~Emptied(p, c)'
    BY <2>1, RewritesIs
  <2>3. \A q \in Installers \ {p} : /\ Rewrites(q, c)' <=> Rewrites(q, c)
                                    /\ Emptied(q, c)' <=> Emptied(q, c)
    BY <2>1, RewritesIs DEF Stage, Config
  <2>4. c \notin excused' => c \notin excused /\ ~Emptied(p, c)
    BY <1>10 DEF AbortSetup
  <2>5. UNCHANGED <<configs, wanted>>
    BY <1>10 DEF AbortSetup
  <2> QED
    BY <2>2, <2>3, <2>4, <2>5 DEF ConfigInv
\* An edit leaves every process where it is.
<1>11. ASSUME NEW f \in Files, Edited(f)
       PROVE  /\ \A q \in Installers :
                   (Rewrites(q, c)' <=> Rewrites(q, c)) /\ (Emptied(q, c)' <=> Emptied(q, c))
              /\ f # c => (c \in excused' <=> c \in excused)
              /\ f = c /\ c \notin excused' => \A q \in Installers : ~Rewrites(q, c)
  <2>1. \A q \in Installers : Stage(q)' = Stage(q) /\ Config(q)' = Config(q)
    BY <1>11, EditedIs
  <2>2. \A q \in Installers : /\ Rewrites(q, c)' <=> Rewrites(q, c)
                              /\ Emptied(q, c)' <=> Emptied(q, c)
    BY <2>1, RewritesIs
  <2>3. excused' = IF \E q \in Installers : Rewrites(q, f) THEN excused \cup {f} ELSE excused \ {f}
    BY <1>11 DEF Edited
  <2> QED
    BY <2>2, <2>3
<1>12. ASSUME NEW d \in Names, EditConfig(d) PROVE ConfigInv(c)'
  <2>1. PICK keep \in BOOLEAN :
          /\ configs' = [configs EXCEPT ![d] = IF keep THEN "edited" ELSE Missing]
          /\ wanted'  = [wanted EXCEPT !.configs[d] = keep]
    BY <1>12 DEF EditConfig
  <2>2. Edited(d)
    BY <1>12 DEF EditConfig
  <2>3. CASE d # c
    <3>1. configs'[c] = configs[c] /\ wanted'.configs[c] = wanted.configs[c]
      BY <1>1, <2>1, <2>3
    <3> QED
      BY <1>11, <2>2, <2>3, <3>1, ConfigFrame
  <2>4. CASE d = c
    <3>1. configs'[c] = (IF keep THEN "edited" ELSE Missing) /\ wanted'.configs[c] = keep
      BY <1>1, <2>1, <2>4
    <3>2. c \notin excused' => \A q \in Installers : ~Rewrites(q, c)'
      BY <1>11, <2>2, <2>4
    <3> QED
      BY <3>1, <3>2, SetupSentinels DEF ConfigInv
  <2> QED
    BY <2>3, <2>4
<1>13. ASSUME EditIgnore \/ EditSettings PROVE ConfigInv(c)'
  <2>1. (Edited("ignore") \/ Edited("settings")) /\ configs' = configs /\ wanted'.configs = wanted.configs
    BY <1>1, <1>13 DEF EditIgnore, EditSettings
  <2>2. c \notin {"ignore", "settings"}
    BY NamesDiffer
  <2> QED
    BY <1>11, <2>1, <2>2, ConfigFrame
<1>14. CASE UNCHANGED setupVars
  <2>1. \A q \in Installers : /\ Rewrites(q, c)' <=> Rewrites(q, c)
                              /\ Emptied(q, c)' <=> Emptied(q, c)
    BY <1>14, RewritesIs DEF setupVars, Stage, Config
  <2> QED
    BY <1>14, <2>1, ConfigFrame DEF setupVars
<1> QED
  BY <1>5, <1>6, <1>7, <1>8, <1>9, <1>10, <1>12, <1>13, <1>14 DEF SetupNext, SetupStep

-----------------------------------------------------------------------------
(* .gitignore.                                                             *)

LEMMA IgnoreFrame ==
  ASSUME IgnoreInv, ignore' = ignore, wanted'.ignore = wanted.ignore,
         "ignore" \in excused => "ignore" \in excused',
         \A q \in Installers :
           /\ Rewrites(q, "ignore")' <=> Rewrites(q, "ignore")
           /\ Emptied(q, "ignore")' <=> Emptied(q, "ignore")
           /\ Rewrites(q, "ignore") => installer'[q].lines = installer[q].lines
  PROVE  IgnoreInv'
BY DEF IgnoreInv, IgnoreLines

LEMMA IgnoreStep ==
  ASSUME SetupTyped, IgnoreInv, [SetupNext]_setupVars
  PROVE  IgnoreInv'
<1> USE DEF shared, user, Wants
<1> DEFINE Mid == {"open ignore", "fill ignore"}
<1>1. /\ wanted \in Wants
      /\ ignore = Missing \/ ignore \subseteq Entries \cup {Own}
      /\ \A p \in Installers : Config(p) \in Names /\ installer[p].lines \subseteq Entries
  BY NamesDiffer DEF SetupTyped, SetupTypeOK, Config, Installer
<1>2. \A p \in Installers : \A f : Meets(p, f) =>
        /\ excused \subseteq excused'
        /\ f = "ignore" /\ "ignore" \notin excused' => \A q \in Installers \ {p} : ~Rewrites(q, "ignore")
  BY DEF Meets
<1>3. \A p, q \in Installers : \A l : q # p /\ Moves(p, l) =>
        /\ Rewrites(q, "ignore")' <=> Rewrites(q, "ignore")
        /\ Emptied(q, "ignore")' <=> Emptied(q, "ignore")
        /\ installer'[q].lines = installer[q].lines
  BY SharedIs DEF Moves, Stage
<1>4. ASSUME NEW p \in Installers, NEW l \in SetupStages \ Mid, Moves(p, l),
             Stage(p) \notin Mid, UNCHANGED <<ignore, wanted>>,
             "ignore" \in excused => "ignore" \in excused'
      PROVE  IgnoreInv'
  <2>1. ~Rewrites(p, "ignore") /\ ~Rewrites(p, "ignore")'
    BY <1>4, SharedIs DEF Moves, Stage
  <2>2. ~Emptied(p, "ignore") /\ ~Emptied(p, "ignore")'
    BY <1>4, SharedIs DEF Moves, Stage
  <2> QED
    BY <1>3, <1>4, <2>1, <2>2, IgnoreFrame
<1>5. ASSUME NEW p \in Installers, ReadIgnore(p) PROVE IgnoreInv'
  <2>1. Stage(p) = "ignore" /\ UNCHANGED <<ignore, wanted>>
    BY <1>5 DEF ReadIgnore
  <2>2. CASE Own \in IgnoreLines
    BY <1>4, <1>5, <2>1, <2>2, ReadIgnoreIs DEF SetupStages
  <2>3. CASE Own \notin IgnoreLines
    <3>1. Moves(p, "open ignore") /\ installer'[p].lines = IgnoreLines /\ Meets(p, "ignore")
      BY <1>5, <2>3, ReadIgnoreIs
    <3>2. Rewrites(p, "ignore")' /\ ~Rewrites(p, "ignore") /\ ~Emptied(p, "ignore") /\ ~Emptied(p, "ignore")'
      BY <2>1, <3>1, SharedIs DEF Moves, Stage
    <3> SUFFICES ASSUME "ignore" \notin excused' PROVE IgnoreInv'
      BY DEF IgnoreInv
    <3>3. "ignore" \notin excused /\ \A q \in Installers \ {p} : ~Rewrites(q, "ignore")
      BY <1>2, <3>1
    <3>4. \A q \in Installers \ {p} : /\ ~Rewrites(q, "ignore")'
                                      /\ ~Emptied(q, "ignore") /\ ~Emptied(q, "ignore")'
      BY <1>3, <3>1, <3>3, SharedIs
    <3>5. IgnoreLines \cap Entries = wanted.ignore
      BY <3>2, <3>3, <3>4 DEF IgnoreInv
    <3>6. IgnoreLines = wanted.ignore /\ IgnoreLines' = IgnoreLines
      BY <1>1, <2>1, <2>3, <3>5 DEF IgnoreLines
    <3> QED
      BY <2>1, <3>1, <3>2, <3>4, <3>6, <3>5 DEF IgnoreInv
  <2> QED
    BY <2>2, <2>3
<1>6. ASSUME NEW p \in Installers, OpenIgnore(p) PROVE IgnoreInv'
  <2>1. Moves(p, "fill ignore") /\ Keeps(p, "lines") /\ UNCHANGED <<wanted, excused>>
    BY <1>6, Effects DEF OpenIgnore, SetupStages
  <2>2. Rewrites(p, "ignore") /\ Rewrites(p, "ignore")' /\ Emptied(p, "ignore")'
    BY <1>6, <2>1, SharedIs DEF OpenIgnore, Moves, Stage
  <2> QED
    BY <1>3, <2>1, <2>2 DEF IgnoreInv, Keeps
<1>7. ASSUME NEW p \in Installers, FillIgnore(p) PROVE IgnoreInv'
  <2>1. PICK l \in {"done", "scripts"} : Moves(p, l)
    BY <1>7, Effects DEF FillIgnore
  <2>2. Rewrites(p, "ignore") /\ ~Rewrites(p, "ignore")' /\ ~Emptied(p, "ignore")'
    BY <1>7, <2>1, SharedIs DEF FillIgnore, Moves, Stage
  <2>3. UNCHANGED <<wanted, excused>> /\ ignore' = installer[p].lines \cup {Own}
    BY <1>7 DEF FillIgnore
  <2>4. IgnoreLines' \cap Entries = installer[p].lines
    <3>1. IgnoreLines' = installer[p].lines \cup {Own}
      BY <1>1, <2>3, SetupSentinels DEF IgnoreLines
    <3> QED
      BY <1>1, <3>1, SetupConstants
  <2> QED
    BY <1>3, <2>1, <2>2, <2>3, <2>4 DEF IgnoreInv
<1>8. ASSUME NEW p \in Installers,
             \/ CheckConfig(p) \/ CreateConfig(p) \/ FillConfig(p) \/ CreateDatabase(p)
             \/ WriteScripts(p) \/ ReadSettings(p) \/ OpenSettings(p) \/ FillSettings(p)
      PROVE  IgnoreInv'
  <2>1. /\ Stage(p) \notin Mid /\ UNCHANGED <<ignore, wanted>>
        /\ "ignore" \in excused => "ignore" \in excused'
    BY <1>2, <1>8 DEF CheckConfig, CreateConfig, FillConfig, CreateDatabase, WriteScripts,
                      ReadSettings, OpenSettings, FillSettings
  <2>2. \E l \in SetupStages \ Mid : Moves(p, l)
    <3>1. CASE CreateConfig(p) \/ CreateDatabase(p) \/ WriteScripts(p) \/ OpenSettings(p)
      BY <3>1, Effects DEF CreateConfig, CreateDatabase, WriteScripts, OpenSettings, SetupStages
    <3>2. CASE CheckConfig(p) \/ FillConfig(p)
      BY <3>2, Effects DEF CheckConfig, FillConfig, SetupStages
    <3> QED
      BY <1>8, <3>1, <3>2, FillSettingsIs, ReadSettingsIs DEF SetupStages
  <2> QED
    BY <1>4, <2>1, <2>2
<1>9. ASSUME NEW p \in Installers, BeginSetup(p) PROVE IgnoreInv'
  <2>1. /\ Stage(p) \notin Mid /\ Stage(p)' \notin Mid
        /\ \A q \in Installers \ {p} : Stage(q)' = Stage(q) /\ installer'[q].lines = installer[q].lines
    BY <1>9, BeginsAt
  <2>2. UNCHANGED <<ignore, wanted, excused>>
    BY <1>9 DEF BeginSetup
  <2> QED
    BY <2>1, <2>2, SharedIs, IgnoreFrame
<1>10. ASSUME NEW p \in Installers, AbortSetup(p) PROVE IgnoreInv'
  <2>1. Stage(p)' = "idle" /\ \A q \in Installers \ {p} : installer'[q] = installer[q]
    BY <1>10 DEF AbortSetup, SetupTyped, Stage, IdleInstaller
  <2>2. ~Rewrites(p, "ignore")' /\ ~Emptied(p, "ignore")'
    BY <2>1, SharedIs
  <2>3. \A q \in Installers \ {p} : /\ Rewrites(q, "ignore")' <=> Rewrites(q, "ignore")
                                    /\ Emptied(q, "ignore")' <=> Emptied(q, "ignore")
    BY <2>1, SharedIs DEF Stage
  <2>4. "ignore" \notin excused' => "ignore" \notin excused /\ ~Emptied(p, "ignore")
    BY <1>10 DEF AbortSetup
  <2>5. UNCHANGED <<ignore, wanted>>
    BY <1>10 DEF AbortSetup
  <2> QED
    BY <2>1, <2>2, <2>3, <2>4, <2>5 DEF IgnoreInv, IgnoreLines
<1>11. ASSUME EditIgnore PROVE IgnoreInv'
  <2>1. PICK lines \in SUBSET (Entries \cup {Own}) :
          ignore' = lines /\ wanted' = [wanted EXCEPT !.ignore = lines \cap Entries]
    BY <1>11 DEF EditIgnore
  <2>2. IgnoreLines' \cap Entries = wanted'.ignore
    BY <1>1, <2>1, SetupSentinels DEF IgnoreLines
  <2>3. \A q \in Installers : Stage(q)' = Stage(q)
    BY <1>11, EditedIs DEF EditIgnore
  <2>4. "ignore" \notin excused' => \A q \in Installers : ~Rewrites(q, "ignore")
    BY <1>11, EditedIs DEF EditIgnore
  <2> QED
    BY <2>2, <2>3, <2>4, SharedIs DEF IgnoreInv
<1>12. ASSUME EditSettings \/ \E c \in Names : EditConfig(c) PROVE IgnoreInv'
  <2>1. PICK f \in Names \cup {"settings"} : Edited(f)
    BY <1>12 DEF EditSettings, EditConfig
  <2>2. UNCHANGED ignore /\ wanted'.ignore = wanted.ignore
    BY <1>1, <1>12 DEF EditSettings, EditConfig
  <2>3. f # "ignore"
    BY NamesDiffer
  <2>4. "ignore" \in excused => "ignore" \in excused'
    BY <2>1, <2>3, EditedIs
  <2>5. \A q \in Installers : Stage(q)' = Stage(q) /\ installer'[q].lines = installer[q].lines
    BY <2>1, EditedIs
  <2> QED
    BY <2>2, <2>4, <2>5, SharedIs, IgnoreFrame
<1>13. CASE UNCHANGED setupVars
  BY <1>13, SharedIs, IgnoreFrame DEF setupVars, Stage
<1> QED
  BY <1>5, <1>6, <1>7, <1>8, <1>9, <1>10, <1>11, <1>12, <1>13 DEF SetupNext, SetupStep

-----------------------------------------------------------------------------
(* .claude/settings.json.                                                  *)

LEMMA SettingsFrame ==
  ASSUME SettingsInv, settings' = settings, wanted'.settings = wanted.settings,
         "settings" \in excused => "settings" \in excused',
         \A q \in Installers :
           /\ Rewrites(q, "settings")' <=> Rewrites(q, "settings")
           /\ Emptied(q, "settings")' <=> Emptied(q, "settings")
           /\ Rewrites(q, "settings") => installer'[q].merged = installer[q].merged
  PROVE  SettingsInv'
BY DEF SettingsInv, InForce

LEMMA SettingsStep ==
  ASSUME SetupTyped, SettingsInv, [SetupNext]_setupVars
  PROVE  SettingsInv'
<1> USE DEF shared, user, Wants
<1> DEFINE Mid == {"open settings", "fill settings"}
<1>1. /\ wanted \in Wants
      /\ \A p \in Installers : Config(p) \in Names /\ installer[p].merged \in Settings
  BY NamesDiffer DEF SetupTyped, SetupTypeOK, Config, Installer
<1>2. \A p \in Installers : \A f : Meets(p, f) =>
        /\ excused \subseteq excused'
        /\ f = "settings" /\ "settings" \notin excused' =>
             \A q \in Installers \ {p} : ~Rewrites(q, "settings")
  BY DEF Meets
<1>3. \A p, q \in Installers : \A l : q # p /\ Moves(p, l) =>
        /\ Rewrites(q, "settings")' <=> Rewrites(q, "settings")
        /\ Emptied(q, "settings")' <=> Emptied(q, "settings")
        /\ installer'[q].merged = installer[q].merged
  BY SharedIs DEF Moves, Stage
<1>4. ASSUME NEW p \in Installers, NEW l \in SetupStages \ Mid, Moves(p, l),
             Stage(p) \notin Mid, UNCHANGED <<settings, wanted>>,
             "settings" \in excused => "settings" \in excused'
      PROVE  SettingsInv'
  <2>1. ~Rewrites(p, "settings") /\ ~Rewrites(p, "settings")'
    BY <1>4, SharedIs DEF Moves, Stage
  <2>2. ~Emptied(p, "settings") /\ ~Emptied(p, "settings")'
    BY <1>4, SharedIs DEF Moves, Stage
  <2> QED
    BY <1>3, <1>4, <2>1, <2>2, SettingsFrame
<1>5. ASSUME NEW p \in Installers, ReadSettings(p) PROVE SettingsInv'
  <2>1. Stage(p) = "settings" /\ UNCHANGED <<settings, wanted>>
    BY <1>5 DEF ReadSettings
  <2>2. CASE Moves(p, "done") /\ UNCHANGED excused
    BY <1>4, <2>1, <2>2 DEF SetupStages
  <2>3. CASE /\ Moves(p, "open settings") /\ Meets(p, "settings")
             /\ installer'[p].merged.foreign = InForce.foreign
    <3>1. /\ Rewrites(p, "settings")' /\ ~Emptied(p, "settings")'
          /\ ~Rewrites(p, "settings") /\ ~Emptied(p, "settings")
      BY <2>1, <2>3, SharedIs DEF Moves, Stage
    <3> SUFFICES ASSUME "settings" \notin excused' PROVE SettingsInv'
      BY DEF SettingsInv
    <3>3. "settings" \notin excused /\ \A q \in Installers \ {p} : ~Rewrites(q, "settings")
      BY <1>2, <2>3
    <3>4. \A q \in Installers \ {p} : /\ ~Rewrites(q, "settings")'
                                      /\ ~Emptied(q, "settings") /\ ~Emptied(q, "settings")'
      BY <1>3, <2>3, <3>3, SharedIs
    <3>5. /\ InForce.foreign = wanted.settings.foreign
          /\ settings = Garbled => ~wanted.settings.parses
      BY <3>1, <3>3, <3>4 DEF SettingsInv
    <3>6. InForce' = InForce
      BY <2>1 DEF InForce
    <3> QED
      BY <2>1, <2>3, <3>1, <3>4, <3>5, <3>6 DEF SettingsInv
  <2> QED
    BY <1>5, <2>2, <2>3, ReadSettingsIs
<1>6. ASSUME NEW p \in Installers, OpenSettings(p) PROVE SettingsInv'
  <2>1. Moves(p, "fill settings") /\ Keeps(p, "merged") /\ UNCHANGED <<wanted, excused>>
    BY <1>6, Effects DEF OpenSettings, SetupStages
  <2>2. Rewrites(p, "settings") /\ Rewrites(p, "settings")' /\ Emptied(p, "settings")'
    BY <1>6, <2>1, SharedIs DEF OpenSettings, Moves, Stage
  <2> QED
    BY <1>3, <2>1, <2>2 DEF SettingsInv, Keeps
<1>7. ASSUME NEW p \in Installers, FillSettings(p) PROVE SettingsInv'
  <2>1. Moves(p, "done")
    BY <1>7, FillSettingsIs
  <2>2. Rewrites(p, "settings") /\ ~Rewrites(p, "settings")' /\ ~Emptied(p, "settings")'
    BY <1>7, <2>1, SharedIs DEF FillSettings, Moves, Stage
  <2>3. UNCHANGED <<wanted, excused>> /\ settings' = installer[p].merged
    BY <1>7 DEF FillSettings
  <2>4. InForce' = installer[p].merged /\ settings' # Garbled
    BY <1>1, <2>3, SetupSentinels DEF InForce
  <2> QED
    BY <1>3, <2>1, <2>2, <2>3, <2>4 DEF SettingsInv
<1>8. ASSUME NEW p \in Installers,
             \/ CheckConfig(p) \/ CreateConfig(p) \/ FillConfig(p) \/ CreateDatabase(p)
             \/ ReadIgnore(p) \/ OpenIgnore(p) \/ FillIgnore(p) \/ WriteScripts(p)
      PROVE  SettingsInv'
  <2>1. /\ Stage(p) \notin Mid /\ UNCHANGED <<settings, wanted>>
        /\ "settings" \in excused => "settings" \in excused'
    BY <1>2, <1>8 DEF CheckConfig, CreateConfig, FillConfig, CreateDatabase, WriteScripts,
                      ReadIgnore, OpenIgnore, FillIgnore
  <2>2. \E l \in SetupStages \ Mid : Moves(p, l)
    <3>1. CASE CreateConfig(p) \/ CreateDatabase(p) \/ WriteScripts(p) \/ OpenIgnore(p)
      BY <3>1, Effects DEF CreateConfig, CreateDatabase, WriteScripts, OpenIgnore, SetupStages
    <3>2. CASE CheckConfig(p) \/ FillConfig(p)
      BY <3>2, Effects DEF CheckConfig, FillConfig, SetupStages
    <3>3. CASE ReadIgnore(p) \/ FillIgnore(p)
      BY <3>3, Effects, ReadIgnoreIs DEF FillIgnore, SetupStages
    <3> QED
      BY <1>8, <3>1, <3>2, <3>3
  <2> QED
    BY <1>4, <2>1, <2>2
<1>9. ASSUME NEW p \in Installers, BeginSetup(p) PROVE SettingsInv'
  <2>1. /\ Stage(p) \notin Mid /\ Stage(p)' \notin Mid
        /\ \A q \in Installers \ {p} : Stage(q)' = Stage(q) /\ installer'[q].merged = installer[q].merged
    BY <1>9, BeginsAt
  <2>2. UNCHANGED <<settings, wanted, excused>>
    BY <1>9 DEF BeginSetup
  <2> QED
    BY <2>1, <2>2, SharedIs, SettingsFrame
<1>10. ASSUME NEW p \in Installers, AbortSetup(p) PROVE SettingsInv'
  <2>1. Stage(p)' = "idle" /\ \A q \in Installers \ {p} : installer'[q] = installer[q]
    BY <1>10 DEF AbortSetup, SetupTyped, Stage, IdleInstaller
  <2>2. ~Rewrites(p, "settings")' /\ ~Emptied(p, "settings")'
    BY <2>1, SharedIs
  <2>3. \A q \in Installers \ {p} : /\ Rewrites(q, "settings")' <=> Rewrites(q, "settings")
                                    /\ Emptied(q, "settings")' <=> Emptied(q, "settings")
    BY <2>1, SharedIs DEF Stage
  <2>4. "settings" \notin excused' => "settings" \notin excused /\ ~Emptied(p, "settings")
    BY <1>10 DEF AbortSetup
  <2>5. UNCHANGED <<settings, wanted>>
    BY <1>10 DEF AbortSetup
  <2> QED
    BY <2>1, <2>2, <2>3, <2>4, <2>5 DEF SettingsInv, InForce
<1>11. ASSUME EditSettings PROVE SettingsInv'
  <2>2. /\ InForce'.foreign = wanted'.settings.foreign
        /\ settings' = Garbled => ~wanted'.settings.parses
    BY <1>11, SettingsEdited, SetupSentinels DEF InForce, NoSettings
  <2>3. \A q \in Installers : Stage(q)' = Stage(q)
    BY <1>11, EditedIs DEF EditSettings
  <2>4. "settings" \notin excused' => \A q \in Installers : ~Rewrites(q, "settings")
    BY <1>11, EditedIs DEF EditSettings
  <2> QED
    BY <2>2, <2>3, <2>4, SharedIs DEF SettingsInv
<1>12. ASSUME EditIgnore \/ \E c \in Names : EditConfig(c) PROVE SettingsInv'
  <2>1. PICK f \in Names \cup {"ignore"} : Edited(f)
    BY <1>12 DEF EditIgnore, EditConfig
  <2>2. UNCHANGED settings /\ wanted'.settings = wanted.settings
    BY <1>1, <1>12 DEF EditIgnore, EditConfig
  <2>3. f # "settings"
    BY NamesDiffer
  <2>4. "settings" \in excused => "settings" \in excused'
    BY <2>1, <2>3, EditedIs
  <2>5. \A q \in Installers : Stage(q)' = Stage(q) /\ installer'[q].merged = installer[q].merged
    BY <2>1, EditedIs
  <2> QED
    BY <2>2, <2>4, <2>5, SharedIs, SettingsFrame
<1>13. CASE UNCHANGED setupVars
  BY <1>13, SharedIs, SettingsFrame DEF setupVars, Stage
<1> QED
  BY <1>5, <1>6, <1>7, <1>8, <1>9, <1>10, <1>11, <1>12, <1>13 DEF SetupNext, SetupStep

-----------------------------------------------------------------------------
(* The registration.                                                       *)

LEMMA RegistersStep ==
  ASSUME SetupTyped, Registers, [SetupNext]_setupVars
  PROVE  Registers'
<1> USE DEF shared, user
<1> DEFINE Late == {"settings", "open settings", "fill settings"}
           Mid  == {"open settings", "fill settings"}
\* A step that leaves settings.json alone and brings nobody there.
<1>1. ASSUME InForce' = InForce, made \subseteq made',
             \A q \in Installers : Stage(q)' \in Late =>
               Stage(q)' = Stage(q) /\ installer'[q].merged = installer[q].merged
      PROVE  Registers'
  <2>1. RegisteredOnce'
    BY <1>1 DEF Registers, RegisteredOnce
  <2> QED
    BY <1>1, <2>1 DEF Registers
<1>2. ASSUME NEW p \in Installers, NEW l \in SetupStages \ Late, Moves(p, l),
             InForce' = InForce, made \subseteq made'
      PROVE  Registers'
  BY <1>1, <1>2 DEF Moves, Stage
<1>3. ASSUME NEW p \in Installers,
             \/ CheckConfig(p) \/ CreateConfig(p) \/ FillConfig(p) \/ CreateDatabase(p)
             \/ ReadIgnore(p) \/ OpenIgnore(p) \/ FillIgnore(p)
      PROVE  Registers'
  <2>1. InForce' = InForce /\ made \subseteq made'
    BY <1>3 DEF CheckConfig, CreateConfig, FillConfig, CreateDatabase,
                ReadIgnore, OpenIgnore, FillIgnore, InForce
  <2>2. \E l \in SetupStages \ Late : Moves(p, l)
    <3>1. CASE CreateConfig(p) \/ CreateDatabase(p) \/ OpenIgnore(p)
      BY <3>1, Effects DEF CreateConfig, CreateDatabase, OpenIgnore, SetupStages
    <3>2. CASE CheckConfig(p) \/ FillConfig(p)
      BY <3>2, Effects DEF CheckConfig, FillConfig, SetupStages
    <3>3. CASE ReadIgnore(p) \/ FillIgnore(p)
      BY <3>3, Effects, ReadIgnoreIs DEF FillIgnore, SetupStages
    <3> QED
      BY <1>3, <3>1, <3>2, <3>3
  <2> QED
    BY <1>2, <2>1, <2>2
<1>4. ASSUME NEW p \in Installers, WriteScripts(p) PROVE Registers'
  <2>1. Moves(p, "settings") /\ InForce' = InForce /\ "scripts" \in made'
    BY <1>4, Effects DEF WriteScripts, SetupStages, InForce
  <2> QED
    BY <2>1 DEF Registers, RegisteredOnce, Moves, Stage
<1>5. ASSUME NEW p \in Installers, ReadSettings(p) PROVE Registers'
  <2>1. Stage(p) = "settings" /\ InForce' = InForce /\ made' = made
    BY <1>5 DEF ReadSettings, InForce
  <2>2. CASE Moves(p, "done")
    BY <1>2, <2>1, <2>2 DEF SetupStages
  <2>3. CASE /\ Moves(p, "open settings")
             /\ \A e \in Events : installer'[p].merged.own[e] =
                  IF InForce.own[e] > 0 THEN InForce.own[e] ELSE 1
    <3>1. \A e \in Events : installer'[p].merged.own[e] = 1
      <4>1. \A e \in Events : InForce.own[e] > 0 => InForce.own[e] = 1
        BY DEF Registers, RegisteredOnce
      <4>2. \A e \in Events : InForce.own[e] \in Nat
        BY IdleTyped DEF SetupTyped, SetupTypeOK, InForce, Settings
      <4> TAKE e \in Events
      <4>3. installer'[p].merged.own[e] = IF InForce.own[e] > 0 THEN InForce.own[e] ELSE 1
        BY <2>3
      <4>4. CASE InForce.own[e] > 0
        BY <4>1, <4>3, <4>4
      <4>5. CASE ~(InForce.own[e] > 0)
        BY <4>3, <4>5
      <4> QED
        BY <4>4, <4>5
    <3>2. RegisteredOnce'
      BY <2>1 DEF Registers, RegisteredOnce
    <3> QED
      BY <2>1, <2>3, <3>1, <3>2 DEF Registers, Moves, Stage
  <2> QED
    BY <1>5, <2>2, <2>3, ReadSettingsIs
<1>6. ASSUME NEW p \in Installers, OpenSettings(p) PROVE Registers'
  <2>1. Moves(p, "fill settings") /\ Keeps(p, "merged") /\ Stage(p) = "open settings"
    BY <1>6, Effects DEF OpenSettings, SetupStages
  <2>2. InForce' = NoSettings /\ made' = made
    BY <1>6 DEF OpenSettings, InForce
  <2>3. RegisteredOnce'
    BY <2>2 DEF RegisteredOnce, NoSettings
  <2> QED
    BY <2>1, <2>2, <2>3 DEF Registers, Moves, Keeps, Stage
<1>7. ASSUME NEW p \in Installers, FillSettings(p) PROVE Registers'
  <2>1. Moves(p, "done") /\ made' = made /\ settings' = installer[p].merged /\ Stage(p) = "fill settings"
    BY <1>7, FillSettingsIs DEF FillSettings
  <2>2. InForce' = installer[p].merged
    <3>1. installer[p].merged \in Settings
      BY DEF SetupTyped, Installer
    <3> QED
      BY <2>1, <3>1, SetupSentinels DEF InForce
  <2>3. RegisteredOnce'
    BY <2>1, <2>2 DEF Registers, RegisteredOnce
  <2> QED
    BY <2>1, <2>3 DEF Registers, Moves, Stage
<1>8. ASSUME NEW p \in Installers, BeginSetup(p) PROVE Registers'
  <2>1. InForce' = InForce /\ made' = made
    BY <1>8 DEF BeginSetup, InForce
  <2> QED
    BY <1>1, <1>8, <2>1, BeginsAt
<1>9. ASSUME NEW p \in Installers, AbortSetup(p) PROVE Registers'
  <2>1. Stage(p)' = "idle" /\ \A q \in Installers \ {p} : installer'[q] = installer[q]
    BY <1>9 DEF AbortSetup, SetupTyped, Stage, IdleInstaller
  <2>2. InForce' = InForce /\ made' = made
    BY <1>9 DEF AbortSetup, InForce
  <2> QED
    BY <1>1, <2>1, <2>2 DEF Stage
<1>10. ASSUME EditIgnore \/ \E c \in Names : EditConfig(c) PROVE Registers'
  <2>1. PICK f : Edited(f)
    BY <1>10 DEF EditIgnore, EditConfig
  <2>2. InForce' = InForce
    BY <1>10 DEF EditIgnore, EditConfig, InForce
  <2> QED
    BY <1>1, <2>1, <2>2, EditedIs
<1>11. ASSUME EditSettings PROVE Registers'
  <2>1. Edited("settings")
    BY <1>11 DEF EditSettings
  <2>2. \A e \in Events : InForce'.own[e] \in {0, InForce.own[e]}
    <3>1. CASE settings' = Garbled
      BY <3>1 DEF InForce, NoSettings
    <3>2. CASE settings' # Garbled
      BY <1>11, <3>2, SettingsEdited, SetupSentinels DEF InForce
    <3> QED
      BY <3>1, <3>2
  <2>3. RegisteredOnce'
    <3>1. \A e \in Events : InForce.own[e] > 0 => InForce.own[e] = 1 /\ "scripts" \in made
      BY DEF Registers, RegisteredOnce
    <3>2. made' = made
      BY <2>1, EditedIs
    <3> QED
      BY <2>2, <3>1, <3>2 DEF RegisteredOnce
  <2> QED
    BY <2>1, <2>3, EditedIs DEF Registers
<1>12. CASE UNCHANGED setupVars
  BY <1>1, <1>12 DEF setupVars, InForce, Stage
<1> QED
  BY <1>3, <1>4, <1>5, <1>6, <1>7, <1>8, <1>9, <1>10, <1>11, <1>12 DEF SetupNext, SetupStep

LEMMA OpsFitStep ==
  ASSUME SetupTyped, OpsFit, [SetupNext]_setupVars
  PROVE  OpsFit'
<1> USE DEF shared, user
<1> DEFINE Late == {"scripts", "settings", "open settings", "fill settings"}
<1>1. \A p \in Installers : installer[p].op \in {"init", "install"}
  BY DEF SetupTyped, Installer
<1>2. ASSUME NEW p \in Installers, NEW l, Moves(p, l), l \in Late => installer[p].op = "install"
      PROVE  OpsFit'
  BY <1>2 DEF OpsFit, Moves, Stage
<1>3. ASSUME NEW p \in Installers,
             CheckConfig(p) \/ CreateConfig(p) \/ FillConfig(p) \/ CreateDatabase(p) \/ OpenIgnore(p)
      PROVE  OpsFit'
  <2>1. \E l \in SetupStages \ Late : Moves(p, l)
    <3>1. CASE CreateConfig(p) \/ CreateDatabase(p) \/ OpenIgnore(p)
      BY <3>1, Effects DEF CreateConfig, CreateDatabase, OpenIgnore, SetupStages
    <3>2. CASE CheckConfig(p) \/ FillConfig(p)
      BY <3>2, Effects DEF CheckConfig, FillConfig, SetupStages
    <3> QED
      BY <1>3, <3>1, <3>2
  <2> QED
    BY <1>2, <2>1
<1>4. ASSUME NEW p \in Installers, ReadIgnore(p) \/ FillIgnore(p) PROVE OpsFit'
  <2>1. \/ Moves(p, "open ignore")
        \/ Moves(p, IF installer[p].op = "init" THEN "done" ELSE "scripts")
    BY <1>4, Effects, ReadIgnoreIs DEF FillIgnore
  <2> QED
    BY <1>1, <1>2, <2>1
<1>5. ASSUME NEW p \in Installers, WriteScripts(p) \/ ReadSettings(p) \/ OpenSettings(p) \/ FillSettings(p)
      PROVE  OpsFit'
  <2>1. installer[p].op = "install"
    BY <1>5 DEF OpsFit, WriteScripts, ReadSettings, OpenSettings, FillSettings
  <2>2. \E l : Moves(p, l)
    BY <1>5, Effects, ReadSettingsIs, FillSettingsIs DEF WriteScripts, OpenSettings, SetupStages
  <2> QED
    BY <1>2, <2>1, <2>2
<1>6. ASSUME NEW p \in Installers, BeginSetup(p) PROVE OpsFit'
  BY <1>6, BeginsAt DEF OpsFit, Stage
<1>7. ASSUME NEW p \in Installers, AbortSetup(p) PROVE OpsFit'
  BY <1>7 DEF AbortSetup, SetupTyped, Stage, IdleInstaller, OpsFit
<1>8. ASSUME EditIgnore \/ EditSettings \/ \E c \in Names : EditConfig(c) PROVE OpsFit'
  <2>1. PICK f : Edited(f)
    BY <1>8 DEF EditIgnore, EditSettings, EditConfig
  <2> QED
    BY <2>1, EditedIs DEF OpsFit
<1>9. CASE UNCHANGED setupVars
  BY <1>9 DEF setupVars, OpsFit, Stage
<1> QED
  BY <1>3, <1>4, <1>5, <1>6, <1>7, <1>8, <1>9 DEF SetupNext, SetupStep

-----------------------------------------------------------------------------
(* The run that meets nobody.                                              *)

LEMMA AloneStep ==
  ASSUME SetupTyped, Registers, OpsFit, Alone, [SetupNext]_setupVars
  PROVE  Alone'
<1> USE DEF shared, user
<1>1. /\ configs \in [Names -> {Missing, Garbled, "default", "edited"}]
      /\ \A p \in Installers :
           /\ installer[p] \in Installer /\ Config(p) \in Names
           /\ installer[p].n \in 1 .. Len(Configs) /\ Config(p) = Configs[installer[p].n]
      /\ "default" # Missing /\ Garbled # Missing
  BY NamesDiffer, SetupSentinels DEF SetupTyped, SetupTypeOK, Config, Installer
\* Whoever works ends the solitude of the others; his own lasts if he had it.
<1>2. ASSUME NEW p \in Installers, NEW l, Moves(p, l), Working(p),
             ~installer[p].met /\ HasMade(p) => HasMade(p)'
      PROVE  Alone'
  <2> SUFFICES ASSUME NEW q \in Installers, Stage(q)' # "idle", ~installer'[q].met
               PROVE  HasMade(q)' /\ \A r \in Installers \ {q} : ~Working(r)'
    BY DEF Alone
  <2>1. CASE q # p
    <3>1. Stage(q) # "idle" /\ ~installer[q].met
      BY <1>2, <2>1 DEF Moves, Stage
    <3>2. ~Working(p)
      BY <2>1, <3>1 DEF Alone
    <3> QED
      BY <1>2, <3>2
  <2>2. CASE q = p
    <3>1. Stage(p) # "idle" /\ ~installer[p].met
      BY <1>2, <2>2 DEF Moves, Working
    <3>2. HasMade(p) /\ \A r \in Installers \ {p} : ~Working(r)
      BY <3>1 DEF Alone
    <3>3. \A r \in Installers \ {p} : ~Working(r)'
      BY <1>2, <3>2 DEF Moves, Working, Stage
    <3> QED
      BY <1>2, <2>2, <3>1, <3>2, <3>3
  <2> QED
    BY <2>1, <2>2
<1>3. ASSUME NEW p \in Installers, AfterConfig(p), Stage(p) \in {"config", "create", "fill"}, HasMade(p),
             made' = made, configs'[Config(p)] # Missing,
             \A c \in Names : configs[c] # Missing => configs'[c] # Missing
      PROVE  HasMade(p)'
  <2>1. \A m \in 1 .. installer[p].n : configs'[Configs[m]] # Missing
    <3> TAKE m \in 1 .. installer[p].n
    <3>1. Configs[m] \in Names
      BY <1>1, NamesDiffer
    <3>2. CASE m = installer[p].n
      BY <1>1, <1>3, <3>2
    <3>3. CASE m # installer[p].n
      <4>1. m \in 1 .. installer[p].n - 1
        BY <1>1, <3>3
      <4> QED
        BY <1>3, <3>1, <4>1 DEF HasMade
    <3> QED
      BY <3>2, <3>3
  <2>2. CASE installer[p].n = Len(Configs)
    <3>1. Stage(p)' = "database"
      BY <1>3, <2>2, Effects DEF Moves, Stage
    <3>2. Configured'
      BY <2>1, <2>2 DEF Configured, Names
    <3> QED
      BY <3>1, <3>2 DEF HasMade
  <2>3. CASE installer[p].n # Len(Configs)
    <3>1. Stage(p)' = "config" /\ installer'[p].n = installer[p].n + 1
      BY <1>3, <2>3, Effects DEF Moves, Stage
    <3>2. installer'[p].n - 1 = installer[p].n
      BY <1>1, <3>1
    <3>3. \A m \in 1 .. installer'[p].n - 1 : configs'[Configs[m]] # Missing
      BY <2>1, <3>2
    <3> QED
      BY <3>1, <3>3 DEF HasMade
  <2> QED
    BY <2>2, <2>3
<1>4. ASSUME NEW p \in Installers, CheckConfig(p) PROVE Alone'
  <2>1. Working(p) /\ Stage(p) = "config" /\ UNCHANGED <<configs, made>>
    BY <1>4 DEF CheckConfig, Working
  <2>2. CASE configs[Config(p)] = Missing
    <3>1. Moves(p, "create") /\ Keeps(p, "n")
      BY <1>4, <2>2, Effects DEF CheckConfig, SetupStages
    <3>2. HasMade(p) => HasMade(p)'
      BY <2>1, <3>1 DEF HasMade, Moves, Keeps, Stage
    <3> QED
      BY <1>2, <2>1, <3>1, <3>2
  <2>3. CASE configs[Config(p)] # Missing
    <3>1. AfterConfig(p)
      BY <1>4, <2>3 DEF CheckConfig
    <3>2. \E l : Moves(p, l)
      BY <3>1, Effects
    <3>3. HasMade(p) => HasMade(p)'
      BY <1>3, <2>1, <2>3, <3>1
    <3> QED
      BY <1>2, <2>1, <3>2, <3>3
  <2> QED
    BY <2>2, <2>3
<1>5. ASSUME NEW p \in Installers, CreateConfig(p) PROVE Alone'
  <2>1. Moves(p, "fill") /\ Keeps(p, "n") /\ Working(p) /\ Stage(p) = "create"
    BY <1>5, Effects DEF CreateConfig, SetupStages, Working
  <2>2. \A c \in Names : configs[c] # Missing => configs'[c] # Missing
    BY <1>1, <1>5 DEF CreateConfig
  <2>3. \A m \in 1 .. installer[p].n - 1 : Configs[m] \in Names
    BY <1>1, NamesDiffer
  <2>4. HasMade(p) => HasMade(p)'
    BY <2>1, <2>2, <2>3 DEF HasMade, Moves, Keeps, Stage
  <2> QED
    BY <1>2, <2>1, <2>4
<1>6. ASSUME NEW p \in Installers, FillConfig(p) PROVE Alone'
  <2>1. Working(p) /\ Stage(p) = "fill" /\ AfterConfig(p) /\ made' = made
    BY <1>6 DEF FillConfig, Working
  <2>2. configs' = [configs EXCEPT ![Config(p)] = "default"]
    BY <1>6 DEF FillConfig
  <2>3. /\ configs'[Config(p)] # Missing
        /\ \A c \in Names : configs[c] # Missing => configs'[c] # Missing
    BY <1>1, <2>2
  <2>4. \E l : Moves(p, l)
    BY <2>1, Effects
  <2>5. HasMade(p) => HasMade(p)'
    BY <1>3, <2>1, <2>3
  <2> QED
    BY <1>2, <2>1, <2>4, <2>5
<1>7. ASSUME NEW p \in Installers, CreateDatabase(p) PROVE Alone'
  <2>1. Moves(p, "ignore") /\ Working(p) /\ Stage(p) = "database"
    BY <1>7, Effects DEF CreateDatabase, SetupStages, Working
  <2>2. "database" \in made' /\ configs' = configs
    BY <1>7 DEF CreateDatabase
  <2>3. HasMade(p) => HasMade(p)'
    BY <2>1, <2>2 DEF HasMade, Configured, Moves, Stage
  <2> QED
    BY <1>2, <2>1, <2>3
\* The end of init, or of its part of install.
<1>8. ASSUME NEW p \in Installers, Moves(p, IF installer[p].op = "init" THEN "done" ELSE "scripts"),
             Stage(p) \in {"ignore", "fill ignore"}, Own \in IgnoreLines', UNCHANGED <<configs, made>>
      PROVE  Alone'
  <2>1. ASSUME HasMade(p) PROVE HasMade(p)'
    <3>1. Configured' /\ Initialised'
      BY <1>8, <2>1, NamesDiffer DEF HasMade, Configured, Initialised
    <3>2. installer'[p].op = installer[p].op /\ Stage(p)' = IF installer[p].op = "init" THEN "done" ELSE "scripts"
      BY <1>8 DEF Moves, Stage
    <3> QED
      BY <1>8, <3>1, <3>2 DEF HasMade
  <2> QED
    BY <1>2, <1>8, <2>1 DEF Working
<1>9. ASSUME NEW p \in Installers, ReadIgnore(p) PROVE Alone'
  <2>1. Stage(p) = "ignore" /\ Working(p) /\ UNCHANGED <<configs, ignore, made>>
    BY <1>9 DEF ReadIgnore, Working
  <2>2. CASE Own \in IgnoreLines
    <3>1. Own \in IgnoreLines'
      BY <2>1, <2>2 DEF IgnoreLines
    <3> QED
      BY <1>8, <1>9, <2>1, <2>2, <3>1, ReadIgnoreIs
  <2>3. CASE Moves(p, "open ignore")
    <3>1. HasMade(p) => HasMade(p)'
      BY <2>1, <2>3 DEF HasMade, Configured, Moves, Stage
    <3> QED
      BY <1>2, <2>1, <2>3, <3>1
  <2> QED
    BY <1>9, <2>2, <2>3, ReadIgnoreIs
<1>10. ASSUME NEW p \in Installers, OpenIgnore(p) PROVE Alone'
  <2>1. Moves(p, "fill ignore") /\ Working(p) /\ Stage(p) = "open ignore" /\ UNCHANGED <<configs, made>>
    BY <1>10, Effects DEF OpenIgnore, SetupStages, Working
  <2>2. HasMade(p) => HasMade(p)'
    BY <2>1 DEF HasMade, Configured, Moves, Stage
  <2> QED
    BY <1>2, <2>1, <2>2
<1>11. ASSUME NEW p \in Installers, FillIgnore(p) PROVE Alone'
  <2>1. Stage(p) = "fill ignore" /\ AfterInit(p) /\ UNCHANGED <<configs, made>>
    BY <1>11 DEF FillIgnore
  <2>2. ignore' = installer[p].lines \cup {Own} /\ installer[p].lines \subseteq Entries
    BY <1>1, <1>11 DEF FillIgnore, Installer
  <2>3. Own \in IgnoreLines'
    BY <2>2, SetupSentinels DEF IgnoreLines
  <2> QED
    BY <1>8, <2>1, <2>3, Effects
<1>12. ASSUME NEW p \in Installers, NEW l \in {"settings", "open settings", "fill settings"},
              Moves(p, l), Stage(p) \in {"scripts", "settings", "open settings"},
              made \subseteq made', configs' = configs
       PROVE  Alone'
  <2>1. HasMade(p) => HasMade(p)'
    BY <1>12 DEF HasMade, Initialised, Moves, Stage
  <2> QED
    BY <1>2, <1>12, <2>1 DEF Working
<1>13. ASSUME NEW p \in Installers, WriteScripts(p) \/ OpenSettings(p) PROVE Alone'
  <2>1. /\ Moves(p, "settings") \/ Moves(p, "fill settings")
        /\ Stage(p) \in {"scripts", "open settings"} /\ made \subseteq made' /\ configs' = configs
    BY <1>13, Effects DEF WriteScripts, OpenSettings, SetupStages
  <2> QED
    BY <1>12, <2>1
\* The end of install.
<1>14. ASSUME NEW p \in Installers, Moves(p, "done"), Stage(p) \in {"settings", "fill settings"},
              UNCHANGED <<configs, made>>, \A e \in Events : InForce'.own[e] = 1
       PROVE  Alone'
  <2>1. installer'[p].op = "install" /\ Stage(p)' = "done"
    BY <1>14 DEF OpsFit, Moves, Stage
  <2>2. HasMade(p) => HasMade(p)'
    BY <1>14, <2>1 DEF HasMade, Initialised
  <2> QED
    BY <1>2, <1>14, <2>2 DEF Working
<1>15. ASSUME NEW p \in Installers, ReadSettings(p) PROVE Alone'
  <2>1. Stage(p) = "settings" /\ UNCHANGED <<configs, made>> /\ InForce' = InForce
    BY <1>15 DEF ReadSettings, InForce
  <2>2. CASE (\A e \in Events : InForce.own[e] > 0) /\ Moves(p, "done")
    <3>1. \A e \in Events : InForce.own[e] = 1
      BY <2>2 DEF Registers, RegisteredOnce
    <3> QED
      BY <1>14, <2>1, <2>2, <3>1
  <2>3. CASE Moves(p, "open settings")
    BY <1>12, <2>1, <2>3
  <2> QED
    BY <1>15, <2>2, <2>3, ReadSettingsIs
<1>16. ASSUME NEW p \in Installers, FillSettings(p) PROVE Alone'
  <2>1. Moves(p, "done") /\ Stage(p) = "fill settings" /\ UNCHANGED <<configs, made>>
    BY <1>16, FillSettingsIs DEF FillSettings
  <2>2. settings' = installer[p].merged /\ installer[p].merged \in Settings
    BY <1>1, <1>16 DEF FillSettings, Installer
  <2>3. InForce' = installer[p].merged
    BY <2>2, SetupSentinels DEF InForce
  <2>4. \A e \in Events : installer[p].merged.own[e] = 1
    BY <2>1 DEF Registers
  <2> QED
    BY <1>14, <2>1, <2>3, <2>4
<1>17. ASSUME NEW p \in Installers, BeginSetup(p) PROVE Alone'
  <2>1. ASSUME ~installer'[p].met
        PROVE  HasMade(p)' /\ \A q \in Installers \ {p} : ~Working(q)'
    <3>1. \A q \in Installers : ~Working(q)
      BY <1>17, <2>1, BeginsAt
    <3>2. \A q \in Installers \ {p} : ~Working(q)'
      BY <1>17, <3>1, BeginsAt DEF Working
    <3>3. UNCHANGED <<configs, made>>
      BY <1>17 DEF BeginSetup
    <3>4. CASE Stage(p)' = "config"
      <4>1. installer'[p].n = 1
        BY <1>17, BeginsAt
      <4>2. \A m \in 1 .. installer'[p].n - 1 : FALSE
        BY <4>1
      <4> QED
        BY <3>2, <3>4, <4>2 DEF HasMade
    <3>5. CASE Stage(p)' = "scripts" /\ Initialised
      BY <3>2, <3>3, <3>5 DEF HasMade, Initialised
    <3> QED
      BY <1>17, <3>4, <3>5, BeginsAt
  <2>2. \A q \in Installers \ {p} : installer'[q].met
    BY <1>17, BeginsAt
  <2> QED
    BY <2>1, <2>2 DEF Alone
<1>18. ASSUME NEW p \in Installers, AbortSetup(p) PROVE Alone'
  <2>1. Stage(p)' = "idle" /\ Working(p) /\ \A q \in Installers \ {p} : installer'[q] = installer[q]
    BY <1>18 DEF AbortSetup, SetupTyped, Stage, IdleInstaller
  <2>2. \A q \in Installers \ {p} : Stage(q) = "idle" \/ installer[q].met
    BY <2>1 DEF Alone
  <2> QED
    BY <2>1, <2>2 DEF Alone, Stage
<1>19. ASSUME EditIgnore \/ EditSettings \/ \E c \in Names : EditConfig(c) PROVE Alone'
  <2>1. PICK f : Edited(f)
    BY <1>19 DEF EditIgnore, EditSettings, EditConfig
  <2> QED
    BY <2>1, EditedIs DEF Alone
<1>20. CASE UNCHANGED setupVars
  BY <1>20 DEF setupVars, Alone, HasMade, Configured, Initialised, IgnoreLines, InForce, Working, Stage
<1> QED
  BY <1>4, <1>5, <1>6, <1>7, <1>9, <1>10, <1>11, <1>13, <1>15, <1>16, <1>17, <1>18, <1>19, <1>20
     DEF SetupNext, SetupStep

-----------------------------------------------------------------------------
(* Together.                                                               *)

LEMMA SetupInvInit == SetupInit => SetupInv
<1> SUFFICES ASSUME SetupInit PROVE SetupInv
  OBVIOUS
<1>1. SetupTyped
  BY SetupTypeInit
<1>2. \A p \in Installers : Stage(p) = "idle"
  BY DEF SetupInit, IdleInstaller, Stage
<1>3. \A c \in Names : configs[c] # Garbled /\ (configs[c] = "edited" <=> wanted.configs[c])
  BY SetupSentinels DEF SetupInit
<1>4. \A c \in Names : ConfigInv(c)
  BY <1>2, <1>3, RewritesIs DEF ConfigInv
<1>5. IgnoreLines \cap Entries = wanted.ignore
  <2>1. ignore # Missing => ignore = wanted.ignore /\ wanted.ignore \subseteq Entries
    BY DEF SetupInit
  <2>2. ignore = Missing => wanted.ignore = {}
    BY SetupSentinels DEF SetupInit
  <2> QED
    BY <2>1, <2>2 DEF IgnoreLines
<1>6. /\ InForce.foreign = wanted.settings.foreign /\ settings # Garbled
      /\ \A e \in Events : InForce.own[e] = 0
  <2>1. CASE wanted.settings.foreign = {}
    BY <2>1, SetupSentinels DEF SetupInit, InForce, NoSettings
  <2>2. CASE wanted.settings.foreign # {}
    <3>1. settings = [NoSettings EXCEPT !.foreign = Entries] /\ wanted.settings.foreign = Entries
      BY <2>2 DEF SetupInit
    <3>2. settings \in Settings /\ settings.foreign = Entries /\ \A e \in Events : settings.own[e] = 0
      BY <3>1, IdleTyped DEF NoSettings, Settings
    <3> QED
      BY <3>1, <3>2, SetupSentinels DEF InForce
  <2> QED
    BY <2>1, <2>2
<1>7. IgnoreInv /\ SettingsInv
  BY <1>2, <1>5, <1>6, SharedIs DEF IgnoreInv, SettingsInv
<1>8. Registers /\ Alone /\ OpsFit
  <2>1. RegisteredOnce
    BY <1>6 DEF RegisteredOnce
  <2> QED
    BY <1>2, <2>1 DEF Registers, Alone, OpsFit
<1> QED
  BY <1>1, <1>4, <1>7, <1>8 DEF SetupInv

LEMMA SetupInvStep == SetupInv /\ [SetupNext]_setupVars => SetupInv'
BY SetupTypeStep, ConfigStep, IgnoreStep, SettingsStep, RegistersStep, AloneStep, OpsFitStep DEF SetupInv

LEMMA SetupInvSafe == SetupInv => SetupIsSafe
<1> SUFFICES ASSUME SetupInv PROVE SetupIsSafe
  OBVIOUS
<1>1. UserFilesKept
  BY DEF SetupInv, ConfigInv, IgnoreInv, SettingsInv, UserFilesKept, Rests
<1>2. RegisteredOnce
  BY DEF SetupInv, Registers
<1>3. ReadyWhenDone
  BY DEF SetupInv, Alone, HasMade, ReadyWhenDone, Configured
<1> QED
  BY <1>1, <1>2, <1>3 DEF SetupIsSafe

\* However many runs of `brain init` and `brain install-hooks` meet, die and are
\* repeated among the user's edits, a file that no run was cut short in writing, and
\* that no other wrote meanwhile, keeps the entries the user put there; a hook is
\* registered once; and an undisturbed run ends with everything made
\* (scaffold.rs, install_hooks.rs).
THEOREM SetupIsSafeCorrect == SetupSpec => []SetupIsSafe
<1>1. SetupSpec => []SetupInv
  BY SetupInvInit, SetupInvStep, PTL DEF SetupSpec
<1> QED
  BY <1>1, SetupInvSafe, PTL

-----------------------------------------------------------------------------
(* Migrations: any number of processes that open, die and meet.            *)

Column == "cache.query_vector"

-----------------------------------------------------------------------------
(* The batches.                                                             *)

LEMMA BatchLengths ==
  \A n \in 1 .. SCHEMA_VERSION : Len(Batches[n]) \in Nat /\ Len(Batches[n]) >= 1
<1> SUFFICES ASSUME NEW n \in 1 .. 4
             PROVE  Len(Batches[n]) \in Nat /\ Len(Batches[n]) >= 1
  BY DEF SCHEMA_VERSION
<1>1. CASE n = 1  BY <1>1 DEF Batches, SCHEMA_VERSION
<1>2. CASE n = 2  BY <1>2 DEF Batches, SCHEMA_VERSION
<1>3. CASE n = 3  BY <1>3 DEF Batches, SCHEMA_VERSION
<1>4. CASE n = 4  BY <1>4 DEF Batches, SCHEMA_VERSION
<1> QED  BY <1>1, <1>2, <1>3, <1>4

\* The column is the one statement of the second batch, and of no other.
LEMMA ColumnIsSecond ==
  /\ Len(Batches[2]) = 1 /\ Batches[2][1] = Column
  /\ \A n \in 1 .. SCHEMA_VERSION : \A i \in 1 .. Len(Batches[n]) :
       Batches[n][i] = Column => n = 2
<1>1. Len(Batches[2]) = 1 /\ Batches[2][1] = Column
  BY DEF Batches, SCHEMA_VERSION, Column
<1>2. ASSUME NEW n \in 1 .. 4, NEW i \in 1 .. Len(Batches[n]), n # 2
      PROVE  Batches[n][i] # Column
  <2>1. CASE n = 1  BY <1>2, <2>1 DEF Batches, SCHEMA_VERSION, Column
  <2>2. CASE n = 3  BY <1>2, <2>2 DEF Batches, SCHEMA_VERSION, Column
  <2>3. CASE n = 4  BY <1>2, <2>3 DEF Batches, SCHEMA_VERSION, Column
  <2> QED  BY <1>2, <2>1, <2>2, <2>3
<1> QED  BY <1>1, <1>2 DEF SCHEMA_VERSION

-----------------------------------------------------------------------------
(* Types.                                                                   *)

LEMMA TypeInit == MigrationsInit => MigrationsTypeOK
<1> SUFFICES ASSUME MigrationsInit PROVE MigrationsTypeOK
  OBVIOUS
<1>1. schema \subseteq UNION {Made(n) : n \in 1 .. SCHEMA_VERSION}
  BY DEF MigrationsInit, SCHEMA_VERSION
<1> QED  BY <1>1 DEF MigrationsInit, MigrationsTypeOK, ClosedDb, SCHEMA_VERSION

\* Where a process that migrates stands.
Standing(p) ==
  Migrating(p) =>
    /\ opener[p].version \in 0 .. SCHEMA_VERSION - 1
    /\ opener[p].next \in Nat /\ opener[p].next >= 1
    /\ opener[p].pc = "batch" => opener[p].next <= Len(Batches[opener[p].version + 1])
    /\ opener[p].pc = "version" => opener[p].next = Len(Batches[opener[p].version + 1]) + 1

\* What it has seen to is there.
Done(p) ==
  /\ Migrating(p) =>
       /\ \A n \in 1 .. opener[p].version : Made(n) \subseteq schema
       /\ \A i \in 1 .. opener[p].next - 1 : Batches[opener[p].version + 1][i] \in schema
  /\ opener[p].pc = "open" => \A n \in 1 .. SCHEMA_VERSION : Made(n) \subseteq schema

\* While opens stay apart one process migrates, from the version in the file,
\* and the column is there before its version in its hands only.
Calm ==
  /\ \A p, q \in Openers : Migrating(p) /\ Migrating(q) => p = q
  /\ \A p \in Openers :
       /\ opener[p].pc # "refused"
       /\ Migrating(p) => opener[p].version = userVersion
  /\ Column \in schema /\ userVersion < 2 => \E p \in Openers : Torn(p)

SchemaInv ==
  /\ MigrationsTypeOK
  /\ \A p \in Openers : Standing(p) /\ Done(p)
  /\ \A n \in 1 .. userVersion : Made(n) \subseteq schema
  /\ apart => Calm

LEMMA MigrationsInvInit == MigrationsInit => SchemaInv
<1> SUFFICES ASSUME MigrationsInit PROVE SchemaInv
  OBVIOUS
<1>1. MigrationsTypeOK
  BY TypeInit
<1>2. \A p \in Openers : ~Migrating(p) /\ opener[p].pc = "closed"
  BY DEF MigrationsInit, Migrating, ClosedDb
<1>3. \A n \in 1 .. userVersion : Made(n) \subseteq schema
  BY DEF MigrationsInit
<1>4. Column \in schema => userVersion >= 2
  <2> SUFFICES ASSUME Column \in schema PROVE userVersion >= 2
    OBVIOUS
  <2>1. PICK n \in 1 .. userVersion : Column \in Made(n)
    BY DEF MigrationsInit
  <2>2. n \in 1 .. SCHEMA_VERSION
    BY <1>1 DEF MigrationsTypeOK, SCHEMA_VERSION
  <2>3. n = 2
    BY <2>1, <2>2, ColumnIsSecond DEF Made
  <2> QED  BY <2>1, <2>3, <1>1 DEF MigrationsTypeOK
<1>5. Calm
  BY <1>1, <1>2, <1>4 DEF Calm, MigrationsTypeOK
<1> QED  BY <1>1, <1>2, <1>3, <1>5 DEF SchemaInv, Standing, Done

\* The schema only grows, and nobody but p moves: what the others have seen to
\* stays.
LEMMA OthersStay ==
  ASSUME SchemaInv, NEW p \in Openers, schema \subseteq schema',
         \A q \in Openers \ {p} : opener'[q] = opener[q]
  PROVE  \A q \in Openers \ {p} : Standing(q)' /\ Done(q)'
<1> SUFFICES ASSUME NEW q \in Openers \ {p} PROVE Standing(q)' /\ Done(q)'
  OBVIOUS
<1>1. Standing(q) /\ Done(q)
  BY DEF SchemaInv
<1>2. Standing(q)'
  BY <1>1 DEF Standing, Migrating
<1>3. Done(q)'
  BY <1>1 DEF Done, Migrating
<1> QED  BY <1>2, <1>3

LEMMA ReadVersionInv ==
  ASSUME SchemaInv, NEW p \in Openers, ReadVersion(p)
  PROVE  SchemaInv'
<1> USE DEF ReadVersion
<1>t. MigrationsTypeOK
  BY DEF SchemaInv
<1>1. MigrationsTypeOK'
  BY <1>t DEF MigrationsTypeOK, SCHEMA_VERSION
<1>2. \A q \in Openers \ {p} : opener'[q] = opener[q]
  BY <1>t DEF MigrationsTypeOK
<1>3. opener'[p] = [pc |-> IF userVersion < SCHEMA_VERSION THEN "batch" ELSE "open",
                    version |-> userVersion, next |-> 1]
  BY <1>t DEF MigrationsTypeOK
<1>4. Standing(p)'
  BY <1>t, <1>3, BatchLengths DEF Standing, Migrating, MigrationsTypeOK, SCHEMA_VERSION
<1>5. Done(p)'
  <2>1. \A n \in 1 .. userVersion : Made(n) \subseteq schema
    BY DEF SchemaInv
  <2>2. CASE userVersion < SCHEMA_VERSION
    BY <2>1, <2>2, <1>3 DEF Done, Migrating
  <2>3. CASE ~(userVersion < SCHEMA_VERSION)
    <3>1. userVersion = SCHEMA_VERSION
      BY <2>3, <1>t DEF MigrationsTypeOK, SCHEMA_VERSION
    <3>2. opener'[p].pc = "open"
      BY <1>3, <2>3
    <3> QED  BY <3>1, <3>2, <2>1 DEF Done, Migrating
  <2> QED  BY <2>2, <2>3
<1>6. ASSUME apart' PROVE Calm'
  <2>1. apart /\ \A q \in Openers : ~Migrating(q)
    BY <1>6
  <2>2. Calm
    BY <2>1 DEF SchemaInv
  <2>3. \A q \in Openers : Migrating(q)' => q = p
    BY <2>1, <1>2 DEF Migrating
  <2>4. \A q \in Openers : opener'[q].pc # "refused"
    BY <2>2, <1>2, <1>3 DEF Calm
  <2>5. Migrating(p)' => opener'[p].version = userVersion'
    BY <1>3
  <2>6. ~(Column \in schema /\ userVersion < 2)
    BY <2>1, <2>2 DEF Calm, Torn
  <2> QED  BY <2>3, <2>4, <2>5, <2>6 DEF Calm
<1>7. \A n \in 1 .. userVersion' : Made(n) \subseteq schema'
  BY DEF SchemaInv
<1>8. \A q \in Openers \ {p} : Standing(q)' /\ Done(q)'
  BY <1>2, OthersStay
<1> QED  BY <1>1, <1>4, <1>5, <1>6, <1>7, <1>8 DEF SchemaInv

LEMMA ExecuteInv ==
  ASSUME SchemaInv, NEW p \in Openers, Execute(p)
  PROVE  SchemaInv'
<1> DEFINE batch == Batches[opener[p].version + 1]
<1>t. MigrationsTypeOK
  BY DEF SchemaInv
<1>s. /\ opener[p].pc = "batch"
      /\ opener[p].version \in 0 .. SCHEMA_VERSION - 1
      /\ opener[p].version + 1 \in 1 .. SCHEMA_VERSION
      /\ opener[p].next \in 1 .. Len(batch) /\ Len(batch) \in Nat
  <2>1. opener[p].pc = "batch" /\ Standing(p)
    BY DEF SchemaInv, Execute
  <2>2. opener[p].version \in 0 .. SCHEMA_VERSION - 1 /\ opener[p].next \in Nat
        /\ opener[p].next >= 1 /\ opener[p].next <= Len(batch)
    BY <2>1 DEF Standing, Migrating
  <2>3. opener[p].version + 1 \in 1 .. SCHEMA_VERSION
    BY <2>2 DEF SCHEMA_VERSION
  <2> QED  BY <2>1, <2>2, <2>3, BatchLengths
<1>2. \A q \in Openers \ {p} : opener'[q] = opener[q]
  BY <1>t DEF MigrationsTypeOK, Execute
<1>3. opener'[p] = [pc |-> IF opener[p].next = Len(batch) THEN "version" ELSE "batch",
                    version |-> opener[p].version, next |-> opener[p].next + 1]
  BY <1>t DEF MigrationsTypeOK, Execute
<1>4. schema' = schema \cup {batch[opener[p].next]}
  BY DEF Execute, Statement
<1>5. batch[opener[p].next] \in Made(opener[p].version + 1)
  BY <1>s DEF Made
<1>1. MigrationsTypeOK'
  <2>1. schema' \subseteq UNION {Made(n) : n \in 1 .. SCHEMA_VERSION}
    BY <1>t, <1>s, <1>4, <1>5 DEF MigrationsTypeOK
  <2>2. opener' \in [Openers -> [pc : {"closed", "batch", "version", "open", "refused"},
                                version : 0 .. SCHEMA_VERSION, next : Nat]]
    BY <1>t, <1>s DEF MigrationsTypeOK, Execute
  <2> QED  BY <2>1, <2>2, <1>t DEF MigrationsTypeOK, Execute
<1>6. Standing(p)'
  BY <1>s, <1>3 DEF Standing, Migrating
<1>7. Done(p)'
  <2>1. Done(p) /\ Migrating(p)
    BY <1>s DEF SchemaInv, Migrating
  <2>2. \A n \in 1 .. opener[p].version : Made(n) \subseteq schema'
    BY <2>1, <1>4 DEF Done
  <2>3. \A i \in 1 .. opener[p].next : batch[i] \in schema'
    <3> SUFFICES ASSUME NEW i \in 1 .. opener[p].next PROVE batch[i] \in schema'
      OBVIOUS
    <3>1. CASE i = opener[p].next
      BY <3>1, <1>4
    <3>2. CASE i # opener[p].next
      <4>1. i \in 1 .. opener[p].next - 1
        BY <3>2, <1>s
      <4> QED  BY <4>1, <2>1, <1>4 DEF Done
    <3> QED  BY <3>1, <3>2
  <2>4. opener'[p].version = opener[p].version /\ opener'[p].next - 1 = opener[p].next
        /\ opener'[p].pc # "open"
    BY <1>3, <1>s
  <2> QED  BY <2>2, <2>3, <2>4 DEF Done
<1>8. \A n \in 1 .. userVersion' : Made(n) \subseteq schema'
  BY <1>4 DEF SchemaInv, Execute
<1>9. ASSUME apart' PROVE Calm'
  <2>1. apart /\ userVersion' = userVersion
    BY <1>9 DEF Execute
  <2>2. Calm
    BY <2>1 DEF SchemaInv
  <2>3. \A q \in Openers : Migrating(q)' <=> Migrating(q)
    BY <1>2, <1>3, <1>s DEF Migrating
  <2>4. \A q \in Openers : opener'[q].version = opener[q].version
    BY <1>2, <1>3
  <2>5. \A q \in Openers : opener'[q].pc # "refused"
    BY <2>2, <1>2, <1>3 DEF Calm
  <2>6. Column \in schema' /\ userVersion < 2 => \E q \in Openers : Torn(q)'
    <3> SUFFICES ASSUME Column \in schema', userVersion < 2
                 PROVE  \E q \in Openers : Torn(q)'
      OBVIOUS
    <3>1. CASE Column = batch[opener[p].next]
      <4>1. opener[p].next \in 1 .. opener'[p].next - 1
        BY <1>s, <1>3
      <4>2. ~Repeatable(Batches[opener'[p].version + 1][opener[p].next])
        BY <3>1, <1>3 DEF Repeatable, Column
      <4>3. Migrating(p)'
        BY <2>3, <1>s DEF Migrating
      <4> QED  BY <4>1, <4>2, <4>3 DEF Torn
    <3>2. CASE Column # batch[opener[p].next]
      <4>1. PICK q \in Openers : Torn(q)
        BY <3>2, <1>4, <2>2 DEF Calm
      <4>2. q = p
        BY <4>1, <2>2, <1>s DEF Calm, Torn, Migrating
      <4>3. PICK i \in 1 .. opener[p].next - 1 : ~Repeatable(batch[i])
        BY <4>1, <4>2 DEF Torn
      <4>4. i \in 1 .. opener'[p].next - 1
        BY <1>s, <1>3
      <4>5. Migrating(p)'
        BY <2>3, <1>s DEF Migrating
      <4> QED  BY <4>3, <4>4, <4>5, <2>4 DEF Torn
    <3> QED  BY <3>1, <3>2
  <2> QED  BY <2>1, <2>2, <2>3, <2>4, <2>5, <2>6 DEF Calm
<1>10. \A q \in Openers \ {p} : Standing(q)' /\ Done(q)'
  BY <1>2, <1>4, OthersStay
<1> QED  BY <1>1, <1>6, <1>7, <1>8, <1>9, <1>10 DEF SchemaInv

\* While opens stay apart nothing is refused: the column is there only when its
\* version is, or in the hands of a process that is past it.
LEMMA NothingRefused ==
  ASSUME SchemaInv, NEW p \in Openers, Refuse(p)
  PROVE  ~apart
<1> SUFFICES ASSUME apart PROVE FALSE
  OBVIOUS
<1>1. Calm /\ Standing(p) /\ Migrating(p) /\ opener[p].pc = "batch"
  BY DEF SchemaInv, Refuse, Migrating
<1>2. Statement(p) = Column /\ Column \in schema
  BY DEF Refuse, Runs, Repeatable, Column
<1>3. /\ opener[p].version + 1 \in 1 .. SCHEMA_VERSION
      /\ opener[p].next \in 1 .. Len(Batches[opener[p].version + 1])
      /\ opener[p].version \in Nat
  <2>1. opener[p].version \in 0 .. SCHEMA_VERSION - 1 /\ opener[p].next \in Nat
        /\ opener[p].next >= 1 /\ opener[p].next <= Len(Batches[opener[p].version + 1])
    BY <1>1 DEF Standing
  <2>2. opener[p].version + 1 \in 1 .. SCHEMA_VERSION
    BY <2>1 DEF SCHEMA_VERSION
  <2> QED  BY <2>1, <2>2, BatchLengths
<1>4. opener[p].version + 1 = 2
  BY <1>2, <1>3, ColumnIsSecond DEF Statement
<1>5. userVersion = 1
  BY <1>1, <1>3, <1>4 DEF Calm
<1>6. PICK q \in Openers : Torn(q)
  BY <1>1, <1>2, <1>5 DEF Calm
<1>7. q = p
  BY <1>1, <1>6 DEF Calm, Torn
<1>8. \E i \in 1 .. opener[p].next - 1 : TRUE
  BY <1>6, <1>7 DEF Torn
<1>9. opener[p].next = 1
  <2>1. Len(Batches[opener[p].version + 1]) = 1
    BY <1>4, ColumnIsSecond
  <2> QED  BY <2>1, <1>3
<1> QED  BY <1>8, <1>9

LEMMA RefuseInv ==
  ASSUME SchemaInv, NEW p \in Openers, Refuse(p)
  PROVE  SchemaInv'
<1>t. MigrationsTypeOK
  BY DEF SchemaInv
<1>1. MigrationsTypeOK'
  BY <1>t DEF MigrationsTypeOK, Refuse
<1>2. \A q \in Openers \ {p} : opener'[q] = opener[q]
  BY <1>t DEF MigrationsTypeOK, Refuse
<1>3. opener'[p].pc = "refused"
  BY <1>t DEF MigrationsTypeOK, Refuse
<1>4. Standing(p)' /\ Done(p)'
  BY <1>3 DEF Standing, Done, Migrating
<1>5. ~apart'
  BY NothingRefused DEF Refuse
<1>6. \A n \in 1 .. userVersion' : Made(n) \subseteq schema'
  BY DEF SchemaInv, Refuse
<1>7. \A q \in Openers \ {p} : Standing(q)' /\ Done(q)'
  BY <1>2, OthersStay DEF Refuse
<1> QED  BY <1>1, <1>4, <1>5, <1>6, <1>7 DEF SchemaInv

LEMMA SetVersionInv ==
  ASSUME SchemaInv, NEW p \in Openers, SetVersion(p)
  PROVE  SchemaInv'
<1> DEFINE v == opener[p].version + 1
<1>t. MigrationsTypeOK
  BY DEF SchemaInv
<1>s. /\ Migrating(p) /\ Standing(p) /\ Done(p) /\ opener[p].pc = "version"
      /\ opener[p].version \in 0 .. SCHEMA_VERSION - 1
      /\ v \in 1 .. SCHEMA_VERSION /\ Len(Batches[v]) \in Nat
      /\ opener[p].next = Len(Batches[v]) + 1
  <2>1. Migrating(p) /\ Standing(p) /\ Done(p) /\ opener[p].pc = "version"
    BY DEF SchemaInv, SetVersion, Migrating
  <2>2. opener[p].version \in 0 .. SCHEMA_VERSION - 1 /\ opener[p].next = Len(Batches[v]) + 1
    BY <2>1 DEF Standing
  <2>3. v \in 1 .. SCHEMA_VERSION
    BY <2>2 DEF SCHEMA_VERSION
  <2> QED  BY <2>1, <2>2, <2>3, BatchLengths
<1>2. \A q \in Openers \ {p} : opener'[q] = opener[q]
  BY <1>t DEF MigrationsTypeOK, SetVersion
<1>3. opener'[p] = [pc |-> IF v < SCHEMA_VERSION THEN "batch" ELSE "open",
                    version |-> v, next |-> 1]
  BY <1>t DEF MigrationsTypeOK, SetVersion
<1>4. schema' = schema /\ userVersion' = v /\ apart' = apart
  BY DEF SetVersion
<1>1. MigrationsTypeOK'
  BY <1>t, <1>s, <1>4 DEF MigrationsTypeOK, SetVersion, SCHEMA_VERSION
<1>5. \A n \in 1 .. v : Made(n) \subseteq schema
  <2> SUFFICES ASSUME NEW n \in 1 .. v PROVE Made(n) \subseteq schema
    OBVIOUS
  <2>1. CASE n = v
    <3>1. \A i \in 1 .. Len(Batches[v]) : Batches[v][i] \in schema
      BY <1>s DEF Done
    <3> QED  BY <2>1, <3>1 DEF Made
  <2>2. CASE n # v
    <3>1. n \in 1 .. opener[p].version
      BY <2>2, <1>s DEF SCHEMA_VERSION
    <3> QED  BY <3>1, <1>s DEF Done
  <2> QED  BY <2>1, <2>2
<1>6. Standing(p)'
  BY <1>s, <1>3, BatchLengths DEF Standing, Migrating, SCHEMA_VERSION
<1>7. Done(p)'
  <2>1. CASE v < SCHEMA_VERSION
    BY <2>1, <1>3, <1>4, <1>5 DEF Done
  <2>2. CASE ~(v < SCHEMA_VERSION)
    <3>1. v = SCHEMA_VERSION
      BY <2>2, <1>s DEF SCHEMA_VERSION
    <3>2. opener'[p].pc = "open"
      BY <1>3, <2>2
    <3> QED  BY <3>1, <3>2, <1>4, <1>5 DEF Done, Migrating
  <2> QED  BY <2>1, <2>2
<1>8. ASSUME apart' PROVE Calm'
  <2>1. Calm
    BY <1>8, <1>4 DEF SchemaInv
  <2>2. \A q \in Openers \ {p} : ~Migrating(q)'
    BY <2>1, <1>s, <1>2 DEF Calm, Migrating
  <2>3. \A q \in Openers : opener'[q].pc # "refused"
    BY <2>1, <1>2, <1>3 DEF Calm
  <2>4. opener'[p].version = userVersion'
    BY <1>3, <1>4
  <2>5. Column \in schema => v >= 2
    <3> SUFFICES ASSUME Column \in schema, v < 2 PROVE FALSE
      BY <1>s DEF SCHEMA_VERSION
    <3>1. v = 1 /\ userVersion = 0
      BY <2>1, <1>s DEF Calm, SCHEMA_VERSION
    <3>2. PICK q \in Openers : Torn(q)
      BY <2>1, <3>1 DEF Calm
    <3>3. q = p
      BY <2>1, <1>s, <3>2 DEF Calm, Torn
    <3>4. PICK i \in 1 .. opener[p].next - 1 : ~Repeatable(Batches[v][i])
      BY <3>2, <3>3 DEF Torn
    <3>5. i \in 1 .. Len(Batches[v])
      BY <1>s
    <3> QED  BY <3>1, <3>4, <3>5, <1>s, ColumnIsSecond DEF Repeatable, Column
  <2> QED  BY <2>2, <2>3, <2>4, <2>5, <1>4, <1>s DEF Calm, SCHEMA_VERSION
<1>9. \A n \in 1 .. userVersion' : Made(n) \subseteq schema'
  BY <1>4, <1>5
<1>10. \A q \in Openers \ {p} : Standing(q)' /\ Done(q)'
  BY <1>2, <1>4, OthersStay
<1> QED  BY <1>1, <1>6, <1>7, <1>8, <1>9, <1>10 DEF SchemaInv

LEMMA LeaveInv ==
  ASSUME SchemaInv, NEW p \in Openers, Abandon(p) \/ CloseDb(p)
  PROVE  SchemaInv'
<1>t. MigrationsTypeOK
  BY DEF SchemaInv
<1>1. opener' = [opener EXCEPT ![p] = ClosedDb] /\ schema' = schema /\ userVersion' = userVersion
  BY DEF Abandon, CloseDb
<1>2. \A q \in Openers \ {p} : opener'[q] = opener[q]
  BY <1>1, <1>t DEF MigrationsTypeOK
<1>3. opener'[p].pc = "closed"
  BY <1>1, <1>t DEF MigrationsTypeOK, ClosedDb
<1>4. MigrationsTypeOK'
  <2>1. opener' \in [Openers -> [pc : {"closed", "batch", "version", "open", "refused"},
                                version : 0 .. SCHEMA_VERSION, next : Nat]]
    BY <1>t, <1>1 DEF MigrationsTypeOK, ClosedDb, SCHEMA_VERSION
  <2>2. apart' \in BOOLEAN
    BY <1>t DEF MigrationsTypeOK, Abandon, CloseDb
  <2> QED  BY <1>t, <1>1, <2>1, <2>2 DEF MigrationsTypeOK
<1>5. Standing(p)' /\ Done(p)'
  BY <1>3 DEF Standing, Done, Migrating
<1>6. \A n \in 1 .. userVersion' : Made(n) \subseteq schema'
  BY <1>1 DEF SchemaInv
<1>7. \A q \in Openers \ {p} : Standing(q)' /\ Done(q)'
  BY <1>1, <1>2, OthersStay
<1>8. ASSUME apart' PROVE Calm'
  <2>1. apart /\ ~Torn(p)
    BY <1>8 DEF Abandon, CloseDb, Torn, Migrating
  <2>2. Calm
    BY <2>1 DEF SchemaInv
  <2>3. \A q \in Openers : Migrating(q)' => Migrating(q) /\ q # p
    BY <1>2, <1>3 DEF Migrating
  <2>4. \A q \in Openers : opener'[q].pc # "refused"
    BY <2>2, <1>2, <1>3 DEF Calm
  <2>5. \A q \in Openers : Torn(q) => Torn(q)'
    BY <2>1, <1>2 DEF Torn, Migrating
  <2>6. \A q \in Openers : Migrating(q)' => opener'[q].version = userVersion'
    BY <2>2, <2>3, <1>1, <1>2 DEF Calm
  <2> QED  BY <2>2, <2>3, <2>4, <2>5, <2>6, <1>1 DEF Calm
<1> QED  BY <1>4, <1>5, <1>6, <1>7, <1>8 DEF SchemaInv

LEMMA InvStep == SchemaInv /\ [MigrationsNext]_migrationVars => SchemaInv'
<1> SUFFICES ASSUME SchemaInv, [MigrationsNext]_migrationVars PROVE SchemaInv'
  OBVIOUS
<1>1. CASE UNCHANGED migrationVars
  BY <1>1 DEF migrationVars, SchemaInv, MigrationsTypeOK, Standing, Done, Calm, Torn,
              Migrating
<1>2. ASSUME NEW p \in Openers, Migrate(p) PROVE SchemaInv'
  BY <1>2, ReadVersionInv, ExecuteInv, RefuseInv, SetVersionInv DEF Migrate
<1>3. ASSUME NEW p \in Openers, Abandon(p) \/ CloseDb(p) PROVE SchemaInv'
  BY <1>3, LeaveInv
<1> QED  BY <1>1, <1>2, <1>3 DEF MigrationsNext

-----------------------------------------------------------------------------

LEMMA InvCorrect == MigrationsSpec => []SchemaInv
BY MigrationsInvInit, InvStep, PTL DEF MigrationsSpec

\* Any number of processes that open the database, die and meet: user_version
\* never promises what is not there, and an open that returns has the schema
\* of the head.
THEOREM SchemaCompleteCorrect == MigrationsSpec => []SchemaComplete
<1>1. SchemaInv => SchemaComplete
  BY DEF SchemaInv, SchemaComplete, Done
<1> QED  BY <1>1, InvCorrect, PTL

\* As long as opens stay apart, none fails and the version never goes back.
THEOREM OrderlyMigrationsCorrect == MigrationsSpec => OrderlyMigrations
<1> DEFINE Step == apart' => /\ userVersion' >= userVersion
                            /\ \A p \in Openers : opener'[p].pc # "refused"
<1>1. SchemaInv /\ SchemaInv' /\ [MigrationsNext]_migrationVars => [Step]_migrationVars
  <2> SUFFICES ASSUME SchemaInv, SchemaInv', MigrationsNext, apart' PROVE Step
    OBVIOUS
  <2>1. \A p \in Openers : opener'[p].pc # "refused"
    BY DEF SchemaInv, Calm
  <2>2. userVersion \in Nat
    BY DEF SchemaInv, MigrationsTypeOK, SCHEMA_VERSION
  <2>3. ASSUME NEW p \in Openers, SetVersion(p) PROVE userVersion' >= userVersion
    <3>1. apart /\ Migrating(p)
      BY <2>3 DEF SetVersion, Migrating
    <3>2. opener[p].version = userVersion
      BY <3>1 DEF SchemaInv, Calm
    <3> QED  BY <2>2, <2>3, <3>2 DEF SetVersion
  <2>4. ASSUME NEW p \in Openers,
               ReadVersion(p) \/ Execute(p) \/ Refuse(p) \/ Abandon(p) \/ CloseDb(p)
        PROVE  userVersion' >= userVersion
    <3>1. userVersion' = userVersion
      BY <2>4 DEF ReadVersion, Execute, Refuse, Abandon, CloseDb
    <3> QED  BY <2>2, <3>1
  <2> QED  BY <2>1, <2>3, <2>4 DEF MigrationsNext, Migrate
<1> QED  BY <1>1, InvCorrect, PTL DEF MigrationsSpec, OrderlyMigrations

-----------------------------------------------------------------------------
(* Metrics: any number of processes that record, read and delete.          *)

MetricsTyped ==
  /\ MetricsTypeOK
  /\ resetter \in [pc : {"idle", "count", "requests", "sessions", "done"},
                   requests : SUBSET (1 .. MaxRequests), sessions : SUBSET Sessions]
  /\ reader \in [pc : {"idle", "sessions", "done"}, requests : SUBSET Row,
                 sessions : SUBSET Sessions, cut : BOOLEAN]
  /\ \A r \in Recorders : ~RecorderAt(r, "idle") => recorder[r].session \in Sessions /\ recorder[r].id \in 1 .. issued

\* A query is one process's, and has a row only after its insert.
OneRow ==
  /\ stored \subseteq 1 .. issued /\ Ids(requests) \subseteq stored
  /\ \A r \in Recorders : ~RecorderAt(r, "idle") =>
       /\ recorder[r].id \in stored <=> RecorderAt(r, "log")
       /\ \A q \in Recorders : ~RecorderAt(q, "idle") /\ recorder[q].id = recorder[r].id => q = r

\* What a reset has counted goes with the first deletion, and whatever is there
\* at the second came between the two.
Removing ==
  /\ resetter.requests \subseteq stored
  /\ resetter.pc \in {"sessions", "done"} => Ids(requests) \cap resetter.requests = {}
  /\ resetter.pc = "sessions" => \A row \in requests : row.late

\* A report in progress has read of no session that has gone since.
Reading ==
  reader.pc = "sessions" /\ ~reader.cut =>
    {row.session : row \in reader.requests} \ {NoSession} \subseteq sessions

MetricsInv ==
  /\ MetricsTyped /\ OneRow /\ LoggedWasStored /\ SessionsKept
  /\ Removing /\ Reading /\ ReportAddsUp

-----------------------------------------------------------------------------
LEMMA MetricsTypeInit == MetricsInit => MetricsTyped
<1> SUFFICES ASSUME MetricsInit PROVE MetricsTyped
  OBVIOUS
<1>1. resetter \in [pc : {"idle", "count", "requests", "sessions", "done"},
                    requests : SUBSET (1 .. MaxRequests), sessions : SUBSET Sessions]
  BY DEF MetricsInit
<1>2. reader \in [pc : {"idle", "sessions", "done"}, requests : SUBSET Row,
                  sessions : SUBSET Sessions, cut : BOOLEAN]
  BY DEF MetricsInit
<1>3. recorder \in [Recorders -> [pc : {"idle", "ensure", "insert", "log"},
                                  session : Sessions \cup {NoSession}, id : 0 .. MaxRequests]]
  BY MetricsConstants DEF MetricsInit
<1> QED
  BY <1>1, <1>2, <1>3, MetricsConstants DEF MetricsInit, MetricsTyped, MetricsTypeOK, RecorderAt

LEMMA MetricsTypeStep == MetricsTyped /\ [MetricsNext]_metricVars => MetricsTyped'
<1> SUFFICES ASSUME MetricsTyped, [MetricsNext]_metricVars PROVE MetricsTyped'
  OBVIOUS
<1> DEFINE RecorderType == [pc : {"idle", "ensure", "insert", "log"},
                            session : Sessions \cup {NoSession}, id : 0 .. MaxRequests]
           ResetterType == [pc : {"idle", "count", "requests", "sessions", "done"},
                            requests : SUBSET (1 .. MaxRequests), sessions : SUBSET Sessions]
           ReaderType   == [pc : {"idle", "sessions", "done"}, requests : SUBSET Row,
                            sessions : SUBSET Sessions, cut : BOOLEAN]
<1> USE MetricsConstants DEF StatsRest, resetRest, readRest
<1>1. /\ sessions \subseteq Sessions /\ requests \subseteq Row
      /\ log \subseteq 1 .. MaxRequests /\ stored \subseteq 1 .. MaxRequests
      /\ recorder \in [Recorders -> RecorderType]
      /\ issued \in 0 .. MaxRequests /\ resets \in 0 .. MaxResets
      /\ resetter \in ResetterType /\ reader \in ReaderType
  BY DEF MetricsTyped, MetricsTypeOK
<1>2. \A r \in Recorders : ~RecorderAt(r, "idle") => recorder[r].session \in Sessions /\ recorder[r].id \in 1 .. issued
  BY DEF MetricsTyped
<1> USE DEF MetricsTyped, MetricsTypeOK
\* What a process does to itself.
<1>3. ASSUME NEW r \in Recorders, NEW l \in {"idle", "ensure", "insert", "log"}, RecorderTo(r, l),
             l = "idle" \/ ~RecorderAt(r, "idle"), issued' = issued
      PROVE  /\ recorder' \in [Recorders -> RecorderType]
             /\ \A q \in Recorders : ~RecorderAt(q, "idle")' => recorder'[q].session \in Sessions /\ recorder'[q].id \in 1 .. issued'
  BY <1>1, <1>2, <1>3 DEF RecorderTo, RecorderAt
<1>4. ASSUME NEW r \in Recorders, BeginQuery(r) PROVE MetricsTyped'
  <2>1. PICK s \in Sessions :
          /\ recorder' = [recorder EXCEPT ![r] = [pc |-> "ensure", session |-> s, id |-> issued']]
          /\ sessions' \in {sessions, sessions \cup {s}}
    BY <1>4 DEF BeginQuery
  <2>2. issued' \in 0 .. MaxRequests
    BY <1>1, <1>4 DEF BeginQuery
  <2>3. recorder' \in [Recorders -> RecorderType]
    BY <1>1, <2>1, <2>2
  <2>4. \A q \in Recorders : ~RecorderAt(q, "idle")' => recorder'[q].session \in Sessions /\ recorder'[q].id \in 1 .. issued'
    <3>1. issued' \in 1 .. issued' /\ 1 .. issued \subseteq 1 .. issued'
      BY <1>1, <1>4 DEF BeginQuery
    <3> QED
      BY <1>1, <1>2, <2>1, <3>1 DEF RecorderAt
  <2> QED
    BY <1>1, <1>4, <2>1, <2>2, <2>3, <2>4 DEF BeginQuery
<1>5. ASSUME NEW r \in Recorders, EnsureSession(r) PROVE MetricsTyped'
  <2>1. /\ recorder' \in [Recorders -> RecorderType]
        /\ \A q \in Recorders : ~RecorderAt(q, "idle")' => recorder'[q].session \in Sessions /\ recorder'[q].id \in 1 .. issued'
    BY <1>3, <1>5 DEF EnsureSession, RecorderAt
  <2>2. recorder[r].session \in Sessions
    BY <1>2, <1>5 DEF EnsureSession, RecorderAt
  <2> QED
    BY <1>1, <1>5, <2>1, <2>2 DEF EnsureSession
<1>6. ASSUME NEW r \in Recorders, InsertRequest(r) PROVE MetricsTyped'
  <2>1. /\ recorder' \in [Recorders -> RecorderType]
        /\ \A q \in Recorders : ~RecorderAt(q, "idle")' => recorder'[q].session \in Sessions /\ recorder'[q].id \in 1 .. issued'
    BY <1>3, <1>6 DEF InsertRequest, RecorderAt
  <2>2. recorder[r].id \in 1 .. MaxRequests /\ recorder[r].session \in Sessions
    BY <1>1, <1>2, <1>6 DEF InsertRequest, RecorderAt
  <2>3. [id |-> recorder[r].id, session |-> recorder[r].session, late |-> resetter.pc = "sessions"] \in Row
    BY <2>2 DEF Row
  <2>4. requests' \subseteq Row /\ stored' \subseteq 1 .. MaxRequests
    <3> DEFINE row == [id |-> recorder[r].id, session |-> recorder[r].session,
                       late |-> resetter.pc = "sessions"]
    <3>1. \/ requests' = requests \cup {row} /\ stored' = stored \cup {recorder[r].id}
          \/ UNCHANGED <<requests, stored>>
      BY <1>6 DEF InsertRequest
    <3>2. row \in Row
      BY <2>3
    <3> HIDE DEF row
    <3> QED
      BY <1>1, <2>2, <3>1, <3>2
  <2> QED
    BY <1>1, <1>6, <2>1, <2>4 DEF InsertRequest
<1>7. ASSUME NEW r \in Recorders, AppendLog(r) \/ SkipMetric(r) PROVE MetricsTyped'
  <2>1. /\ recorder' \in [Recorders -> RecorderType]
        /\ \A q \in Recorders : ~RecorderAt(q, "idle")' => recorder'[q].session \in Sessions /\ recorder'[q].id \in 1 .. issued'
    BY <1>3, <1>7 DEF AppendLog, SkipMetric
  <2>2. AppendLog(r) => recorder[r].id \in 1 .. MaxRequests
    BY <1>1, <1>2 DEF AppendLog, RecorderAt
  <2> QED
    BY <1>1, <1>7, <2>1, <2>2 DEF AppendLog, SkipMetric
\* The recorders rest.
<1>8. ASSUME UNCHANGED <<recorder, issued, log, stored>>, resetter' \in ResetterType, reader' \in ReaderType,
             sessions' \subseteq Sessions, requests' \subseteq Row, resets' \in 0 .. MaxResets
      PROVE  MetricsTyped'
  BY <1>1, <1>2, <1>8 DEF RecorderAt
<1>9. \A rows \in SUBSET Row : Ids(rows) \subseteq 1 .. MaxRequests
  BY DEF Ids, Row
<1>10. CASE CountRequests
  <2>1. resetter' \in ResetterType /\ resets' \in 0 .. MaxResets
    BY <1>1, <1>9, <1>10 DEF CountRequests
  <2> QED
    BY <1>1, <1>8, <1>10, <2>1 DEF CountRequests
<1>11. CASE CountSessions
  <2>1. resetter' \in ResetterType
    BY <1>1, <1>11 DEF CountSessions
  <2> QED
    BY <1>1, <1>8, <1>11, <2>1 DEF CountSessions
<1>12. CASE DeleteRequests
  <2>1. resetter' \in ResetterType
    BY <1>1, <1>12 DEF DeleteRequests
  <2> QED
    BY <1>1, <1>8, <1>12, <2>1 DEF DeleteRequests
<1>13. CASE DeleteSessions
  <2>1. resetter' \in ResetterType /\ reader' \in ReaderType
    BY <1>1, <1>13 DEF DeleteSessions
  <2>2. requests' \subseteq Row
    BY <1>1, <1>13 DEF DeleteSessions, Row
  <2> QED
    BY <1>1, <1>8, <1>13, <2>1, <2>2 DEF DeleteSessions
<1>14. CASE CutReset
  <2>1. resetter' \in ResetterType
    BY <1>1, <1>14 DEF CutReset
  <2> QED
    BY <1>1, <1>8, <1>14, <2>1 DEF CutReset
<1>15. CASE SumRequests \/ SumSessions
  <2>1. reader' \in ReaderType
    <3>1. CASE SumRequests
      <4>1. reader' = [pc |-> "sessions", requests |-> requests, sessions |-> {}, cut |-> FALSE]
        BY <3>1 DEF SumRequests
      <4> QED
        BY <1>1, <4>1
    <3>2. CASE SumSessions
      BY <1>1, <3>2 DEF SumSessions
    <3> QED
      BY <1>15, <3>1, <3>2
  <2> QED
    BY <1>1, <1>8, <1>15, <2>1 DEF SumRequests, SumSessions
<1>16. CASE UNCHANGED metricVars
  BY <1>1, <1>8, <1>16 DEF metricVars
<1> QED
  BY <1>4, <1>5, <1>6, <1>7, <1>10, <1>11, <1>12, <1>13, <1>14, <1>15, <1>16
     DEF MetricsNext, Record, Reset

-----------------------------------------------------------------------------
LEMMA MetricsInvInit == MetricsInit => MetricsInv
<1> SUFFICES ASSUME MetricsInit PROVE MetricsInv
  OBVIOUS
<1>1. MetricsTyped
  BY MetricsTypeInit
<1>2. \A r \in Recorders : RecorderAt(r, "idle")
  BY DEF MetricsInit, RecorderAt
<1>3. OneRow
  BY <1>2 DEF MetricsInit, OneRow, Ids
<1> QED
  BY <1>1, <1>3 DEF MetricsInit, MetricsInv, LoggedWasStored, SessionsKept, Removing, Reading, ReportAddsUp

LEMMA MetricsInvStep == MetricsInv /\ [MetricsNext]_metricVars => MetricsInv'
<1> SUFFICES ASSUME MetricsInv, [MetricsNext]_metricVars PROVE MetricsInv'
  OBVIOUS
<1> USE DEF StatsRest, resetRest, readRest, Ids
<1>1. MetricsTyped'
  BY MetricsTypeStep DEF MetricsInv
<1>2. /\ MetricsTyped /\ OneRow /\ LoggedWasStored /\ SessionsKept
      /\ Removing /\ Reading /\ ReportAddsUp
  BY DEF MetricsInv
<1>3. /\ issued \in Nat /\ sessions \subseteq Sessions /\ stored \subseteq Nat
      /\ \A r \in Recorders : recorder[r].id \in Nat
      /\ \A r \in Recorders : ~RecorderAt(r, "idle") =>
           recorder[r].session \in Sessions /\ recorder[r].id \in 1 .. issued
      /\ DOMAIN recorder = Recorders
  BY <1>2 DEF MetricsTyped, MetricsTypeOK
\* A process goes on with its query.
<1>4. ASSUME NEW r \in Recorders, NEW l \in {"idle", "ensure", "insert", "log"}, RecorderTo(r, l)
      PROVE  /\ \A q \in Recorders : recorder'[q].id = recorder[q].id
             /\ \A q \in Recorders \ {r} : \A k : RecorderAt(q, k)' <=> RecorderAt(q, k)
             /\ \A k : RecorderAt(r, k)' <=> k = l
  BY <1>2, <1>4 DEF RecorderTo, RecorderAt, MetricsTyped, MetricsTypeOK
<1>5. ASSUME NEW r \in Recorders, BeginQuery(r) PROVE MetricsInv'
  <2>1. PICK s \in Sessions :
          /\ recorder' = [recorder EXCEPT ![r] = [pc |-> "ensure", session |-> s, id |-> issued']]
          /\ sessions' \in {sessions, sessions \cup {s}}
    BY <1>5 DEF BeginQuery
  <2>2. issued' = issued + 1 /\ UNCHANGED <<requests, log, stored, resetter, reader>>
    BY <1>5 DEF BeginQuery
  <2>3. /\ recorder'[r].id = issued' /\ RecorderAt(r, "ensure")'
        /\ \A q \in Recorders \ {r} : recorder'[q] = recorder[q]
    BY <1>3, <2>1 DEF RecorderAt
  <2>4. issued' \notin stored /\ 1 .. issued \subseteq 1 .. issued' /\ issued' \notin 1 .. issued
    BY <1>2, <1>3, <2>2 DEF OneRow
  <2>5. \A q \in Recorders \ {r} : ~RecorderAt(q, "idle")' => recorder'[q].id # issued'
    BY <1>3, <2>3, <2>4 DEF RecorderAt
  <2>6. OneRow'
    BY <1>2, <2>2, <2>3, <2>4, <2>5 DEF OneRow, RecorderAt
  <2>7. sessions \subseteq sessions'
    BY <2>1
  <2>8. SessionsKept' /\ Reading'
    BY <1>2, <2>2, <2>7 DEF SessionsKept, Reading
  <2>9. LoggedWasStored' /\ Removing' /\ ReportAddsUp'
    BY <1>2, <2>2 DEF LoggedWasStored, Removing, ReportAddsUp
  <2> QED
    BY <1>1, <2>6, <2>8, <2>9 DEF MetricsInv
<1>6. ASSUME NEW r \in Recorders, EnsureSession(r) PROVE MetricsInv'
  <2>1. /\ RecorderAt(r, "ensure") /\ RecorderTo(r, "insert") /\ sessions \subseteq sessions'
        /\ UNCHANGED <<requests, log, issued, stored, resetter, reader>>
    BY <1>6 DEF EnsureSession
  <2>2. OneRow'
    <3>1. ~RecorderAt(r, "idle") /\ ~RecorderAt(r, "log")
      BY <2>1 DEF RecorderAt
    <3> QED
      BY <1>2, <1>4, <2>1, <3>1 DEF OneRow
  <2>3. SessionsKept' /\ Reading'
    BY <1>2, <2>1 DEF SessionsKept, Reading
  <2>4. LoggedWasStored' /\ Removing' /\ ReportAddsUp'
    BY <1>2, <2>1 DEF LoggedWasStored, Removing, ReportAddsUp
  <2> QED
    BY <1>1, <2>2, <2>3, <2>4 DEF MetricsInv
<1>7. ASSUME NEW r \in Recorders, InsertRequest(r) PROVE MetricsInv'
  <2> DEFINE row == [id |-> recorder[r].id, session |-> recorder[r].session,
                     late |-> resetter.pc = "sessions"]
  <2>1. RecorderAt(r, "insert") /\ UNCHANGED <<sessions, log, issued, resetter, reader>>
    BY <1>7 DEF InsertRequest
  <2>2. recorder[r].id \notin stored /\ recorder[r].id \in 1 .. issued /\ ~RecorderAt(r, "idle")
    BY <1>2, <1>3, <2>1 DEF OneRow, RecorderAt
  <2>3. CASE recorder[r].session \in sessions
    <3>1. requests' = requests \cup {row} /\ stored' = stored \cup {recorder[r].id} /\ RecorderTo(r, "log")
      BY <1>7, <2>3 DEF InsertRequest
    <3>2. row.id = recorder[r].id /\ row.session = recorder[r].session /\ row.late = (resetter.pc = "sessions")
      OBVIOUS
    <3> HIDE DEF row
    <3>3. OneRow'
      BY <1>2, <1>4, <2>1, <2>2, <3>1, <3>2 DEF OneRow
    <3>4. row.session # NoSession
      BY <1>3, <2>2, <3>2, MetricsConstants
    <3>5. SessionsKept'
      BY <1>2, <2>1, <2>3, <3>1, <3>2, <3>4 DEF SessionsKept
    <3>6. Removing'
      BY <1>2, <2>1, <2>2, <3>1, <3>2 DEF Removing
    <3>7. LoggedWasStored' /\ Reading' /\ ReportAddsUp'
      BY <1>2, <2>1, <3>1 DEF LoggedWasStored, Reading, ReportAddsUp
    <3> QED
      BY <1>1, <3>3, <3>5, <3>6, <3>7 DEF MetricsInv
  <2>4. CASE recorder[r].session \notin sessions
    <3>1. UNCHANGED <<requests, stored>> /\ RecorderTo(r, "idle")
      BY <1>7, <2>4 DEF InsertRequest
    <3>2. OneRow'
      BY <1>2, <1>4, <2>1, <3>1 DEF OneRow
    <3> QED
      BY <1>1, <1>2, <2>1, <3>1, <3>2 DEF MetricsInv, LoggedWasStored, SessionsKept, Removing, Reading, ReportAddsUp
  <2> QED
    BY <2>3, <2>4
<1>8. ASSUME NEW r \in Recorders, AppendLog(r) \/ SkipMetric(r) PROVE MetricsInv'
  <2>1. /\ RecorderTo(r, "idle") /\ UNCHANGED <<sessions, requests, issued, stored, resetter, reader>>
        /\ \/ log' = log
           \/ RecorderAt(r, "log") /\ log' = log \cup {recorder[r].id}
    <3>1. CASE AppendLog(r)
      BY <3>1 DEF AppendLog
    <3>2. CASE SkipMetric(r)
      BY <3>2 DEF SkipMetric
    <3> QED
      BY <1>8, <3>1, <3>2
  <2>2. OneRow'
    BY <1>2, <1>4, <2>1 DEF OneRow
  <2>3. LoggedWasStored'
    BY <1>2, <2>1 DEF LoggedWasStored, OneRow, RecorderAt
  <2> QED
    BY <1>1, <1>2, <2>1, <2>2, <2>3 DEF MetricsInv, SessionsKept, Removing, Reading, ReportAddsUp
\* The recorders rest.
<1>9. UNCHANGED <<recorder, issued, stored>> /\ Ids(requests') \subseteq Ids(requests) => OneRow'
  BY <1>2 DEF OneRow, RecorderAt
<1>10. CASE CountRequests \/ CountSessions \/ CutReset
  <2>1. UNCHANGED <<sessions, requests, reader, log, recorder, issued, stored>>
    BY <1>10 DEF CountRequests, CountSessions, CutReset
  <2>2. /\ resetter'.requests \in {resetter.requests, Ids(requests)}
        /\ resetter'.pc \notin {"sessions", "done"}
    <3>1. CASE CountRequests
      BY <3>1 DEF CountRequests
    <3>2. CASE CountSessions \/ CutReset
      BY <1>2, <3>2 DEF CountSessions, CutReset, MetricsTyped
    <3> QED
      BY <1>10, <3>1, <3>2
  <2>3. Removing'
    BY <1>2, <2>1, <2>2 DEF Removing, OneRow
  <2> QED
    BY <1>1, <1>2, <1>9, <2>1, <2>3 DEF MetricsInv, LoggedWasStored, SessionsKept, Reading, ReportAddsUp
<1>11. CASE DeleteRequests
  <2>1. /\ UNCHANGED <<sessions, reader, log, recorder, issued, stored>> /\ requests' = {}
        /\ resetter'.requests = resetter.requests
    BY <1>2, <1>11 DEF DeleteRequests, MetricsTyped
  <2>2. Removing' /\ SessionsKept'
    BY <1>2, <2>1 DEF Removing, SessionsKept
  <2> QED
    BY <1>1, <1>2, <1>9, <2>1, <2>2 DEF MetricsInv, LoggedWasStored, Reading, ReportAddsUp
<1>12. CASE DeleteSessions
  <2>1. /\ UNCHANGED <<log, recorder, issued, stored>> /\ resetter.pc = "sessions"
        /\ requests' = {[row EXCEPT !.session = NoSession] : row \in requests}
        /\ resetter'.requests = resetter.requests /\ resetter'.pc = "done" /\ reader'.cut
    BY <1>2, <1>12 DEF DeleteSessions, MetricsTyped
  <2>2. requests \subseteq Row
    BY <1>2 DEF MetricsTyped, MetricsTypeOK
  <2>3. \A new \in requests' : new.session = NoSession /\ new.late /\ new.id \in Ids(requests)
    BY <1>2, <2>1, <2>2 DEF Removing, Row
  <2>4. Removing' /\ SessionsKept'
    BY <1>2, <2>1, <2>3 DEF Removing, SessionsKept
  <2>5. Ids(requests') \subseteq Ids(requests)
    BY <2>3
  <2> QED
    BY <1>1, <1>2, <1>9, <2>1, <2>4, <2>5 DEF MetricsInv, LoggedWasStored, Reading, ReportAddsUp
<1>13. CASE SumRequests \/ SumSessions
  <2>1. UNCHANGED <<sessions, requests, log, recorder, issued, stored, resetter>>
    BY <1>13 DEF SumRequests, SumSessions
  <2>2. Reading' /\ ReportAddsUp'
    <3>1. CASE SumRequests
      BY <1>2, <2>1, <3>1 DEF SumRequests, Reading, ReportAddsUp, SessionsKept
    <3>2. CASE SumSessions
      <4>1. /\ reader.pc = "sessions" /\ reader'.pc = "done" /\ reader'.sessions = sessions
            /\ reader'.requests = reader.requests /\ reader'.cut = reader.cut
        BY <1>2, <3>2 DEF SumSessions, MetricsTyped
      <4> QED
        BY <1>2, <2>1, <4>1 DEF Reading, ReportAddsUp
    <3> QED
      BY <1>13, <3>1, <3>2
  <2> QED
    BY <1>1, <1>2, <1>9, <2>1, <2>2 DEF MetricsInv, LoggedWasStored, SessionsKept, Removing
<1>14. CASE UNCHANGED metricVars
  BY <1>1, <1>2, <1>9, <1>14 DEF metricVars, MetricsInv, LoggedWasStored, SessionsKept, Removing, Reading, ReportAddsUp
<1> QED
  BY <1>5, <1>6, <1>7, <1>8, <1>10, <1>11, <1>12, <1>13, <1>14 DEF MetricsNext, Record, Reset

\* The tables, the day's log, a report and a reset agree on the queries, however
\* many processes record, read and delete at once and whatever fails.
THEOREM MetricsAgreeCorrect == MetricsSpec => []MetricsAgree
<1>1. MetricsInv => MetricsAgree
  BY DEF MetricsInv, MetricsAgree, Removing, ResetRemoves
<1> QED
  BY <1>1, MetricsInvInit, MetricsInvStep, PTL DEF MetricsSpec
=============================================================================
