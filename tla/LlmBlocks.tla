------------------------------ MODULE LlmBlocks -------------------------------
(***************************************************************************)
(* Rate-limit blocks: `brain llm block` and `unblock`, by hand or from the *)
(* Stop hook, rewrite llm_state.json; `brain query`, not the daemon, reads *)
(* it to choose between Claude and DeepSeek.  Nobody holds a lock: a       *)
(* command reads the file, opens it (which empties it) and writes it, and  *)
(* may die anywhere.                                                       *)
(***************************************************************************)
EXTENDS Integers, FiniteSets

CONSTANTS
  Commands,           \* processes that may run `brain llm` at the same time
  Providers, Claude,  \* names in the file; Claude is the one queries look for
  Hours,              \* windows, in ticks
  Malformed,          \* a file that does not parse
  Absent,             \* no entry for a provider
  MaxNow, MaxCommands \* BOUNDS: ticks, commands

\* Until when each provider is blocked.
LlmState == [Providers -> Nat \cup {Absent}]

ASSUME BlockConstants ==
  /\ Claude \in Providers /\ IsFiniteSet(Providers)
  /\ Hours \subseteq Nat /\ MaxNow \in Nat /\ MaxCommands \in Nat
  /\ Absent \notin Nat /\ Malformed \notin LlmState

Nobody == [p \in Providers |-> Absent]

VARIABLES
  now,
  file,     \* its content, and how long it is
  command,  \* what each process is doing
  started,  \* commands so far
  query,    \* a `brain query`: they do not write, so one stands for all
  due,      \* until when each provider should be blocked, by commands that ended
  last,     \* until when a command has last tried to block Claude
  orderly   \* no command has met another or has been cut short

blockVars == <<now, file, command, started, query, due, last, orderly>>

\* Entries differ in length only by the names of the providers.
Size(state) == Cardinality({p \in Providers : state[p] # Absent})

Idle == [pc |-> "idle", op |-> "unblock", provider |-> Claude, state |-> Nobody]

BlocksInit ==
  /\ now = 0 /\ started = 0
  /\ file = [state |-> Nobody, size |-> 0]   \* a missing file is an empty state
  /\ command = [c \in Commands |-> Idle]
  /\ query = [pc |-> "start", state |-> Nobody, calm |-> FALSE, due |-> 0,
              at |-> 0, load |-> FALSE, route |-> "claude"]
  /\ due = [p \in Providers |-> 0]
  /\ last = 0 /\ orderly = TRUE

Quiet == \A c \in Commands : command[c].pc = "idle"

\* read()?: a file that does not parse ends the command.
ReadState(c, op, p) ==
  /\ command[c].pc = "idle" /\ started < MaxCommands
  /\ file.state # Malformed
  /\ command' = [command EXCEPT ![c] = [pc |-> "change", op |-> op, provider |-> p,
                                        state |-> file.state]]
  /\ started' = started + 1
  /\ orderly' = (orderly /\ Quiet)
  /\ UNCHANGED <<now, file, query, due, last>>

\* Mutant: the new state has this provider only.
ChangeForgets(c, hours) ==
  LET me == command[c] IN
  /\ me.pc = "change"
  /\ command' = [command EXCEPT ![c].pc = "open", ![c].state =
                   [Nobody EXCEPT ![me.provider] = IF me.op = "block" THEN now + hours ELSE @]]
  /\ last' = IF me.op = "block" /\ me.provider = Claude /\ now + hours > last
             THEN now + hours ELSE last
  /\ UNCHANGED <<now, file, started, query, due, orderly>>

\* Insert or remove the entry, in memory.
Change(c, hours) ==
  LET me == command[c] IN
  /\ me.pc = "change"
  /\ command' = [command EXCEPT ![c].pc = "open", ![c].state =
                   [@ EXCEPT ![me.provider] = IF me.op = "block" THEN now + hours ELSE Absent]]
  /\ last' = IF me.op = "block" /\ me.provider = Claude /\ now + hours > last
             THEN now + hours ELSE last
  /\ UNCHANGED <<now, file, started, query, due, orderly>>

\* fs::write, first half: the file is opened and thereby emptied.
Open(c) ==
  /\ command[c].pc = "open"
  /\ file' = [state |-> Malformed, size |-> 0]
  /\ command' = [command EXCEPT ![c].pc = "fill"]
  /\ UNCHANGED <<now, started, query, due, last, orderly>>

\* fs::write, second half, from the beginning of the file: what another has
\* written meanwhile sticks out when it is longer.
Fill(c) ==
  LET me == command[c]
      p  == me.provider
  IN  /\ me.pc = "fill"
      /\ file' = IF Size(me.state) >= file.size
                 THEN [state |-> me.state, size |-> Size(me.state)]
                 ELSE [file EXCEPT !.state = Malformed]
      /\ command' = [command EXCEPT ![c] = Idle]
      /\ due' = [due EXCEPT ![p] = IF me.op = "block" THEN me.state[p] ELSE 0]
      /\ UNCHANGED <<now, started, query, last, orderly>>

Die(c) ==
  /\ command[c].pc # "idle"
  /\ command' = [command EXCEPT ![c] = Idle]
  /\ orderly' = (orderly /\ command[c].pc # "fill")
  /\ UNCHANGED <<now, file, started, query, due, last>>

\* The user removes a file that does not parse.
Repair ==
  /\ file.state = Malformed /\ Quiet
  /\ file' = [state |-> Nobody, size |-> 0]
  /\ due' = [p \in Providers |-> 0]
  /\ orderly' = TRUE
  /\ UNCHANGED <<now, command, started, query, last>>

\* A query reads the file; unwrap_or_default takes a malformed one for no block.
Look ==
  /\ query.pc \in {"start", "routed"}
  /\ query' = [query EXCEPT !.pc = "read",
                 !.state = IF file.state = Malformed THEN Nobody ELSE file.state,
                 !.calm = orderly /\ Quiet, !.due = due[Claude]]
  /\ UNCHANGED <<now, file, command, started, due, last, orderly>>

is_blocked(state) == state[Claude] # Absent /\ state[Claude] > now

\* route() without a forced provider.
route(load, blocked) == IF load \/ blocked THEN "deepseek" ELSE "claude"

Route(load) ==
  /\ query.pc = "read"
  /\ query' = [query EXCEPT !.pc = "routed", !.at = now, !.load = load,
                 !.route = route(load, is_blocked(query.state)), !.state = Nobody]
  /\ UNCHANGED <<now, file, command, started, due, last, orderly>>

Tick ==
  /\ now < MaxNow
  /\ now' = now + 1
  /\ UNCHANGED <<file, command, started, query, due, last, orderly>>

Command(c) ==
  \/ \E op \in {"block", "unblock"}, p \in Providers : ReadState(c, op, p)
  \/ \E hours \in Hours : Change(c, hours)
  \/ Open(c)
  \/ Fill(c)
  \/ Die(c)

BlocksNext ==
  \/ \E c \in Commands : Command(c)
  \/ Repair
  \/ Look
  \/ \E load \in BOOLEAN : Route(load)
  \/ Tick

BlocksSpec == BlocksInit /\ [][BlocksNext]_blockVars

-----------------------------------------------------------------------------
BlocksTypeOK ==
  /\ now \in Nat /\ started \in Nat /\ last \in Nat /\ orderly \in BOOLEAN
  /\ file \in [state : LlmState \cup {Malformed}, size : Nat]
  /\ command \in [Commands -> [pc : {"idle", "change", "open", "fill"}, op : {"block", "unblock"},
                               provider : Providers, state : LlmState]]
  /\ query \in [pc : {"start", "read", "routed"}, state : LlmState, calm : BOOLEAN, due : Nat,
                at : Nat, load : BOOLEAN, route : {"claude", "deepseek"}]
  /\ due \in [Providers -> Nat]

\* A query of an idle machine that saw the file while no command was under way,
\* and after commands that ran one after the other, goes to DeepSeek exactly if
\* the last command about Claude was a block that has not expired, whatever was
\* said of other providers.  In any disorder, with lost updates and files cut
\* short, it goes there no longer than the longest block asked for: a block
\* expires by itself.
BlockHonoured ==
  query.pc = "routed" /\ ~query.load =>
    /\ query.calm => (query.route = "deepseek" <=> query.due > query.at)
    /\ query.route = "deepseek" => query.at < last
=============================================================================
