---------------------------- MODULE DaemonCommands ----------------------------
(***************************************************************************)
(* `brain daemon start`, `stop` and `status`, and the prompt hook of the   *)
(* editor, over the processes of DaemonLifecycle.  The hook means to start *)
(* a daemon that does not answer its ping; but the ping succeeds whatever  *)
(* the answer, so that it goes on to ask again, and to query.              *)
(*                                                                         *)
(* A command takes a daemon for alive when a ping is answered: it          *)
(* connects, which the kernel accepts from bind on, and waits.             *)
(***************************************************************************)
EXTENDS DaemonLifecycle

CONSTANTS
  Commands,  \* command processes, each used again and again
  Slow       \* whether an answer may take longer than the 30 s of a command

ASSUME CommandConstants == Slow \in BOOLEAN

VARIABLES
  cmd,     \* each command
  steady   \* the daemons that have served since it began, until it says so

commandVars == <<vars, cmd, steady>>

Ops     == {"start", "stop", "status", "hook"}
\* The requests a command waits for: "first" and "wait" are those of `brain
\* daemon start`, "probe", "again" and "query" those of the hook.
Asking  == {"probe", "first", "wait", "again", "query", "status"}
Stages  == {"idle", "spawn", "readpid", "kill"} \cup Asking
Verdict == {"none", "already", "started", "error", "stopped", "kill_failed",
            "not_running", "up", "down", "injected", "failed", "silent"}

IdleCommand == [op |-> "status", stage |-> "idle", peer |-> None, child |-> None,
                verdict |-> "none"]

CommandsInit ==
  /\ Init
  /\ cmd = [k \in Commands |-> IdleCommand]
  /\ steady = [k \in Commands |-> {}]

Stage(k)  == cmd[k].stage
Active(k) == Stage(k) # "idle"

\* The end of a command.  What it said stays until its process is used again.
Finished(c, verdict) == [c EXCEPT !.op = "status", !.stage = "idle", !.verdict = verdict]

\* What ~Overlap assumes when a command begins: no other is under way, and no
\* daemon starts or ends.
Orderly == (\A j \in Commands : ~Active(j)) /\ (\A d \in Daemons : Settled(d))

\* Mutant: `brain daemon start` leaves it to the daemon to find another.
BeginUnasked(k) ==
  /\ ~Active(k)
  /\ Overlap \/ Orderly
  /\ \E op \in Ops :
       cmd' = [cmd EXCEPT ![k] = [IdleCommand EXCEPT
         !.op = op,
         !.stage = CASE op = "start" -> "spawn"  [] op = "stop" -> "readpid"
                     [] op = "hook" -> "probe"   [] op = "status" -> "status"]]
  /\ UNCHANGED vars

Begin(k) ==
  /\ ~Active(k)
  /\ Overlap \/ Orderly
  /\ \E op \in Ops :
       cmd' = [cmd EXCEPT ![k] = [IdleCommand EXCEPT
         !.op = op,
         !.stage = CASE op = "start" -> "first"  [] op = "stop" -> "readpid"
                     [] op = "hook" -> "probe"   [] op = "status" -> "status"]]
  /\ UNCHANGED vars

\* What a command does with an answer, and with none.  The ping of the hook's
\* script prints "no response" and exits 0: the script goes on in either case.
Answered(c, alive) ==
  CASE c.stage = "probe"  -> [c EXCEPT !.stage = "again", !.peer = None]
    [] c.stage = "first"  -> IF alive THEN Finished(c, "already")
                             ELSE [c EXCEPT !.stage = "spawn", !.peer = None]
    [] c.stage = "wait"   -> IF alive THEN Finished(c, "started") ELSE [c EXCEPT !.peer = None]
    [] c.stage = "again"  -> IF alive THEN [c EXCEPT !.stage = "query", !.peer = None]
                             ELSE Finished(c, "silent")
    [] c.stage = "query"  -> Finished(c, IF alive THEN "injected" ELSE "silent")
    [] c.stage = "status" -> Finished(c, IF alive THEN "up" ELSE "down")

\* socket_request: the connection is refused when there is no listener.
Connect(k) ==
  /\ Stage(k) \in Asking /\ cmd[k].peer = None
  /\ cmd' = [cmd EXCEPT ![k] = IF sock # None /\ Listening(sock)
                               THEN [@ EXCEPT !.peer = sock] ELSE Answered(@, FALSE)]
  /\ UNCHANGED vars

\* Mutant: the end of a connection goes unnoticed.
ReplyOrWait(k) ==
  /\ Stage(k) \in Asking /\ cmd[k].peer # None
  /\ At(cmd[k].peer, "serve")
  /\ cmd' = [cmd EXCEPT ![k] = Answered(@, TRUE)]
  /\ UNCHANGED vars

\* A daemon that serves answers, a query maybe with an error; so may one that
\* was told to end, whose connections have tasks of their own, or it closes the
\* connection, as one that dies does; the read may time out.
Reply(k) ==
  /\ Stage(k) \in Asking /\ cmd[k].peer # None
  /\ LET peer == cmd[k].peer IN
     \/ /\ pc[peer] \in {"serve"} \cup Closing
        /\ \/ cmd' = [cmd EXCEPT ![k] = Answered(@, TRUE)]
           \/ Stage(k) = "query" /\ cmd' = [cmd EXCEPT ![k] = Finished(@, "failed")]
     \/ /\ pc[peer] \in Closing \cup Ended \/ Slow
        /\ cmd' = [cmd EXCEPT ![k] = Answered(@, FALSE)]
  /\ UNCHANGED vars

\* find_daemon_binary and spawn, which may fail.
Launch(k) ==
  /\ Stage(k) = "spawn"
  /\ \/ \E d \in Daemons :
          /\ Spawn(d)
          /\ cmd' = [cmd EXCEPT ![k].stage = "wait", ![k].child = d]
     \/ /\ cmd' = [cmd EXCEPT ![k] = Finished(@, "error")]
        /\ UNCHANGED vars

\* The deadline is looked at after a ping without answer: "timed out", or
\* "exited early".
GiveUp(k) ==
  /\ Stage(k) = "wait" /\ cmd[k].peer = None
  /\ cmd' = [cmd EXCEPT ![k] = Finished(@, "error")]
  /\ UNCHANGED vars

\* Mutant: what the file holds is not parsed.
ReadPidAsIs(k) ==
  /\ Stage(k) = "readpid"
  /\ cmd' = [cmd EXCEPT ![k] = IF pid = None THEN Finished(@, "not_running")
                               ELSE [@ EXCEPT !.stage = "kill", !.peer = pid]]
  /\ UNCHANGED vars

\* No file, a file without a number ("invalid PID"), or the process it names,
\* which is kept in peer.
ReadPid(k) ==
  /\ Stage(k) = "readpid"
  /\ cmd' = [cmd EXCEPT ![k] = IF pid \in Daemons THEN [@ EXCEPT !.stage = "kill", !.peer = pid]
                               ELSE Finished(@, IF pid = None THEN "not_running" ELSE "error")]
  /\ UNCHANGED vars

\* Mutant: the process is only probed, as by kill -0.
ProbePid(k) ==
  /\ Stage(k) = "kill"
  /\ cmd' = [cmd EXCEPT ![k] = Finished(@, IF Running(cmd[k].peer) THEN "stopped" ELSE "kill_failed")]
  /\ UNCHANGED vars

\* kill(1): SIGTERM, or an error when there is no such process.
KillPid(k) ==
  /\ Stage(k) = "kill"
  /\ LET d == cmd[k].peer IN
     /\ cmd' = [cmd EXCEPT ![k] = Finished(@, IF Running(d) THEN "stopped" ELSE "kill_failed")]
     /\ IF pc[d] \in Starting \cup {"serve"} THEN Signal(d) ELSE UNCHANGED vars

\* The user interrupts a command, or a hook is cut off: a daemon that was
\* spawned goes on.
Interrupt(k) ==
  /\ Active(k)
  /\ cmd' = [cmd EXCEPT ![k] = IdleCommand]
  /\ UNCHANGED vars

CommandStep(k) ==
  \/ Begin(k) \/ Connect(k) \/ Reply(k) \/ Launch(k) \/ GiveUp(k) \/ ReadPid(k)
  \/ KillPid(k) \/ Interrupt(k)

\* What a daemon does by itself, and what others do to it.
DaemonStep(d) ==
  /\ StartStep(d) \/ Signal(d) \/ CloseStep(d) \/ Kill(d)
  /\ UNCHANGED cmd

Serving == {d \in Daemons : At(d, "serve")}

Watched ==
  steady' = [k \in Commands |->
    IF Active(k) THEN steady[k] \cap Serving'
    ELSE IF Active(k)' THEN Serving ELSE {}]

CommandsNext ==
  /\ (\E k \in Commands : CommandStep(k)) \/ (\E d \in Daemons : DaemonStep(d))
  /\ Watched

CommandsSpec == CommandsInit /\ [][CommandsNext]_commandVars

\* A command goes on by itself, and so does a daemon that starts or ends.
GoesOn(k) == Connect(k) \/ Reply(k) \/ Launch(k) \/ GiveUp(k) \/ ReadPid(k) \/ KillPid(k)

FairCommands ==
  /\ CommandsSpec
  /\ \A k \in Commands : WF_commandVars(GoesOn(k) /\ Watched)
  /\ \A d \in Daemons : WF_commandVars((StartStep(d) \/ CloseStep(d)) /\ UNCHANGED cmd /\ Watched)

-----------------------------------------------------------------------------
CommandsTypeOK ==
  /\ TypeOK
  /\ cmd \in [Commands -> [op : Ops, stage : Stages, peer : Daemons \cup {None},
                           child : Daemons \cup {None}, verdict : Verdict]]
  /\ steady \in [Commands -> SUBSET Daemons]

\* A daemon that serves all along is never taken for dead: no second one is
\* spawned, no command fails on it, and no prompt goes without its answer (which
\* may be that the query failed).
NoFalseAlarm ==
  \A k \in Commands : steady[k] # {} =>
    /\ Stage(k) # "spawn"
    /\ cmd[k].verdict \notin {"down", "silent", "error", "not_running", "kill_failed"}

\* "started (PID n)" names the daemon that answered (daemon.rs:128).
StartedIsChild ==
  \A k \in Commands : cmd[k].verdict = "started" => cmd[k].peer = cmd[k].child

\* What commands say is true, when they come one after the other and no answer
\* is slow.
TruthfulCommands == NoFalseAlarm /\ StartedIsChild

\* When `brain daemon stop` returns, no daemon serves.
StopStops ==
  [][\A k \in Commands :
       cmd[k].verdict = "none" /\ cmd'[k].verdict \in {"stopped", "kill_failed", "not_running"}
         => \A d \in Daemons : pc'[d] # "serve"]_commandVars

\* "start the daemon if it is not responding" (install_hooks.rs:91): when no daemon
\* takes connections the hook does not go straight from its ping to its query.
PromptStartsDaemon ==
  [][\A k \in Commands : Stage(k) = "probe" /\ cmd'[k].stage = "again" =>
       \E d \in Daemons : Listening(d)]_commandVars

\* Every command ends, whatever becomes of the daemon it waits for.
CommandsEnd == \A k \in Commands : Active(k) ~> ~Active(k)
=============================================================================
