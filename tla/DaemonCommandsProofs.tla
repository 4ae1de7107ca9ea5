----------------------- MODULE DaemonCommandsProofs --------------------------
(***************************************************************************)
(* Theorems about DaemonLifecycle and DaemonCommands: commands implement   *)
(* the lifecycle; one daemon serves and is the one found, and what         *)
(* commands say is true, for any number of daemons and commands, killed at *)
(* any point, when they come one after the other (~Overlap) and no answer  *)
(* is slow (~Slow); and, if they overlap too, each gets on.                *)
(***************************************************************************)
EXTENDS DaemonCommands, Naturals, TLAPS

-----------------------------------------------------------------------------
(* The lifecycle by itself.                                                *)

LEMMA TypeInit == Init => TypeOK
BY DEF Init, TypeOK

LEMMA TypeStep == TypeOK /\ [Next]_vars => TypeOK'
<1> SUFFICES ASSUME TypeOK, [Next]_vars PROVE TypeOK'
  OBVIOUS
<1> USE DEF TypeOK, At, Goto, Starting, Closing, Ended
<1>1. ASSUME NEW d \in Daemons, Spawn(d) \/ Signal(d) \/ Kill(d) PROVE TypeOK'
  BY <1>1 DEF Spawn, Signal, Kill
<1>2. ASSUME NEW d \in Daemons, StartStep(d) PROVE TypeOK'
  BY <1>2 DEF StartStep, CheckSocket, Probe, Unlink, RemovePid, InitWorker,
              Bind, CreatePid, WritePid, StartWatcher
<1>3. ASSUME NEW d \in Daemons, CloseStep(d) PROVE TypeOK'
  BY <1>3 DEF CloseStep, SendShutdown, RemoveSocket, RemoveOwnPid
<1>4. CASE UNCHANGED vars
  BY <1>4 DEF vars
<1> QED
  BY <1>1, <1>2, <1>3, <1>4 DEF Next

\* However starts, stops and kills interleave, the two files name processes.
THEOREM TypeCorrect == Spec => []TypeOK
BY TypeInit, TypeStep, PTL DEF Spec

-----------------------------------------------------------------------------
(* The inductive invariant: one process at a time is on its way in or out, *)
(* the listener owns the socket file until it removes it, and a process    *)
(* past its probe starts from a clean slate.                               *)

OneUnsettled == \A d, e \in Daemons : ~Settled(d) /\ ~Settled(e) => d = e

OneListening == \A d, e \in Daemons : Listening(d) /\ Listening(e) => d = e

ListenerOwnsFiles ==
  \A d \in Daemons :
    /\ Listening(d) /\ pc[d] # "rmownpid" => sock = d
    /\ pc[d] \in {"watch", "serve", "shutdown", "rmsock"} => pid = d

CleanSlate ==
  \A d \in Daemons :
    /\ pc[d] \in {"unlink", "rmpid", "init", "bind"} =>
         \A e \in Daemons : ~Listening(e)
    /\ pc[d] \in {"rmpid", "init", "bind"} => sock = None

LifeInv == OneUnsettled /\ OneListening /\ ListenerOwnsFiles /\ CleanSlate

LEMMA LifeInit == Init => LifeInv
BY DEF Init, LifeInv, OneUnsettled, OneListening, ListenerOwnsFiles, CleanSlate,
       Settled, Listening, Closing

LEMMA LifeStep ==
  ASSUME ~Overlap
  PROVE  TypeOK /\ LifeInv /\ [Next]_vars => LifeInv'
<1> SUFFICES ASSUME TypeOK, LifeInv, [Next]_vars PROVE LifeInv'
  OBVIOUS
<1> USE LifecycleConstants
        DEF TypeOK, At, Goto, Starting, Closing, Ended, Settled, Listening
<1>1. ASSUME NEW d \in Daemons, Spawn(d) PROVE LifeInv'
  BY <1>1 DEF Spawn, Alone, LifeInv, OneUnsettled, OneListening,
              ListenerOwnsFiles, CleanSlate
<1>2. ASSUME NEW d \in Daemons, CheckSocket(d) PROVE LifeInv'
  BY <1>2 DEF CheckSocket, LifeInv, OneUnsettled, OneListening,
              ListenerOwnsFiles, CleanSlate
<1>3. ASSUME NEW d \in Daemons, Probe(d) PROVE LifeInv'
  BY <1>3 DEF Probe, LifeInv, OneUnsettled, OneListening,
              ListenerOwnsFiles, CleanSlate
<1>4. ASSUME NEW d \in Daemons, Unlink(d) PROVE LifeInv'
  BY <1>4 DEF Unlink, LifeInv, OneUnsettled, OneListening,
              ListenerOwnsFiles, CleanSlate
<1>5. ASSUME NEW d \in Daemons, RemovePid(d) PROVE LifeInv'
  BY <1>5 DEF RemovePid, LifeInv, OneUnsettled, OneListening,
              ListenerOwnsFiles, CleanSlate
<1>6. ASSUME NEW d \in Daemons, InitWorker(d) PROVE LifeInv'
  BY <1>6 DEF InitWorker, LifeInv, OneUnsettled, OneListening,
              ListenerOwnsFiles, CleanSlate
<1>7. ASSUME NEW d \in Daemons, Bind(d) PROVE LifeInv'
  BY <1>7 DEF Bind, LifeInv, OneUnsettled, OneListening,
              ListenerOwnsFiles, CleanSlate
<1>16. ASSUME NEW d \in Daemons, CreatePid(d) PROVE LifeInv'
  BY <1>16 DEF CreatePid, LifeInv, OneUnsettled, OneListening,
              ListenerOwnsFiles, CleanSlate
<1>8. ASSUME NEW d \in Daemons, WritePid(d) PROVE LifeInv'
  BY <1>8 DEF WritePid, LifeInv, OneUnsettled, OneListening,
              ListenerOwnsFiles, CleanSlate
<1>9. ASSUME NEW d \in Daemons, StartWatcher(d) PROVE LifeInv'
  BY <1>9 DEF StartWatcher, LifeInv, OneUnsettled, OneListening,
              ListenerOwnsFiles, CleanSlate
<1>10. ASSUME NEW d \in Daemons, Signal(d) PROVE LifeInv'
  BY <1>10 DEF Signal, Alone, LifeInv, OneUnsettled, OneListening,
               ListenerOwnsFiles, CleanSlate
<1>11. ASSUME NEW d \in Daemons, SendShutdown(d) PROVE LifeInv'
  BY <1>11 DEF SendShutdown, LifeInv, OneUnsettled, OneListening,
               ListenerOwnsFiles, CleanSlate
<1>12. ASSUME NEW d \in Daemons, RemoveSocket(d) PROVE LifeInv'
  BY <1>12 DEF RemoveSocket, LifeInv, OneUnsettled, OneListening,
               ListenerOwnsFiles, CleanSlate
<1>13. ASSUME NEW d \in Daemons, RemoveOwnPid(d) PROVE LifeInv'
  BY <1>13 DEF RemoveOwnPid, LifeInv, OneUnsettled, OneListening,
               ListenerOwnsFiles, CleanSlate
<1>14. ASSUME NEW d \in Daemons, Kill(d) PROVE LifeInv'
  BY <1>14 DEF Kill, LifeInv, OneUnsettled, OneListening,
               ListenerOwnsFiles, CleanSlate
<1>15. CASE UNCHANGED vars
  BY <1>15 DEF vars, LifeInv, OneUnsettled, OneListening,
               ListenerOwnsFiles, CleanSlate
<1> QED
  BY <1>1, <1>2, <1>3, <1>4, <1>5, <1>6, <1>7, <1>8, <1>9, <1>10, <1>11,
     <1>12, <1>13, <1>14, <1>15, <1>16
  DEF Next, StartStep, CloseStep

LEMMA LifeCorrect ==
  ASSUME ~Overlap
  PROVE  Spec => [](TypeOK /\ LifeInv)
<1>1. Init => TypeOK /\ LifeInv
  BY TypeInit, LifeInit
<1>2. TypeOK /\ LifeInv /\ [Next]_vars => (TypeOK /\ LifeInv)'
  BY TypeStep, LifeStep
<1> QED
  BY <1>1, <1>2, PTL DEF Spec

\* Starts that do not overlap never leave two daemons serving one project.
THEOREM OneServingCorrect ==
  ASSUME ~Overlap
  PROVE  Spec => []OneServing
<1>1. LifeInv => OneServing
  BY DEF LifeInv, OneListening, OneServing, At, Listening
<1> QED
  BY LifeCorrect, <1>1, PTL

\* A serving daemon owns the socket and is the one the PID file names.
THEOREM ServerIsReachableCorrect ==
  ASSUME ~Overlap
  PROVE  Spec => []ServerIsReachable
<1>1. LifeInv => ServerIsReachable
  BY DEF LifeInv, ListenerOwnsFiles, ServerIsReachable, At, Listening, Closing
<1> QED
  BY LifeCorrect, <1>1, PTL

\* Whatever earlier daemons left, the path is free when a daemon binds.
THEOREM StaleFilesRemovedCorrect ==
  ASSUME ~Overlap
  PROVE  Spec => []StaleFilesRemoved
<1>1. LifeInv => StaleFilesRemoved
  BY DEF LifeInv, CleanSlate, StaleFilesRemoved, At
<1> QED
  BY LifeCorrect, <1>1, PTL

\* A start that is refused leaves another daemon that serves.
THEOREM RefusalJustifiedCorrect ==
  ASSUME ~Overlap
  PROVE  Spec => RefusalJustified
<1> DEFINE Justified ==
      \A d \in Daemons :
        At(d, "probe") /\ pc'[d] = "refused" =>
          \E e \in Daemons \ {d} : Running(e) /\ pc[e] \notin Closing
<1>1. TypeOK /\ LifeInv /\ [Next]_vars => [Justified]_vars
  <2> SUFFICES ASSUME TypeOK, LifeInv, Next, NEW d \in Daemons,
                      At(d, "probe"), pc'[d] = "refused"
               PROVE  \E e \in Daemons \ {d} : Running(e) /\ pc[e] \notin Closing
    OBVIOUS
  <2>1. Probe(d)
    <3>1. PICK e \in Daemons :
            Spawn(e) \/ StartStep(e) \/ Signal(e) \/ CloseStep(e) \/ Kill(e)
      BY DEF Next
    <3>2. e = d
      BY <3>1 DEF Spawn, StartStep, Signal, CloseStep, Kill, CheckSocket, Probe,
        Unlink, RemovePid, InitWorker, Bind, CreatePid, WritePid, StartWatcher,
        SendShutdown, RemoveSocket, RemoveOwnPid, At, Goto, TypeOK
    <3> QED
      BY <3>1, <3>2 DEF Spawn, StartStep, Signal, CloseStep, Kill, CheckSocket,
        Unlink, RemovePid, InitWorker, Bind, CreatePid, WritePid, StartWatcher,
        SendShutdown, RemoveSocket, RemoveOwnPid, At, Goto, TypeOK
  <2>2. sock # None /\ Listening(sock) /\ sock \in Daemons
    BY <2>1 DEF Probe, At, Goto, TypeOK
  <2>3. sock # d
    BY <2>2 DEF At, Listening, Closing
  <2>4. pc[sock] = "serve"
    BY <2>2, <2>3 DEF LifeInv, OneUnsettled, Settled, At, Listening, Ended, Closing
  <2> QED
    BY <2>2, <2>3, <2>4 DEF Running, Ended, Closing
<1>2. Spec => [][Justified]_vars
  BY <1>1, LifeCorrect, PTL DEF Spec
<1> QED
  BY <1>2 DEF RefusalJustified

-----------------------------------------------------------------------------
(* Commands.                                                               *)

Command == [op : Ops, stage : Stages, peer : Daemons \cup {None},
            child : Daemons \cup {None}, verdict : Verdict]

\* A command signals the process it has read from the file.
KillKnows == \A k \in Commands : Stage(k) = "kill" => cmd[k].peer \in Daemons

TypeInv == CommandsTypeOK /\ KillKnows

LEMMA FinishedTyped ==
  ASSUME NEW c \in Command, NEW v \in Verdict
  PROVE  Finished(c, v) \in Command /\ Finished(c, v).stage # "kill"
BY DEF Finished, Command, Ops, Stages, Asking

LEMMA AnsweredTyped ==
  ASSUME NEW c \in Command, c.stage \in Asking, NEW alive \in BOOLEAN
  PROVE  Answered(c, alive) \in Command /\ Answered(c, alive).stage # "kill"
<1>1. \A v \in Verdict : Finished(c, v) \in Command /\ Finished(c, v).stage # "kill"
  BY FinishedTyped
<1>2. {"already", "started", "silent", "injected", "up", "down"} \subseteq Verdict
  BY DEF Verdict
<1>3. \A s \in {"again", "spawn", "query"} :
        LET n == [c EXCEPT !.stage = s, !.peer = None]
        IN  n \in Command /\ n.stage # "kill"
  BY DEF Command, Stages, Asking
<1>4. [c EXCEPT !.peer = None] \in Command
  BY DEF Command
<1> QED
  BY <1>1, <1>2, <1>3, <1>4 DEF Answered, Asking

-----------------------------------------------------------------------------
(* Every step of a command or a daemon is one of a daemon's life or leaves *)
(* it alone.                                                               *)

LEMMA StepsOfLife == TypeInv /\ [CommandsNext]_commandVars => [Next]_vars
<1> SUFFICES ASSUME TypeInv, [CommandsNext]_commandVars PROVE [Next]_vars
  OBVIOUS
<1>1. ASSUME NEW k \in Commands, CommandStep(k) PROVE [Next]_vars
  <2>1. CASE Begin(k) \/ Connect(k) \/ Reply(k) \/ GiveUp(k) \/ ReadPid(k) \/ Interrupt(k)
    BY <2>1 DEF Begin, Connect, Reply, GiveUp, ReadPid, Interrupt
  <2>2. CASE Launch(k)
    BY <2>2 DEF Launch, Next
  <2>3. CASE KillPid(k)
    BY <2>3 DEF KillPid, Next, TypeInv, KillKnows
  <2> QED
    BY <1>1, <2>1, <2>2, <2>3 DEF CommandStep
<1>2. ASSUME NEW d \in Daemons, DaemonStep(d) PROVE [Next]_vars
  BY <1>2 DEF DaemonStep, Next
<1>3. CASE UNCHANGED commandVars
  BY <1>3 DEF commandVars
<1> QED
  BY <1>1, <1>2, <1>3 DEF CommandsNext

LEMMA CommandTypeInit == CommandsInit => TypeInv
BY TypeInit DEF CommandsInit, TypeInv, CommandsTypeOK, KillKnows, IdleCommand, Stage,
                Ops, Stages, Asking, Verdict

LEMMA CommandTypeStep == TypeInv /\ [CommandsNext]_commandVars => TypeInv'
<1> SUFFICES ASSUME TypeInv, [CommandsNext]_commandVars PROVE TypeInv'
  OBVIOUS
<1> DEFINE Known(c) == c \in Command /\ (c.stage = "kill" => c.peer \in Daemons)
<1>1. TypeOK'
  BY StepsOfLife, TypeStep DEF TypeInv, CommandsTypeOK
<1>2. cmd \in [Commands -> Command] /\ \A k \in Commands : Known(cmd[k])
  BY DEF TypeInv, CommandsTypeOK, Command, KillKnows, Stage
<1>3. ASSUME NEW k \in Commands, CommandStep(k)
      PROVE  \E c : Known(c) /\ cmd' = [cmd EXCEPT ![k] = c]
  <2> USE <1>2
  <2>1. CASE Begin(k)
    <3>1. PICK op \in Ops :
            cmd' = [cmd EXCEPT ![k] = [IdleCommand EXCEPT
              !.op = op,
              !.stage = CASE op = "start" -> "first"  [] op = "stop" -> "readpid"
                          [] op = "hook" -> "probe"   [] op = "status" -> "status"]]
      BY <2>1 DEF Begin
    <3>2. PICK s \in {"first", "readpid", "probe", "status"} :
            cmd' = [cmd EXCEPT ![k] = [IdleCommand EXCEPT !.op = op, !.stage = s]]
      BY <3>1 DEF Ops
    <3>3. Known([IdleCommand EXCEPT !.op = op, !.stage = s])
      BY DEF IdleCommand, Command, Stages, Asking, Verdict
    <3> QED
      BY <3>2, <3>3
  <2>2. CASE Connect(k)
    <3>1. cmd[k].stage \in Asking
      BY <2>2 DEF Connect, Stage
    <3>2. Known(Answered(cmd[k], FALSE))
      BY <3>1, AnsweredTyped
    <3>3. sock \in Daemons \cup {None}
      BY DEF TypeInv, CommandsTypeOK, TypeOK
    <3>4. Known([cmd[k] EXCEPT !.peer = sock])
      BY <3>1, <3>3 DEF Command, Asking
    <3> QED
      BY <2>2, <3>2, <3>4 DEF Connect
  <2>3. CASE Reply(k)
    <3>1. cmd[k].stage \in Asking
      BY <2>3 DEF Reply, Stage
    <3>2. Known(Answered(cmd[k], FALSE)) /\ Known(Answered(cmd[k], TRUE))
      BY <3>1, AnsweredTyped
    <3>3. Known(Finished(cmd[k], "failed"))
      BY FinishedTyped DEF Verdict
    <3> QED
      BY <2>3, <3>2, <3>3 DEF Reply
  <2>4. CASE Launch(k)
    <3>1. \A d \in Daemons : Known([cmd[k] EXCEPT !.stage = "wait", !.child = d])
      BY DEF Command, Stages, Asking
    <3>2. Known(Finished(cmd[k], "error"))
      BY FinishedTyped DEF Verdict
    <3> QED
      BY <2>4, <3>1, <3>2 DEF Launch
  <2>5. CASE GiveUp(k)
    <3>1. Known(Finished(cmd[k], "error"))
      BY FinishedTyped DEF Verdict
    <3> QED
      BY <2>5, <3>1 DEF GiveUp
  <2>6. CASE ReadPid(k)
    <3>1. Known(Finished(cmd[k], "not_running"))
      BY FinishedTyped DEF Verdict
    <3>2. pid \in Daemons => Known([cmd[k] EXCEPT !.stage = "kill", !.peer = pid])
      BY DEF Command, Stages
    <3>3. Known(Finished(cmd[k], "error"))
      BY FinishedTyped DEF Verdict
    <3> QED
      BY <2>6, <3>1, <3>2, <3>3 DEF ReadPid
  <2>7. CASE KillPid(k)
    <3>1. Known(Finished(cmd[k], "stopped")) /\ Known(Finished(cmd[k], "kill_failed"))
      BY FinishedTyped DEF Verdict
    <3> QED
      BY <2>7, <3>1 DEF KillPid
  <2>8. CASE Interrupt(k)
    <3>1. Known(IdleCommand)
      BY DEF IdleCommand, Command, Ops, Stages, Asking, Verdict
    <3> QED
      BY <2>8, <3>1 DEF Interrupt
  <2> QED
    BY <1>3, <2>1, <2>2, <2>3, <2>4, <2>5, <2>6, <2>7, <2>8 DEF CommandStep
<1>4. cmd' \in [Commands -> Command] /\ \A k \in Commands : Known(cmd'[k])
  <2>1. CASE \E k \in Commands : CommandStep(k)
    BY <1>2, <1>3, <2>1
  <2>2. CASE UNCHANGED cmd
    BY <1>2, <2>2
  <2> QED
    BY <2>1, <2>2 DEF CommandsNext, DaemonStep, commandVars
<1>5. steady' \in [Commands -> SUBSET Daemons]
  <2>1. steady \in [Commands -> SUBSET Daemons]
    BY DEF TypeInv, CommandsTypeOK
  <2>2. CASE Watched
    <3>1. \A k \in Commands :
            (IF Active(k) THEN steady[k] \cap Serving'
             ELSE IF Active(k)' THEN Serving ELSE {}) \in SUBSET Daemons
      BY <2>1 DEF Serving
    <3> QED
      BY <2>2, <3>1 DEF Watched
  <2> QED
    BY <2>1, <2>2 DEF CommandsNext, commandVars
<1> QED
  BY <1>1, <1>4, <1>5 DEF TypeInv, CommandsTypeOK, KillKnows, Command, Stage

\* Commands, their answers and both files keep their types, whatever overlaps.
THEOREM CommandsTypeCorrect == CommandsSpec => []CommandsTypeOK
<1>1. TypeInv => CommandsTypeOK
  BY DEF TypeInv
<1> QED
  BY <1>1, CommandTypeInit, CommandTypeStep, PTL DEF CommandsSpec

\* What commands do to daemons is part of a daemon's life: whatever holds of
\* DaemonLifecycle holds under any commands.
THEOREM CommandsImplementLifecycle == CommandsSpec => Spec
<1>1. CommandsInit => Init
  BY DEF CommandsInit
<1> QED
  BY <1>1, CommandTypeInit, CommandTypeStep, StepsOfLife, PTL DEF CommandsSpec, Spec

-----------------------------------------------------------------------------
(* The inductive invariant: one command at a time is under way; a command  *)
(* that has not spawned a daemon finds none on its way in, so the one it   *)
(* looks at is the only one that may serve; one that has, finds no other   *)
(* than its child; and a daemon that serves all along is the one a command *)
(* is connected to.                                                        *)

FalseAlarms == {"down", "silent", "error", "not_running", "kill_failed"}
NotSpawned  == {"probe", "first", "spawn", "status", "readpid", "kill"}

NoServing == \A d \in Daemons : pc[d] # "serve"

Fits(c, st) ==
  /\ c.stage # "idle" => c.verdict = "none"
  /\ c.stage \in NotSpawned => \A d \in Daemons : pc[d] \notin Starting
  /\ c.stage \in {"first", "kill"} /\ c.peer # None =>
       \A d \in Daemons : pc[d] = "serve" => d = c.peer
  /\ c.stage = "spawn" => NoServing /\ c.peer = None
  /\ c.stage = "wait" =>
       /\ c.peer \in {None, c.child}
       /\ \A d \in Daemons : d # c.child => pc[d] \in {"off"} \cup Ended
  /\ c.verdict = "started" => c.peer = c.child
  /\ \A d \in st : pc[d] = "serve"
  /\ st # {} /\ c.stage # "idle" =>
       c.stage \notin {"spawn", "wait"} /\ (c.peer # None => c.peer \in st)
  /\ st # {} => c.verdict \notin FalseAlarms

OneActive  == \A j, k \in Commands : Active(j) /\ Active(k) => j = k
CommandInv == OneActive /\ \A k \in Commands : Fits(cmd[k], steady[k])

LEMMA CommandInvInit == CommandsInit => CommandInv
BY DEF CommandsInit, CommandInv, OneActive, Fits, IdleCommand, Active, Stage, NotSpawned

\* The end of a command disturbs no other.
LEMMA Ends ==
  ASSUME TypeInv, CommandInv, Watched, NEW k \in Commands, Active(k),
         NEW c \in Command, cmd' = [cmd EXCEPT ![k] = c], c.stage = "idle",
         c.verdict = "started" => c.peer = c.child,
         steady[k] # {} => c.verdict \notin FalseAlarms
  PROVE  CommandInv'
<1>1. \A j \in Commands : cmd'[j] = IF j = k THEN c ELSE cmd[j]
  BY DEF TypeInv, CommandsTypeOK
<1>2. \A j \in Commands : ~Active(j)'
  BY <1>1 DEF CommandInv, OneActive, Active, Stage
<1>3. \A j \in Commands : steady'[j] = IF j = k THEN steady[k] \cap Serving' ELSE {}
  BY <1>2 DEF Watched, CommandInv, OneActive
<1>4. ASSUME NEW j \in Commands PROVE Fits(cmd[j], steady[j])'
  <2>1. \A d \in steady'[j] : pc'[d] = "serve"
    BY <1>3 DEF Serving, At
  <2>2. cmd'[j].stage = "idle"
    BY <1>2 DEF Active, Stage
  <2>3. cmd'[j].verdict = "started" => cmd'[j].peer = cmd'[j].child
    BY <1>1 DEF CommandInv, Fits
  <2>4. steady'[j] # {} => cmd'[j].verdict \notin FalseAlarms
    BY <1>1, <1>3
  <2> QED
    BY <2>1, <2>2, <2>3, <2>4 DEF Fits, NotSpawned
<1> QED
  BY <1>2, <1>4 DEF CommandInv, OneActive

\* A step of a command that leaves the daemons alone.
LEMMA Moves ==
  ASSUME TypeInv, CommandInv, Watched, UNCHANGED vars, NEW k \in Commands, Active(k),
         NEW c \in Command, cmd' = [cmd EXCEPT ![k] = c], Fits(c, steady[k])
  PROVE  CommandInv'
<1>1. \A j \in Commands : cmd'[j] = IF j = k THEN c ELSE cmd[j]
  BY DEF TypeInv, CommandsTypeOK
<1>2. \A j \in Commands : Active(j)' => j = k
  BY <1>1 DEF CommandInv, OneActive, Active, Stage
<1>3. Serving' = Serving /\ steady[k] \subseteq Serving
  BY DEF Serving, At, vars, Fits, TypeInv, CommandsTypeOK
<1>4. \A j \in Commands : steady'[j] = IF j = k THEN steady[k] ELSE {}
  BY <1>2, <1>3 DEF Watched, CommandInv, OneActive
<1>5. Fits(cmd[k], steady[k])'
  BY <1>1, <1>4 DEF Fits, NoServing, vars
<1>6. ASSUME NEW j \in Commands, j # k PROVE Fits(cmd[j], steady[j])'
  <2>1. cmd'[j] = cmd[j] /\ cmd[j].stage = "idle" /\ steady'[j] = {}
    BY <1>1, <1>2, <1>4, <1>6 DEF Active, Stage
  <2> QED
    BY <2>1 DEF CommandInv, Fits, NotSpawned
<1> QED
  BY <1>2, <1>5, <1>6 DEF CommandInv, OneActive

LEMMA NoAnswer ==
  ASSUME NEW c \in Command, c.stage \in Asking, Fits(c, {}), c.stage = "first" => NoServing
  PROVE  Fits(Answered(c, FALSE), {})
<1> USE DEF Command, Fits, Answered, Finished, NotSpawned, Asking
<1>1. CASE c.stage = "probe"
  BY <1>1
<1>2. CASE c.stage = "first"
  BY <1>2
<1>3. CASE c.stage = "wait"
  BY <1>3
<1>4. CASE c.stage = "again"
  BY <1>4
<1>5. CASE c.stage = "query"
  BY <1>5
<1>6. CASE c.stage = "status"
  BY <1>6
<1> QED
  BY <1>1, <1>2, <1>3, <1>4, <1>5, <1>6

LEMMA AnAnswer ==
  ASSUME NEW c \in Command, c.stage \in Asking, c.peer # None, NEW st, Fits(c, st)
  PROVE  Fits(Answered(c, TRUE), st)
<1> USE DEF Command, Fits, Answered, Finished, NotSpawned, Asking, FalseAlarms
<1>1. CASE c.stage = "probe"
  BY <1>1
<1>2. CASE c.stage = "first"
  BY <1>2
<1>3. CASE c.stage = "wait"
  BY <1>3
<1>4. CASE c.stage = "again"
  BY <1>4
<1>5. CASE c.stage = "query"
  BY <1>5
<1>6. CASE c.stage = "status"
  BY <1>6
<1> QED
  BY <1>1, <1>2, <1>3, <1>4, <1>5, <1>6

LEMMA DaemonMoves ==
  ASSUME TypeOK, NEW d \in Daemons, DaemonStep(d)
  PROVE  /\ \A e \in Daemons \ {d} : pc'[e] = pc[e]
         /\ pc[d] \notin {"off"} \cup Ended
         /\ pc[d] \notin Starting => pc'[d] \notin Starting \cup {"serve"}
         /\ UNCHANGED cmd
<1> USE DEF TypeOK, At, Goto, Starting, Closing, Ended
<1>1. CASE StartStep(d)
  BY <1>1 DEF DaemonStep, StartStep, CheckSocket, Probe, Unlink, RemovePid, InitWorker,
              Bind, CreatePid, WritePid, StartWatcher
<1>2. CASE CloseStep(d)
  BY <1>2 DEF DaemonStep, CloseStep, SendShutdown, RemoveSocket, RemoveOwnPid
<1>3. CASE Signal(d) \/ Kill(d)
  BY <1>3 DEF DaemonStep, Signal, Kill, Running
<1> QED
  BY <1>1, <1>2, <1>3 DEF DaemonStep

LEMMA DaemonStepKeeps ==
  ASSUME TypeInv, LifeInv, CommandInv, Watched, NEW d \in Daemons, DaemonStep(d)
  PROVE  CommandInv'
<1>1. /\ \A e \in Daemons \ {d} : pc'[e] = pc[e]
      /\ pc[d] \notin {"off"} \cup Ended
      /\ pc[d] \notin Starting => pc'[d] \notin Starting \cup {"serve"}
      /\ cmd' = cmd
  BY DaemonMoves DEF TypeInv, CommandsTypeOK
<1>2. \A k \in Commands :
        steady'[k] = IF Active(k) THEN steady[k] \cap Serving' ELSE {}
  BY <1>1 DEF Watched, Active, Stage
<1>3. ASSUME NEW k \in Commands PROVE Fits(cmd[k], steady[k])'
  <2>0. Fits(cmd[k], steady[k])
    BY DEF CommandInv
  <2>1. \A e \in steady'[k] : pc'[e] = "serve"
    BY <1>2 DEF Serving, At
  <2>2. cmd[k].stage \in NotSpawned =>
          \A e \in Daemons : pc'[e] \notin Starting /\ (pc'[e] = "serve" => pc[e] = "serve")
    BY <1>1, <2>0 DEF Fits
  <2>3. cmd[k].stage = "wait" =>
          \A e \in Daemons : e # cmd[k].child => pc'[e] \in {"off"} \cup Ended
    BY <1>1, <2>0 DEF Fits
  <2>4. steady'[k] \subseteq steady[k] /\ (steady'[k] # {} => steady[k] # {})
    BY <1>2
  <2>5. steady'[k] # {} /\ cmd[k].stage # "idle" =>
          cmd[k].stage \notin {"spawn", "wait"} /\ (cmd[k].peer # None => cmd[k].peer \in steady'[k])
    <3> SUFFICES ASSUME steady'[k] # {}, cmd[k].stage # "idle"
                 PROVE  cmd[k].stage \notin {"spawn", "wait"}
                        /\ (cmd[k].peer # None => cmd[k].peer \in steady'[k])
      OBVIOUS
    <3>1. cmd[k].stage \notin {"spawn", "wait"} /\ (cmd[k].peer # None => cmd[k].peer \in steady[k])
      BY <2>0, <2>4 DEF Fits
    <3>2. PICK e \in steady'[k] : TRUE
      OBVIOUS
    <3>3. cmd[k].peer # None => cmd[k].peer = e
      <4>1. steady[k] \subseteq Daemons /\ e \in steady[k] /\ pc[e] = "serve"
        BY <2>0, <2>4, <3>2 DEF TypeInv, CommandsTypeOK, Fits
      <4>2. \A f \in steady[k] : pc[f] = "serve" /\ Listening(f) /\ Listening(e)
        BY <2>0, <4>1 DEF Fits, Listening
      <4> QED
        BY <3>1, <4>1, <4>2 DEF LifeInv, OneListening
    <3> QED
      BY <3>1, <3>2, <3>3
  <2> QED
    BY <1>1, <2>0, <2>1, <2>2, <2>3, <2>4, <2>5 DEF Fits, NoServing, NotSpawned
<1> QED
  BY <1>1, <1>3 DEF CommandInv, OneActive, Active, Stage

\* The daemon that serves is the one the files name.
LEMMA Reach ==
  ASSUME TypeOK, LifeInv, NEW d \in Daemons, pc[d] = "serve"
  PROVE  sock = d /\ pid = d /\ Listening(sock) /\ sock # None
BY LifecycleConstants DEF LifeInv, ListenerOwnsFiles, Listening

LEMMA BeginKeeps ==
  ASSUME ~Overlap, TypeInv, CommandInv, Watched, NEW k \in Commands, Begin(k)
  PROVE  CommandInv'
<1>1. (\A j \in Commands : ~Active(j)) /\ (\A d \in Daemons : Settled(d)) /\ UNCHANGED vars
  BY DEF Begin, Orderly
<1>2. PICK op \in Ops :
        cmd' = [cmd EXCEPT ![k] = [IdleCommand EXCEPT
          !.op = op,
          !.stage = CASE op = "start" -> "first"  [] op = "stop" -> "readpid"
                      [] op = "hook" -> "probe"   [] op = "status" -> "status"]]
  BY DEF Begin
<1>3. PICK s \in {"first", "readpid", "probe", "status"} :
        cmd' = [cmd EXCEPT ![k] = [IdleCommand EXCEPT !.op = op, !.stage = s]]
  BY <1>2 DEF Ops
<1>4. \A j \in Commands :
        cmd'[j] = IF j = k THEN [IdleCommand EXCEPT !.op = op, !.stage = s] ELSE cmd[j]
  BY <1>3 DEF TypeInv, CommandsTypeOK
<1>5. \A j \in Commands : Active(j)' <=> j = k
  BY <1>1, <1>4 DEF Active, Stage, IdleCommand
<1>6. \A j \in Commands : steady'[j] = IF j = k THEN Serving ELSE {}
  BY <1>1, <1>5 DEF Watched
<1>7. Fits(cmd[k], steady[k])'
  BY <1>1, <1>4, <1>6 DEF Fits, IdleCommand, NotSpawned, FalseAlarms, Serving, At, vars,
                          Settled, Starting, Ended
<1>8. ASSUME NEW j \in Commands, j # k PROVE Fits(cmd[j], steady[j])'
  <2>1. cmd'[j] = cmd[j] /\ cmd[j].stage = "idle" /\ steady'[j] = {}
    BY <1>1, <1>4, <1>6, <1>8 DEF Active, Stage
  <2> QED
    BY <2>1 DEF CommandInv, Fits, NotSpawned
<1> QED
  BY <1>5, <1>7, <1>8 DEF CommandInv, OneActive

LEMMA ConnectKeeps ==
  ASSUME TypeInv, LifeInv, CommandInv, Watched, NEW k \in Commands, Connect(k)
  PROVE  CommandInv'
<1> DEFINE c == cmd[k]
<1>1. c \in Command /\ c.stage \in Asking /\ Active(k) /\ UNCHANGED vars /\ Fits(c, steady[k])
  BY DEF Connect, TypeInv, CommandsTypeOK, Command, Stage, Active, Asking, CommandInv
<1>2. TypeOK /\ steady[k] \subseteq Daemons
  BY DEF TypeInv, CommandsTypeOK
<1>3. CASE sock # None /\ Listening(sock)
  <2>1. sock \in Daemons
    BY <1>2, <1>3 DEF TypeOK
  <2>2. Fits([c EXCEPT !.peer = sock], steady[k])
    <3>1. \A d \in Daemons : pc[d] = "serve" => d = sock
      BY <1>2, Reach
    <3>2. pc[sock] \notin {"off"} \cup Ended
      BY <1>3 DEF Listening, Closing, Ended
    <3>3. c.stage = "wait" => sock = c.child
      BY <1>1, <2>1, <3>2 DEF Fits
    <3>4. steady[k] # {} => sock \in steady[k]
      BY <1>1, <1>2, <3>1 DEF Fits
    <3> QED
      BY <1>1, <3>1, <3>3, <3>4 DEF Fits, Command, Asking, NotSpawned
  <2>3. cmd' = [cmd EXCEPT ![k] = [c EXCEPT !.peer = sock]]
    BY <1>3 DEF Connect
  <2>4. [c EXCEPT !.peer = sock] \in Command
    BY <1>1, <2>1 DEF Command
  <2> HIDE DEF c
  <2> QED
    BY <1>1, <2>2, <2>3, <2>4, Moves
<1>4. CASE ~(sock # None /\ Listening(sock))
  <2>1. NoServing
    BY <1>2, <1>4, Reach DEF NoServing
  <2>2. steady[k] = {}
    BY <1>1, <1>2, <2>1 DEF Fits, NoServing
  <2>3. Fits(Answered(c, FALSE), steady[k])
    BY <1>1, <2>1, <2>2, NoAnswer
  <2>4. cmd' = [cmd EXCEPT ![k] = Answered(c, FALSE)]
    BY <1>4 DEF Connect
  <2>5. Answered(c, FALSE) \in Command
    BY <1>1, AnsweredTyped
  <2> HIDE DEF c
  <2> QED
    BY <1>1, <2>3, <2>4, <2>5, Moves
<1> QED
  BY <1>3, <1>4

LEMMA ReplyKeeps ==
  ASSUME ~Slow, TypeInv, CommandInv, Watched, NEW k \in Commands, Reply(k)
  PROVE  CommandInv'
<1> DEFINE c == cmd[k]
<1>1. /\ c \in Command /\ c.stage \in Asking /\ c.peer # None /\ Active(k) /\ UNCHANGED vars
      /\ Fits(c, steady[k])
  BY DEF Reply, TypeInv, CommandsTypeOK, Command, Stage, Active, Asking, CommandInv
<1>2. CASE cmd' = [cmd EXCEPT ![k] = Answered(c, TRUE)]
  <2>1. Fits(Answered(c, TRUE), steady[k]) /\ Answered(c, TRUE) \in Command
    BY <1>1, AnAnswer, AnsweredTyped
  <2> HIDE DEF c
  <2> QED
    BY <1>1, <1>2, <2>1, Moves
<1>3. CASE c.stage = "query" /\ cmd' = [cmd EXCEPT ![k] = Finished(c, "failed")]
  <2>1. Finished(c, "failed") = [c EXCEPT !.op = "status", !.stage = "idle", !.verdict = "failed"]
    BY <1>3 DEF Finished
  <2>2. Finished(c, "failed") \in Command
    BY <1>1, FinishedTyped DEF Verdict
  <2>3. Finished(c, "failed").stage = "idle" /\ Finished(c, "failed").verdict = "failed"
    BY <1>1, <2>1 DEF Command
  <2>4. Fits(Finished(c, "failed"), steady[k])
    BY <1>1, <2>3 DEF Fits, NotSpawned, FalseAlarms
  <2> HIDE DEF c
  <2> QED
    BY <1>1, <1>3, <2>2, <2>4, Moves
<1>4. CASE pc[c.peer] \in Closing \cup Ended /\ cmd' = [cmd EXCEPT ![k] = Answered(c, FALSE)]
  <2>1. pc[c.peer] # "serve"
    BY <1>4 DEF Closing, Ended
  <2>2. steady[k] = {}
    BY <1>1, <2>1 DEF Fits, Asking
  <2>3. c.stage = "first" => NoServing
    BY <1>1, <2>1 DEF Fits, NoServing
  <2>4. Fits(Answered(c, FALSE), steady[k]) /\ Answered(c, FALSE) \in Command
    BY <1>1, <2>2, <2>3, NoAnswer, AnsweredTyped
  <2> HIDE DEF c
  <2> QED
    BY <1>1, <1>4, <2>4, Moves
<1> QED
  BY <1>2, <1>3, <1>4 DEF Reply, Stage

LEMMA LaunchKeeps ==
  ASSUME ~Overlap, TypeInv, CommandInv, Watched, NEW k \in Commands, Launch(k)
  PROVE  CommandInv'
<1> DEFINE c == cmd[k]
<1>1. c \in Command /\ c.stage = "spawn" /\ Active(k) /\ Fits(c, steady[k])
  BY DEF Launch, TypeInv, CommandsTypeOK, Command, Stage, Active, CommandInv
<1>2. NoServing /\ c.peer = None /\ steady[k] = {} /\ \A d \in Daemons : pc[d] \notin Starting
  BY <1>1 DEF Fits, NotSpawned, NoServing, TypeInv, CommandsTypeOK
<1>3. ASSUME NEW d \in Daemons, Spawn(d),
             cmd' = [cmd EXCEPT ![k].stage = "wait", ![k].child = d]
      PROVE  CommandInv'
  <2> DEFINE n == [c EXCEPT !.stage = "wait", !.child = d]
  <2>1. \A j \in Commands : cmd'[j] = IF j = k THEN n ELSE cmd[j]
    BY <1>3 DEF TypeInv, CommandsTypeOK
  <2>2. n.stage = "wait" /\ n.child = d /\ n.peer = None /\ n.verdict = "none"
    BY <1>1, <1>2 DEF Command, Fits
  <2>3. \A e \in Daemons : pc'[e] = IF e = d THEN "check" ELSE pc[e]
    BY <1>3 DEF Spawn, Goto, TypeInv, CommandsTypeOK, TypeOK
  <2>4. \A e \in Daemons \ {d} : pc[e] \in {"off"} \cup Ended
    BY <1>2, <1>3 DEF Spawn, Alone, Settled, NoServing
  <2>5. \A j \in Commands : Active(j)' <=> j = k
    BY <1>1, <2>1, <2>2 DEF CommandInv, OneActive, Active, Stage
  <2>6. \A j \in Commands : steady'[j] = {}
    BY <1>1, <1>2, <2>5 DEF Watched, CommandInv, OneActive
  <2>7. Fits(cmd[k], steady[k])'
    <3>1. cmd'[k] = n /\ steady'[k] = {}
      BY <2>1, <2>6
    <3> HIDE DEF n
    <3> QED
      BY <2>2, <2>3, <2>4, <3>1 DEF Fits, NotSpawned
  <2>8. ASSUME NEW j \in Commands, j # k PROVE Fits(cmd[j], steady[j])'
    <3>1. cmd'[j] = cmd[j] /\ cmd[j].stage = "idle" /\ steady'[j] = {}
      BY <2>1, <2>5, <2>6, <2>8 DEF Active, Stage
    <3> QED
      BY <3>1 DEF CommandInv, Fits, NotSpawned
  <2> QED
    BY <2>5, <2>7, <2>8 DEF CommandInv, OneActive
<1>4. CASE cmd' = [cmd EXCEPT ![k] = Finished(c, "error")] /\ UNCHANGED vars
  <2>1. Finished(c, "error") \in Command
    BY <1>1, FinishedTyped DEF Verdict
  <2>2. Fits(Finished(c, "error"), {})
    BY <1>1, <1>2 DEF Finished, Fits, Command, NotSpawned
  <2> HIDE DEF c
  <2> QED
    BY <1>1, <1>2, <1>4, <2>1, <2>2, Moves
<1> QED
  BY <1>3, <1>4 DEF Launch

LEMMA GiveUpKeeps ==
  ASSUME TypeInv, CommandInv, Watched, NEW k \in Commands, GiveUp(k)
  PROVE  CommandInv'
<1> DEFINE c == cmd[k]
<1>1. /\ c \in Command /\ c.stage = "wait" /\ Active(k) /\ UNCHANGED vars /\ Fits(c, steady[k])
      /\ cmd' = [cmd EXCEPT ![k] = Finished(c, "error")]
  BY DEF GiveUp, TypeInv, CommandsTypeOK, Command, Stage, Active, CommandInv
<1>2. steady[k] = {}
  BY <1>1 DEF Fits
<1>3. Finished(c, "error") \in Command
  BY <1>1, FinishedTyped DEF Verdict
<1>4. Fits(Finished(c, "error"), {})
  BY <1>1, <1>2 DEF Finished, Fits, Command, NotSpawned
<1> HIDE DEF c
<1> QED
  BY <1>1, <1>2, <1>3, <1>4, Moves

LEMMA ReadPidKeeps ==
  ASSUME TypeInv, LifeInv, CommandInv, Watched, NEW k \in Commands, ReadPid(k)
  PROVE  CommandInv'
<1> DEFINE c == cmd[k]
<1>1. c \in Command /\ c.stage = "readpid" /\ Active(k) /\ UNCHANGED vars /\ Fits(c, steady[k])
  BY DEF ReadPid, TypeInv, CommandsTypeOK, Command, Stage, Active, CommandInv
<1>2. TypeOK /\ steady[k] \subseteq Daemons /\ \A d \in Daemons : pc[d] = "serve" => d = pid
  BY Reach DEF TypeInv, CommandsTypeOK
<1>3. CASE pid = None
  <2>1. steady[k] = {}
    BY <1>1, <1>2, <1>3, LifecycleConstants DEF Fits
  <2>2. Finished(c, "not_running") \in Command
    BY <1>1, FinishedTyped DEF Verdict
  <2>3. Fits(Finished(c, "not_running"), {})
    BY <1>1, <2>1 DEF Finished, Fits, Command, NotSpawned
  <2>4. cmd' = [cmd EXCEPT ![k] = Finished(c, "not_running")]
    BY <1>3, LifecycleConstants DEF ReadPid
  <2> HIDE DEF c
  <2> QED
    BY <1>1, <2>1, <2>2, <2>3, <2>4, Moves
<1>5. CASE pid = Empty
  <2>1. steady[k] = {}
    BY <1>1, <1>2, <1>5, LifecycleConstants DEF Fits
  <2>2. Finished(c, "error") \in Command
    BY <1>1, FinishedTyped DEF Verdict
  <2>3. Fits(Finished(c, "error"), {})
    BY <1>1, <2>1 DEF Finished, Fits, Command, NotSpawned
  <2>4. cmd' = [cmd EXCEPT ![k] = Finished(c, "error")]
    BY <1>5, LifecycleConstants DEF ReadPid
  <2> HIDE DEF c
  <2> QED
    BY <1>1, <2>1, <2>2, <2>3, <2>4, Moves
<1>4. CASE pid \in Daemons
  <2> DEFINE n == [c EXCEPT !.stage = "kill", !.peer = pid]
  <2>1. n \in Command /\ n.stage = "kill" /\ n.peer = pid /\ n.verdict = "none"
    BY <1>1, <1>4 DEF Command, Stages, Fits
  <2>2. steady[k] # {} => pid \in steady[k]
    BY <1>1, <1>2 DEF Fits
  <2>3. cmd' = [cmd EXCEPT ![k] = n]
    BY <1>4 DEF ReadPid
  <2>4. Fits(n, steady[k])
    <3> HIDE DEF n
    <3> QED
      BY <1>1, <1>2, <2>1, <2>2 DEF Fits, NotSpawned, FalseAlarms
  <2> HIDE DEF c, n
  <2> QED
    BY <1>1, <2>1, <2>3, <2>4, Moves
<1> QED
  BY <1>2, <1>3, <1>4, <1>5 DEF TypeOK

LEMMA KillPidKeeps ==
  ASSUME TypeInv, CommandInv, Watched, NEW k \in Commands, KillPid(k)
  PROVE  CommandInv'
<1> DEFINE c == cmd[k]
           v == IF Running(c.peer) THEN "stopped" ELSE "kill_failed"
<1>1. /\ c \in Command /\ c.stage = "kill" /\ c.peer \in Daemons /\ Active(k)
      /\ Fits(c, steady[k]) /\ cmd' = [cmd EXCEPT ![k] = Finished(c, v)]
  BY DEF KillPid, TypeInv, CommandsTypeOK, KillKnows, Command, Stage, Active, CommandInv
<1>2. Finished(c, v) \in Command
  BY <1>1, FinishedTyped DEF Verdict
<1>3. Finished(c, v).stage = "idle" /\ Finished(c, v).verdict = v
  BY <1>1 DEF Finished, Command
<1>4. steady[k] # {} => v \notin FalseAlarms
  BY <1>1, LifecycleConstants DEF Fits, Running, Ended, FalseAlarms
<1>5. v # "started"
  OBVIOUS
<1> HIDE DEF c, v
<1> QED
  BY <1>1, <1>2, <1>3, <1>4, <1>5, Ends

LEMMA InterruptKeeps ==
  ASSUME TypeInv, CommandInv, Watched, NEW k \in Commands, Interrupt(k)
  PROVE  CommandInv'
<1>1. IdleCommand \in Command /\ IdleCommand.stage = "idle" /\ IdleCommand.verdict = "none"
  BY DEF IdleCommand, Command, Ops, Stages, Verdict
<1>2. Active(k) /\ cmd' = [cmd EXCEPT ![k] = IdleCommand]
  BY DEF Interrupt
<1>3. "none" \notin FalseAlarms
  BY DEF FalseAlarms
<1> QED
  BY <1>1, <1>2, <1>3, Ends

LEMMA CommandInvStep ==
  ASSUME ~Overlap, ~Slow
  PROVE  TypeInv /\ LifeInv /\ CommandInv /\ [CommandsNext]_commandVars => CommandInv'
<1> SUFFICES ASSUME TypeInv, LifeInv, CommandInv, [CommandsNext]_commandVars
             PROVE  CommandInv'
  OBVIOUS
<1>1. CASE UNCHANGED commandVars
  BY <1>1 DEF commandVars, vars, CommandInv, OneActive, Fits, NoServing, Active, Stage
<1>2. ASSUME NEW k \in Commands, CommandStep(k), Watched PROVE CommandInv'
  BY <1>2, BeginKeeps, ConnectKeeps, ReplyKeeps, LaunchKeeps, GiveUpKeeps, ReadPidKeeps,
     KillPidKeeps, InterruptKeeps DEF CommandStep
<1>3. ASSUME NEW d \in Daemons, DaemonStep(d), Watched PROVE CommandInv'
  BY <1>3, DaemonStepKeeps
<1> QED
  BY <1>1, <1>2, <1>3 DEF CommandsNext

LEMMA CommandsCorrect ==
  ASSUME ~Overlap, ~Slow
  PROVE  CommandsSpec => [](TypeInv /\ LifeInv /\ CommandInv)
<1>1. CommandsInit => TypeInv /\ LifeInv /\ CommandInv
  BY CommandTypeInit, CommandInvInit, LifeInit DEF CommandsInit
<1>2. TypeInv /\ LifeInv /\ [CommandsNext]_commandVars => LifeInv'
  BY StepsOfLife, LifeStep DEF TypeInv, CommandsTypeOK
<1> QED
  BY <1>1, <1>2, CommandTypeStep, CommandInvStep, PTL DEF CommandsSpec

\* When commands do not overlap and answers are not slow, a daemon that serves
\* all along is not taken for dead, and the PID a start reports is that of the
\* daemon that answered it.
THEOREM TruthfulCommandsCorrect ==
  ASSUME ~Overlap, ~Slow
  PROVE  CommandsSpec => []TruthfulCommands
<1>1. TypeInv /\ CommandInv => TruthfulCommands
  <2> SUFFICES ASSUME TypeInv, CommandInv PROVE TruthfulCommands
    OBVIOUS
  <2>1. NoFalseAlarm
    BY DEF CommandInv, Fits, NoFalseAlarm, FalseAlarms, Stage
  <2>2. StartedIsChild
    BY DEF CommandInv, Fits, StartedIsChild
  <2> QED
    BY <2>1, <2>2 DEF TruthfulCommands
<1> QED
  BY <1>1, CommandsCorrect, PTL

\* The verdicts of commands that stop nothing.
Other == {"already", "started", "error", "up", "down", "injected", "failed", "silent"}

LEMMA FinishedSays ==
  ASSUME NEW c \in Command, NEW v \in Verdict
  PROVE  Finished(c, v).verdict \in {c.verdict, v}
BY DEF Finished, Command

LEMMA AnsweredSays ==
  ASSUME NEW c \in Command, c.stage \in Asking, NEW alive \in BOOLEAN
  PROVE  Answered(c, alive).verdict \in {c.verdict} \cup Other
<1>1. \A v \in Other : Finished(c, v).verdict \in {c.verdict} \cup Other
  BY FinishedSays DEF Other, Verdict
<1>2. {"already", "started", "silent", "injected", "up", "down"} \subseteq Other
  BY DEF Other
<1>3. \A s \in {"again", "spawn", "query"} :
        [c EXCEPT !.stage = s, !.peer = None].verdict = c.verdict
  BY DEF Command
<1>4. [c EXCEPT !.peer = None].verdict = c.verdict
  BY DEF Command
<1> QED
  BY <1>1, <1>2, <1>3, <1>4 DEF Answered, Asking

\* Then no daemon serves when `brain daemon stop` returns.
THEOREM StopStopsCorrect ==
  ASSUME ~Overlap, ~Slow
  PROVE  CommandsSpec => StopStops
<1> DEFINE Told(k)  == cmd[k].verdict = "none"
                       /\ cmd'[k].verdict \in {"stopped", "kill_failed", "not_running"}
           Stopped  == \A k \in Commands : Told(k) => \A d \in Daemons : pc'[d] # "serve"
<1>1. TypeInv /\ LifeInv /\ CommandInv /\ [CommandsNext]_commandVars => Stopped
  <2> SUFFICES ASSUME TypeInv, LifeInv, CommandInv, [CommandsNext]_commandVars,
                      NEW k \in Commands, Told(k), NEW d \in Daemons
               PROVE  pc'[d] # "serve"
    OBVIOUS
  <2>1. PICK j \in Commands : CommandStep(j) /\ Watched
    BY DEF CommandsNext, DaemonStep, commandVars
  <2>2. cmd \in [Commands -> Command] /\ TypeOK
    BY DEF TypeInv, CommandsTypeOK, Command
  <2>3. CASE Begin(j) \/ Interrupt(j)
    <3>1. \E c : cmd' = [cmd EXCEPT ![j] = c] /\ c.verdict = "none"
      <4>1. \A op, s : [IdleCommand EXCEPT !.op = op, !.stage = s].verdict = "none"
        BY DEF IdleCommand
      <4>2. IdleCommand.verdict = "none"
        BY DEF IdleCommand
      <4>3. CASE Begin(j)
        <5>1. PICK op, s : cmd' = [cmd EXCEPT ![j] = [IdleCommand EXCEPT !.op = op, !.stage = s]]
          BY <4>3 DEF Begin
        <5> QED
          BY <5>1, <4>1
      <4> QED
        BY <2>3, <4>2, <4>3 DEF Interrupt
    <3>2. cmd'[k].verdict \in {cmd[k].verdict, "none"}
      BY <2>2, <3>1
    <3> QED
      BY <3>2
  <2>4. CASE Connect(j) \/ Reply(j) \/ Launch(j) \/ GiveUp(j)
    <3>1. PICK c \in Command :
            cmd' = [cmd EXCEPT ![j] = c] /\ c.verdict \in {cmd[j].verdict} \cup Other
      <4>1. CASE Connect(j) \/ Reply(j)
        <5>1. cmd[j].stage \in Asking
          BY <4>1 DEF Connect, Reply, Stage
        <5>2. \A c \in {Answered(cmd[j], TRUE), Answered(cmd[j], FALSE), Finished(cmd[j], "failed")} :
                c \in Command /\ c.verdict \in {cmd[j].verdict} \cup Other
          <6>1. cmd[j] \in Command /\ "failed" \in Verdict /\ "failed" \in Other
            BY <2>2 DEF Verdict, Other
          <6>2. \A alive \in BOOLEAN : Answered(cmd[j], alive) \in Command
            BY <6>1, <5>1, AnsweredTyped
          <6>3. \A alive \in BOOLEAN :
                  Answered(cmd[j], alive).verdict \in {cmd[j].verdict} \cup Other
            BY <6>1, <5>1, AnsweredSays
          <6>4. Finished(cmd[j], "failed") \in Command
            BY <6>1, FinishedTyped
          <6>5. Finished(cmd[j], "failed").verdict \in {cmd[j].verdict} \cup Other
            BY <6>1, FinishedSays
          <6> QED
            BY <6>2, <6>3, <6>4, <6>5
        <5>3. sock \in Daemons =>
                LET c == [cmd[j] EXCEPT !.peer = sock]
                IN  c \in Command /\ c.verdict = cmd[j].verdict
          BY <2>2 DEF Command
        <5>4. sock # None => sock \in Daemons
          BY <2>2 DEF TypeOK
        <5>5. CASE Connect(j)
          BY <5>2, <5>3, <5>4, <5>5 DEF Connect
        <5>6. CASE Reply(j)
          BY <5>2, <5>6 DEF Reply
        <5> QED
          BY <4>1, <5>5, <5>6
      <4>2. CASE Launch(j) \/ GiveUp(j)
        <5>1. Finished(cmd[j], "error") \in Command
              /\ Finished(cmd[j], "error").verdict \in {cmd[j].verdict} \cup Other
          BY <2>2, FinishedTyped, FinishedSays DEF Verdict, Other
        <5>2. \A e \in Daemons :
                LET c == [cmd[j] EXCEPT !.stage = "wait", !.child = e]
                IN  c \in Command /\ c.verdict = cmd[j].verdict
          BY <2>2 DEF Command, Stages, Asking
        <5> QED
          BY <4>2, <5>1, <5>2 DEF Launch, GiveUp
      <4> QED
        BY <2>4, <4>1, <4>2
    <3>2. cmd'[k].verdict \in {cmd[k].verdict} \cup Other
      BY <2>2, <3>1
    <3> QED
      BY <3>2 DEF Other
  <2>5. CASE ReadPid(j)
    <3>1. pid = None
      <4>1. Finished(cmd[j], "error").verdict = "error"
        BY <2>2 DEF Finished, Command
      <4> QED
        BY <2>2, <2>5, <4>1 DEF ReadPid, Command
    <3>2. pc[d] # "serve"
      BY <2>2, <3>1, Reach, LifecycleConstants
    <3> QED
      BY <2>5, <3>2 DEF ReadPid, vars
  <2>6. CASE KillPid(j)
    <3>1. cmd[j].peer \in Daemons /\ (pc[d] = "serve" => d = cmd[j].peer)
      BY <2>6, LifecycleConstants DEF KillPid, TypeInv, KillKnows, CommandInv, Fits, Stage
    <3>2. CASE pc[cmd[j].peer] \in Starting \cup {"serve"}
      BY <2>2, <2>6, <3>1, <3>2 DEF KillPid, Signal, Goto, At, TypeOK
    <3>3. CASE ~(pc[cmd[j].peer] \in Starting \cup {"serve"})
      BY <2>6, <3>1, <3>3 DEF KillPid, vars
    <3> QED
      BY <3>2, <3>3
  <2> QED
    BY <2>1, <2>3, <2>4, <2>5, <2>6 DEF CommandStep
<1>2. TypeInv /\ LifeInv /\ CommandInv /\ [CommandsNext]_commandVars => [Stopped]_commandVars
  BY <1>1
<1> QED
  BY <1>2, CommandsCorrect, PTL DEF CommandsSpec, StopStops

-----------------------------------------------------------------------------
(* What CommandsEnd rests on: a process has so many steps to its end and   *)
(* never takes one back, a command too, but for the pings that a daemon    *)
(* lets go, and none waits for a daemon that has not bound.                *)

LifeLeft(l) ==
  CASE l = "off" -> 14      [] l = "check" -> 13    [] l = "probe" -> 12
    [] l = "unlink" -> 11   [] l = "rmpid" -> 10    [] l = "init" -> 9
    [] l = "bind" -> 8      [] l = "createpid" -> 7 [] l = "writepid" -> 6
    [] l = "watch" -> 5     [] l = "serve" -> 4     [] l = "shutdown" -> 3
    [] l = "rmsock" -> 2    [] l = "rmownpid" -> 1  [] OTHER -> 0

\* A process of brain-daemon never goes back in run(): it serves or ends in at
\* most nine steps of its own, and has ended three after it was told to.
DaemonsGetOn ==
  [][\A d \in Daemons : pc'[d] # pc[d] => LifeLeft(pc'[d]) < LifeLeft(pc[d])]_vars

\* A connection is one more step than none.
CommandLeft(c) ==
  LET turns == CASE c.stage = "first" -> 6   [] c.stage = "spawn" -> 4   [] c.stage = "wait" -> 2
                 [] c.stage = "probe" -> 6   [] c.stage = "again" -> 4   [] c.stage = "query" -> 2
                 [] c.stage = "readpid" -> 4 [] c.stage = "kill" -> 2    [] c.stage = "status" -> 2
                 [] OTHER -> 0
  IN  IF c.stage # "idle" /\ c.peer = None THEN turns + 1 ELSE turns

\* wait_for_start pings again when one was not answered.
LosesPing(k) ==
  /\ Stage(k) = "wait" /\ cmd[k].peer # None
  /\ Slow \/ pc[cmd[k].peer] \in Closing \cup Ended
  /\ cmd'[k] = [cmd[k] EXCEPT !.peer = None]

\* Each step of a command brings it nearer to its end, except that a ping of a
\* start is repeated when the daemon that took it went away, or was too slow.
CommandsGetOn ==
  [][\A k \in Commands : Active(k) /\ cmd'[k] # cmd[k] =>
       CommandLeft(cmd'[k]) < CommandLeft(cmd[k]) \/ LosesPing(k)]_commandVars

CanGoOn(k) ==
  \/ Stage(k) \in {"spawn", "readpid"}
  \/ Stage(k) = "kill" /\ (pc[cmd[k].peer] \in Starting \cup {"serve"} => Alone(cmd[k].peer))
  \/ /\ Stage(k) \in Asking
     /\ cmd[k].peer = None \/ pc[cmd[k].peer] \in {"serve"} \cup Closing \cup Ended

\* The kernel has taken the connection of a command, and nobody accepts it yet.
AwaitsServing(k) == /\ Stage(k) \in Asking
                    /\ cmd[k].peer \in Daemons /\ pc[cmd[k].peer] \in {"createpid", "writepid", "watch"}

\* A command under way can go on, or waits for a daemon that has bound and is
\* three steps at most from serving or failing: never for one yet to load its models.
NoCommandIsStranded == \A k \in Commands : Active(k) => CanGoOn(k) \/ AwaitsServing(k)

\* However many processes start, stop and are killed over one another.
THEOREM DaemonsGetOnCorrect == Spec => DaemonsGetOn
<1> DEFINE Forward == \A d \in Daemons : pc'[d] # pc[d] => LifeLeft(pc'[d]) < LifeLeft(pc[d])
<1>1. TypeOK /\ [Next]_vars => [Forward]_vars
  <2> SUFFICES ASSUME TypeOK, Next PROVE Forward
    OBVIOUS
  <2> USE DEF TypeOK, At, Goto, Starting, Closing, Ended
  <2>1. ASSUME NEW d \in Daemons, NEW l, pc' = [pc EXCEPT ![d] = l], LifeLeft(l) < LifeLeft(pc[d])
        PROVE  Forward
    BY <2>1
  <2>2. ASSUME NEW d \in Daemons, Spawn(d) PROVE Forward
    BY <2>1, <2>2 DEF Spawn, LifeLeft
  <2>3. ASSUME NEW d \in Daemons, Signal(d) PROVE Forward
    BY <2>1, <2>3 DEF Signal, LifeLeft
  <2>4. ASSUME NEW d \in Daemons, Kill(d) PROVE Forward
    <3>1. LifeLeft("killed") = 0 /\ LifeLeft(pc[d]) > 0
      BY <2>4 DEF Kill, Running, LifeLeft
    <3> QED
      BY <2>1, <2>4, <3>1 DEF Kill
  <2>5. ASSUME NEW d \in Daemons, StartStep(d) PROVE Forward
    <3>1. CASE CheckSocket(d)  BY <2>1, <3>1 DEF CheckSocket, LifeLeft
    <3>2. CASE Probe(d)        BY <2>1, <3>2 DEF Probe, LifeLeft
    <3>3. CASE Unlink(d)       BY <2>1, <3>3 DEF Unlink, LifeLeft
    <3>4. CASE RemovePid(d)    BY <2>1, <3>4 DEF RemovePid, LifeLeft
    <3>5. CASE InitWorker(d)   BY <2>1, <3>5 DEF InitWorker, LifeLeft
    <3>6. CASE Bind(d)         BY <2>1, <3>6 DEF Bind, LifeLeft
    <3>9. CASE CreatePid(d)    BY <2>1, <3>9 DEF CreatePid, LifeLeft
    <3>7. CASE WritePid(d)     BY <2>1, <3>7 DEF WritePid, LifeLeft
    <3>8. CASE StartWatcher(d) BY <2>1, <3>8 DEF StartWatcher, LifeLeft
    <3> QED
      BY <2>5, <3>1, <3>2, <3>3, <3>4, <3>5, <3>6, <3>7, <3>8, <3>9 DEF StartStep
  <2>6. ASSUME NEW d \in Daemons, CloseStep(d) PROVE Forward
    <3>1. CASE SendShutdown(d)  BY <2>1, <3>1 DEF SendShutdown, LifeLeft
    <3>2. CASE RemoveSocket(d)  BY <2>1, <3>2 DEF RemoveSocket, LifeLeft
    <3>3. CASE RemoveOwnPid(d)  BY <2>1, <3>3 DEF RemoveOwnPid, LifeLeft
    <3> QED
      BY <2>6, <3>1, <3>2, <3>3 DEF CloseStep
  <2> QED
    BY <2>2, <2>3, <2>4, <2>5, <2>6 DEF Next
<1>2. Spec => [][Forward]_vars
  BY <1>1, TypeCorrect, PTL DEF Spec
<1> QED
  BY <1>2 DEF DaemonsGetOn

\* What a command does with an answer, or ends with.
Led(c, n) == n.peer \in {c.peer, None} /\ CommandLeft(n) < CommandLeft(c)

LEMMA FinishedLeft ==
  ASSUME NEW c \in Command, c.stage # "idle", NEW v
  PROVE  Led(c, Finished(c, v))
<1> DEFINE n == [c EXCEPT !.op = "status", !.stage = "idle", !.verdict = v]
<1>1. CommandLeft(c) > 0
  BY DEF CommandLeft, Command, Stages, Asking
<1>2. n.stage = "idle" /\ n.peer = c.peer
  BY DEF Command
<1>3. Finished(c, v) = n
  BY DEF Finished
<1> HIDE DEF n
<1>4. CommandLeft(n) = 0
  BY <1>2 DEF CommandLeft
<1> QED
  BY <1>1, <1>2, <1>3, <1>4 DEF Led

LEMMA AnsweredLeft ==
  ASSUME NEW c \in Command, c.stage \in Asking, NEW alive \in BOOLEAN
  PROVE  \/ Led(c, Answered(c, alive))
         \/ c.stage = "wait" /\ ~alive /\ Answered(c, alive) = [c EXCEPT !.peer = None]
<1>1. \A v : Led(c, Finished(c, v))
  BY FinishedLeft DEF Asking
<1>2. ASSUME NEW s \in {"again", "spawn", "query"},
             \/ c.stage = "probe" /\ s = "again"
             \/ c.stage = "first" /\ s = "spawn"
             \/ c.stage = "again" /\ s = "query"
      PROVE  Led(c, [c EXCEPT !.stage = s, !.peer = None])
  <2> DEFINE n == [c EXCEPT !.stage = s, !.peer = None]
  <2>1. n.stage = s /\ n.peer = None
    BY DEF Command
  <2> HIDE DEF n
  <2>2. CommandLeft(n) < CommandLeft(c)
    BY <1>2, <2>1 DEF CommandLeft
  <2>3. Led(c, n)
    BY <2>1, <2>2 DEF Led
  <2> QED
    BY <2>3 DEF n
<1>3. CASE c.stage = "wait"
  BY <1>1, <1>3 DEF Answered
<1>4. CASE c.stage = "probe"
  BY <1>2, <1>4 DEF Answered
<1>5. CASE c.stage = "first"
  BY <1>1, <1>2, <1>5 DEF Answered
<1>6. CASE c.stage = "again"
  BY <1>1, <1>2, <1>6 DEF Answered
<1>7. CASE c.stage \in {"query", "status"}
  BY <1>1, <1>7 DEF Answered
<1> QED
  BY <1>3, <1>4, <1>5, <1>6, <1>7 DEF Asking

\* From bind on a process can be named: by a file, and by a command.
Bound == {"createpid", "writepid", "watch", "serve"} \cup Closing \cup Ended

NamesAreBound ==
  /\ sock # None => pc[sock] \in Bound
  /\ pid \in Daemons => pc[pid] \in Bound
  /\ \A k \in Commands : cmd[k].peer # None => pc[cmd[k].peer] \in Bound

\* A step of a command under way: where the other end comes from, and that it
\* brings the end nearer or loses a ping.
LEMMA CommandMoves ==
  ASSUME TypeInv, NEW k \in Commands, CommandStep(k)
  PROVE  /\ \A j \in Commands \ {k} : cmd'[j] = cmd[j]
         /\ cmd'[k].peer \in {cmd[k].peer, None, sock, pid}
         /\ Active(k) => \/ cmd'[k] = cmd[k] \/ LosesPing(k)
                         \/ CommandLeft(cmd'[k]) < CommandLeft(cmd[k])
<1>1. cmd \in [Commands -> Command] /\ cmd[k] \in Command /\ sock \in Daemons \cup {None}
      /\ pid \in Daemons \cup {None, Empty}
  BY DEF TypeInv, CommandsTypeOK, TypeOK, Command
<1> DEFINE Goal(c) == /\ c.peer \in {cmd[k].peer, None, sock, pid}
                      /\ Active(k) => \/ c = cmd[k]
                                      \/ cmd' = [cmd EXCEPT ![k] = c] => LosesPing(k)
                                      \/ CommandLeft(c) < CommandLeft(cmd[k])
<1>2. ASSUME NEW c, cmd' = [cmd EXCEPT ![k] = c], Goal(c)
      PROVE  /\ \A j \in Commands \ {k} : cmd'[j] = cmd[j]
             /\ cmd'[k].peer \in {cmd[k].peer, None, sock, pid}
             /\ Active(k) => \/ cmd'[k] = cmd[k] \/ LosesPing(k)
                             \/ CommandLeft(cmd'[k]) < CommandLeft(cmd[k])
  BY <1>1, <1>2
<1>3. \A c : Led(cmd[k], c) => Goal(c)
  BY DEF Led
<1>4. ASSUME Active(k), NEW v PROVE Goal(Finished(cmd[k], v))
  BY <1>1, <1>3, <1>4, FinishedLeft DEF Active, Stage
<1> HIDE DEF Goal
<1>5. CASE Begin(k)
  <2>1. ~Active(k) /\ \E op \in Ops :
          cmd' = [cmd EXCEPT ![k] = [IdleCommand EXCEPT
            !.op = op,
            !.stage = CASE op = "start" -> "first"  [] op = "stop" -> "readpid"
                        [] op = "hook" -> "probe"   [] op = "status" -> "status"]]
    BY <1>5 DEF Begin
  <2>2. \A op, s : [IdleCommand EXCEPT !.op = op, !.stage = s].peer = None
    BY DEF IdleCommand
  <2>3. \A op, s : Goal([IdleCommand EXCEPT !.op = op, !.stage = s])
    BY <2>1, <2>2 DEF Goal
  <2> QED
    BY <1>2, <2>1, <2>3
<1>6. CASE Connect(k)
  <2>1. cmd[k].stage \in Asking /\ cmd[k].peer = None /\ Active(k)
    BY <1>6 DEF Connect, Stage, Active, Asking
  <2>2. Goal(Answered(cmd[k], FALSE))
    <3>1. CASE Led(cmd[k], Answered(cmd[k], FALSE))
      BY <1>3, <3>1
    <3>2. CASE Answered(cmd[k], FALSE) = [cmd[k] EXCEPT !.peer = None]
      <4>1. [cmd[k] EXCEPT !.peer = None] = cmd[k]
        BY <1>1, <2>1 DEF Command
      <4> QED
        BY <3>2, <4>1 DEF Goal
    <3> QED
      BY <1>1, <2>1, <3>1, <3>2, AnsweredLeft
  <2>3. sock # None => Goal([cmd[k] EXCEPT !.peer = sock])
    <3> DEFINE n == [cmd[k] EXCEPT !.peer = sock]
    <3>1. n.peer = sock /\ n.stage = cmd[k].stage
      BY <1>1 DEF Command
    <3> HIDE DEF n
    <3>2. sock # None => CommandLeft(n) < CommandLeft(cmd[k])
      BY <2>1, <3>1 DEF CommandLeft, Asking
    <3>3. sock # None => Goal(n)
      BY <3>1, <3>2 DEF Goal
    <3> QED
      BY <3>3 DEF n
  <2>4. \E c : cmd' = [cmd EXCEPT ![k] = c] /\ Goal(c)
    BY <1>6, <2>2, <2>3 DEF Connect
  <2> QED
    BY <1>2, <2>4
<1>7. CASE Reply(k)
  <2>1. cmd[k].stage \in Asking /\ cmd[k].peer # None /\ Active(k)
    BY <1>7 DEF Reply, Stage, Active, Asking
  <2>2. CASE cmd' = [cmd EXCEPT ![k] = Answered(@, TRUE)]
    <3>1. Goal(Answered(cmd[k], TRUE))
      BY <1>1, <1>3, <2>1, AnsweredLeft
    <3> QED
      BY <1>2, <2>2, <3>1
  <2>3. CASE cmd' = [cmd EXCEPT ![k] = Finished(@, "failed")]
    BY <1>2, <1>4, <2>1, <2>3
  <2>4. CASE /\ pc[cmd[k].peer] \in Closing \cup Ended \/ Slow
             /\ cmd' = [cmd EXCEPT ![k] = Answered(@, FALSE)]
    <3>1. CASE Led(cmd[k], Answered(cmd[k], FALSE))
      BY <1>2, <1>3, <2>4, <3>1
    <3>2. CASE cmd[k].stage = "wait" /\ Answered(cmd[k], FALSE) = [cmd[k] EXCEPT !.peer = None]
      <4> DEFINE n == [cmd[k] EXCEPT !.peer = None]
      <4>1. n.peer = None
        BY <1>1 DEF Command
      <4>2. cmd'[k] = n
        BY <1>1, <2>4, <3>2
      <4>3. LosesPing(k)
        BY <2>1, <2>4, <3>2, <4>2 DEF LosesPing, Stage
      <4> HIDE DEF n
      <4>4. Goal(n)
        BY <4>1, <4>3 DEF Goal
      <4> QED
        BY <1>2, <2>4, <3>2, <4>4 DEF n
    <3> QED
      BY <1>1, <2>1, <3>1, <3>2, AnsweredLeft
  <2> QED
    BY <1>7, <2>2, <2>3, <2>4 DEF Reply
<1>8. CASE Launch(k)
  <2>1. cmd[k].stage = "spawn" /\ Active(k)
    BY <1>8 DEF Launch, Stage, Active
  <2>2. ASSUME NEW d \in Daemons PROVE Goal([cmd[k] EXCEPT !.stage = "wait", !.child = d])
    <3> DEFINE n == [cmd[k] EXCEPT !.stage = "wait", !.child = d]
    <3>1. n.stage = "wait" /\ n.peer = cmd[k].peer
      BY <1>1 DEF Command
    <3> HIDE DEF n
    <3>2. CommandLeft(n) < CommandLeft(cmd[k])
      BY <2>1, <3>1 DEF CommandLeft
    <3>3. Goal(n)
      BY <3>1, <3>2 DEF Goal
    <3> QED
      BY <3>3 DEF n
  <2>3. Goal(Finished(cmd[k], "error"))
    BY <1>4, <2>1
  <2>4. \E c : cmd' = [cmd EXCEPT ![k] = c] /\ Goal(c)
    BY <1>8, <2>2, <2>3 DEF Launch
  <2> QED
    BY <1>2, <2>4
<1>9. CASE GiveUp(k)
  <2>1. Active(k) /\ cmd' = [cmd EXCEPT ![k] = Finished(cmd[k], "error")]
    BY <1>9 DEF GiveUp, Active
  <2> QED
    BY <1>2, <1>4, <2>1
<1>10. CASE ReadPid(k)
  <2>1. cmd[k].stage = "readpid" /\ Active(k)
    BY <1>10 DEF ReadPid, Stage, Active
  <2>2. pid \in Daemons => Goal([cmd[k] EXCEPT !.stage = "kill", !.peer = pid])
    <3> DEFINE n == [cmd[k] EXCEPT !.stage = "kill", !.peer = pid]
    <3>1. n.stage = "kill" /\ n.peer = pid
      BY <1>1 DEF Command
    <3> HIDE DEF n
    <3>2. pid \in Daemons => CommandLeft(n) < CommandLeft(cmd[k])
      BY <2>1, <3>1, LifecycleConstants DEF CommandLeft
    <3>3. pid \in Daemons => Goal(n)
      BY <3>1, <3>2 DEF Goal
    <3> QED
      BY <3>3 DEF n
  <2>3. Goal(Finished(cmd[k], "not_running"))
    BY <1>4, <2>1
  <2>5. Goal(Finished(cmd[k], "error"))
    BY <1>4, <2>1
  <2>4. \E c : cmd' = [cmd EXCEPT ![k] = c] /\ Goal(c)
    BY <1>1, <1>10, <2>2, <2>3, <2>5 DEF ReadPid
  <2> QED
    BY <1>2, <2>4
<1>11. CASE KillPid(k)
  <2>1. Active(k) /\ \E v : cmd' = [cmd EXCEPT ![k] = Finished(cmd[k], v)]
    BY <1>11 DEF KillPid, Active
  <2> QED
    BY <1>2, <1>4, <2>1
<1>12. CASE Interrupt(k)
  <2>1. Active(k) /\ cmd' = [cmd EXCEPT ![k] = IdleCommand]
    BY <1>12 DEF Interrupt
  <2>2. IdleCommand.peer = None /\ CommandLeft(IdleCommand) = 0
    BY DEF IdleCommand, CommandLeft
  <2>3. CommandLeft(cmd[k]) > 0
    BY <1>1, <2>1 DEF CommandLeft, Active, Stage, Command, Stages, Asking
  <2>4. Goal(IdleCommand)
    BY <2>2, <2>3 DEF Goal
  <2> QED
    BY <1>2, <2>1, <2>4
<1> QED
  BY <1>5, <1>6, <1>7, <1>8, <1>9, <1>10, <1>11, <1>12 DEF CommandStep

\* However many commands and daemons meet, with answers as slow as may be.
THEOREM CommandsGetOnCorrect == CommandsSpec => CommandsGetOn
<1> DEFINE GetsOn == \A k \in Commands : Active(k) /\ cmd'[k] # cmd[k] =>
                       CommandLeft(cmd'[k]) < CommandLeft(cmd[k]) \/ LosesPing(k)
<1>1. TypeInv /\ [CommandsNext]_commandVars => [GetsOn]_commandVars
  <2> SUFFICES ASSUME TypeInv, CommandsNext PROVE GetsOn
    OBVIOUS
  <2>1. ASSUME NEW k \in Commands, CommandStep(k) PROVE GetsOn
    BY <2>1, CommandMoves
  <2>2. CASE UNCHANGED cmd
    BY <2>2
  <2> QED
    BY <2>1, <2>2 DEF CommandsNext, DaemonStep
<1>2. CommandsSpec => [][GetsOn]_commandVars
  BY <1>1, CommandTypeInit, CommandTypeStep, PTL DEF CommandsSpec
<1> QED
  BY <1>2 DEF CommandsGetOn

LEMMA StaysBound ==
  ASSUME TypeOK, [Next]_vars
  PROVE  /\ \A d \in Daemons : pc[d] \in Bound => pc'[d] \in Bound
         /\ sock' \in {sock, None} \/ (sock' \in Daemons /\ pc'[sock'] \in Bound)
         /\ pid' \in {pid, None, Empty} \/ (pid' \in Daemons /\ pc'[pid'] \in Bound)
<1> DEFINE Kept  == \A e \in Daemons : pc[e] \in Bound => pc'[e] \in Bound
           Socks == sock' \in {sock, None} \/ (sock' \in Daemons /\ pc'[sock'] \in Bound)
           Pids  == pid' \in {pid, None, Empty} \/ (pid' \in Daemons /\ pc'[pid'] \in Bound)
<1> USE DEF TypeOK, At, Goto, Starting, Closing, Ended, Bound
<1>1. ASSUME NEW d \in Daemons, Spawn(d) \/ Signal(d) \/ Kill(d) PROVE Kept /\ Socks /\ Pids
  <2>1. UNCHANGED <<sock, pid>> /\ Kept
    BY <1>1 DEF Spawn, Signal, Kill
  <2> QED
    BY <2>1
<1>2. ASSUME NEW d \in Daemons, CheckSocket(d) \/ Probe(d) \/ Unlink(d) \/ RemovePid(d) \/ InitWorker(d)
      PROVE  Kept /\ Socks /\ Pids
  <2>1. sock' \in {sock, None} /\ pid' \in {pid, None} /\ Kept
    BY <1>2 DEF CheckSocket, Probe, Unlink, RemovePid, InitWorker
  <2> QED
    BY <2>1
<1>3. ASSUME NEW d \in Daemons, Bind(d) PROVE Kept /\ Socks /\ Pids
  <2>1. (sock' = sock \/ (sock' = d /\ pc'[d] \in Bound)) /\ pid' = pid /\ Kept
    BY <1>3 DEF Bind
  <2> QED
    BY <2>1
<1>4. ASSUME NEW d \in Daemons, WritePid(d) PROVE Kept /\ Socks /\ Pids
  <2>1. (pid' = pid \/ (pid' = d /\ pc'[d] \in Bound)) /\ sock' = sock /\ Kept
    BY <1>4 DEF WritePid
  <2> QED
    BY <2>1
<1>9. ASSUME NEW d \in Daemons, CreatePid(d) PROVE Kept /\ Socks /\ Pids
  <2>1. pid' \in {pid, Empty} /\ sock' = sock /\ Kept
    BY <1>9 DEF CreatePid
  <2> QED
    BY <2>1
<1>5. ASSUME NEW d \in Daemons, StartWatcher(d) \/ CloseStep(d) PROVE Kept /\ Socks /\ Pids
  <2>1. sock' \in {sock, None} /\ pid' \in {pid, None} /\ Kept
    BY <1>5 DEF StartWatcher, CloseStep, SendShutdown, RemoveSocket, RemoveOwnPid
  <2> QED
    BY <2>1
<1>6. ASSUME UNCHANGED vars PROVE Kept /\ Socks /\ Pids
  <2>1. pc' = pc /\ sock' = sock /\ pid' = pid
    BY <1>6 DEF vars
  <2> QED
    BY <2>1
<1> HIDE DEF Kept, Socks, Pids, Starting, Closing, Ended, Bound, At, Goto, TypeOK
<1>7. ASSUME Next PROVE Kept /\ Socks /\ Pids
  <2>1. PICK d \in Daemons : Spawn(d) \/ StartStep(d) \/ Signal(d) \/ CloseStep(d) \/ Kill(d)
    BY <1>7 DEF Next
  <2> QED
    BY <1>1, <1>2, <1>3, <1>4, <1>5, <1>9, <2>1 DEF StartStep
<1>8. Kept /\ Socks /\ Pids
  BY <1>6, <1>7
<1> QED
  BY <1>8 DEF Kept, Socks, Pids

LEMMA NamesStayBound == TypeInv /\ NamesAreBound /\ [CommandsNext]_commandVars => NamesAreBound'
<1> SUFFICES ASSUME TypeInv, NamesAreBound, [CommandsNext]_commandVars PROVE NamesAreBound'
  OBVIOUS
<1>1. /\ TypeOK /\ sock \in Daemons \cup {None} /\ pid \in Daemons \cup {None, Empty}
      /\ \A k \in Commands : cmd'[k].peer \in Daemons \cup {None}
  BY CommandTypeStep DEF TypeInv, CommandsTypeOK, TypeOK
<1>2. /\ \A d \in Daemons : pc[d] \in Bound => pc'[d] \in Bound
      /\ sock' \in {sock, None} \/ (sock' \in Daemons /\ pc'[sock'] \in Bound)
      /\ pid' \in {pid, None, Empty} \/ (pid' \in Daemons /\ pc'[pid'] \in Bound)
  BY <1>1, StepsOfLife, StaysBound
<1>3. \A k \in Commands : cmd'[k].peer \in {cmd[k].peer, None, sock, pid}
  <2>1. ASSUME NEW j \in Commands, CommandStep(j)
        PROVE  \A k \in Commands : cmd'[k].peer \in {cmd[k].peer, None, sock, pid}
    BY <2>1, CommandMoves
  <2>2. CASE UNCHANGED cmd
    BY <2>2
  <2> QED
    BY <2>1, <2>2 DEF CommandsNext, DaemonStep, commandVars
<1>4. \A x \in Daemons \cup {None} : (x # None => pc[x] \in Bound) => (x # None => pc'[x] \in Bound)
  BY <1>2
<1>5. (sock' # None => pc'[sock'] \in Bound) /\ (pid' \in Daemons => pc'[pid'] \in Bound)
  BY <1>1, <1>2, <1>4, LifecycleConstants DEF NamesAreBound
<1>6. ASSUME NEW k \in Commands PROVE cmd'[k].peer # None => pc'[cmd'[k].peer] \in Bound
  <2> DEFINE x == cmd'[k].peer
  <2>1. x \in Daemons \cup {None} /\ (x # None => pc[x] \in Bound)
    BY <1>1, <1>3, LifecycleConstants DEF NamesAreBound
  <2> HIDE DEF x
  <2>2. x # None => pc'[x] \in Bound
    BY <1>4, <2>1
  <2> QED
    BY <2>2 DEF x
<1> QED
  BY <1>5, <1>6 DEF NamesAreBound

LEMMA OthersGoOn ==
  ASSUME TypeInv, NamesAreBound, NEW k \in Commands, Active(k),
         Stage(k) = "kill" /\ pc[cmd[k].peer] \in Starting \cup {"serve"} => Alone(cmd[k].peer)
  PROVE  CanGoOn(k) \/ AwaitsServing(k)
<1>1. cmd[k].stage \in Stages /\ cmd[k].peer \in Daemons \cup {None}
  BY DEF TypeInv, CommandsTypeOK
<1>2. CASE Stage(k) \in {"spawn", "readpid", "kill"}
  BY <1>2 DEF CanGoOn
<1>3. CASE Stage(k) \in Asking
  <2>1. cmd[k].peer # None => pc[cmd[k].peer] \in Bound
    BY DEF NamesAreBound
  <2> QED
    BY <1>1, <1>3, <2>1 DEF CanGoOn, AwaitsServing, Bound
<1> QED
  BY <1>1, <1>2, <1>3 DEF Stages, Active, Stage

\* Nobody else is on its way in or out when `brain daemon stop` signals.
LEMMA StopIsAlone ==
  ASSUME TypeInv, LifeInv, CommandInv, NEW k \in Commands, Stage(k) = "kill",
         pc[cmd[k].peer] \in Starting \cup {"serve"}
  PROVE  Alone(cmd[k].peer)
<1> DEFINE d == cmd[k].peer
<1>1. d \in Daemons /\ TypeOK
  BY DEF TypeInv, KillKnows, CommandsTypeOK
<1>2. \A e \in Daemons : pc[e] \notin Starting
  BY DEF CommandInv, Fits, NotSpawned, Stage
<1>3. Listening(d)
  BY <1>1, <1>2 DEF Listening
<1>4. ASSUME NEW e \in Daemons \ {d} PROVE Settled(e)
  <2>1. ~Listening(e)
    BY <1>1, <1>3 DEF LifeInv, OneListening
  <2>2. pc[e] \notin Closing
    BY <2>1 DEF Listening
  <2> QED
    BY <1>1, <1>2, <2>2 DEF TypeOK, Settled
<1> QED
  BY <1>4 DEF Alone

\* However commands and daemons overlap, and also when they do not and answers
\* are in time: no command waits for what will not come.
THEOREM NoCommandIsStrandedCorrect ==
  ASSUME Overlap \/ ~Slow
  PROVE  CommandsSpec => []NoCommandIsStranded
<1>1. CommandsSpec => [](TypeInv /\ NamesAreBound)
  <2>1. CommandsInit => TypeInv /\ NamesAreBound
    BY CommandTypeInit, LifecycleConstants DEF CommandsInit, Init, NamesAreBound, IdleCommand
  <2> QED
    BY <2>1, CommandTypeStep, NamesStayBound, PTL DEF CommandsSpec
<1>2. CASE Overlap
  <2>1. TypeInv /\ NamesAreBound => NoCommandIsStranded
    BY <1>2, OthersGoOn DEF Alone, NoCommandIsStranded
  <2> QED
    BY <1>1, <2>1, PTL
<1>3. CASE ~Overlap
  <2>1. TypeInv /\ NamesAreBound /\ LifeInv /\ CommandInv => NoCommandIsStranded
    BY OthersGoOn, StopIsAlone DEF NoCommandIsStranded
  <2>2. CommandsSpec => [](TypeInv /\ LifeInv /\ CommandInv)
    BY <1>3, CommandsCorrect
  <2> QED
    BY <1>1, <2>1, <2>2, PTL
<1> QED
  BY <1>2, <1>3
=============================================================================
