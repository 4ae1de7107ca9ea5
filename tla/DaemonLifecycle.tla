--------------------------- MODULE DaemonLifecycle ---------------------------
(***************************************************************************)
(* Processes of brain-daemon for one project, and the two files by which   *)
(* they and the command line find each other: .brain/brain.sock, a socket  *)
(* bound by the daemon, and .brain/brain.pid, its process id.              *)
(*                                                                         *)
(* A starting daemon looks for a live one, removes what a dead one left,   *)
(* loads its models, binds and serves; a signalled daemon removes the two  *)
(* paths, whoever they belong to by then.  Each file operation is a step   *)
(* of its own: other processes act in between, and any process can be      *)
(* killed at any point.                                                    *)
(***************************************************************************)
EXTENDS FiniteSets

CONSTANTS
  Daemons,  \* processes; each is started once
  None,     \* no file
  Empty,    \* a PID file that is created and not written
  Overlap   \* whether one may be started or stopped while another starts or ends

ASSUME LifecycleConstants ==
  None \notin Daemons /\ Empty \notin Daemons \cup {None} /\ Overlap \in BOOLEAN

VARIABLES
  pc,    \* where each process is in run()
  sock,  \* whose bind made the socket file, None when there is no file
  pid    \* the process the PID file names; None or Empty when it names none

vars == <<pc, sock, pid>>

Starting == {"check", "probe", "unlink", "rmpid", "init", "bind", "createpid", "writepid",
             "watch"}
Closing  == {"shutdown", "rmsock", "rmownpid"}
Ended    == {"refused", "failed", "exited", "killed"}

Init ==
  /\ pc   = [d \in Daemons |-> "off"]
  /\ sock = None
  /\ pid  = None

At(d, l)   == pc[d] = l
Goto(d, l) == pc' = [pc EXCEPT ![d] = l]
Running(d) == pc[d] \notin {"off"} \cup Ended

\* The listener exists from bind until run() returns; the kernel takes
\* connections all that time, accepted or not.
Listening(d) == pc[d] \in {"createpid", "writepid", "watch", "serve"} \cup Closing

Settled(d) == pc[d] \in {"off", "serve"} \cup Ended
Alone(d)   == Overlap \/ \A e \in Daemons \ {d} : Settled(e)

Spawn(d) ==
  /\ At(d, "off")
  /\ Alone(d)
  /\ Goto(d, "check")
  /\ UNCHANGED <<sock, pid>>

\* socket_path.exists()
CheckSocket(d) ==
  /\ At(d, "check")
  /\ Goto(d, IF sock = None THEN "rmpid" ELSE "probe")
  /\ UNCHANGED <<sock, pid>>

\* Mutant: a socket file is taken for a daemon.
ProbeFile(d) ==
  /\ At(d, "probe")
  /\ Goto(d, "refused")
  /\ UNCHANGED <<sock, pid>>

\* probe_socket connects and writes a ping; it does not wait for the answer.
Probe(d) ==
  /\ At(d, "probe")
  /\ Goto(d, IF sock # None /\ Listening(sock) THEN "refused" ELSE "unlink")
  /\ UNCHANGED <<sock, pid>>

Unlink(d) ==
  /\ At(d, "unlink")
  /\ sock' = None
  /\ Goto(d, "rmpid")
  /\ UNCHANGED pid

RemovePid(d) ==
  /\ At(d, "rmpid")
  /\ pid' = None
  /\ Goto(d, "init")
  /\ UNCHANGED sock

\* worker::spawn: loading the models and opening the stores can fail.
InitWorker(d) ==
  /\ At(d, "init")
  /\ \E next \in {"bind", "failed"} : Goto(d, next)
  /\ UNCHANGED <<sock, pid>>

\* bind fails when the path exists.
Bind(d) ==
  /\ At(d, "bind")
  /\ IF sock = None
     THEN sock' = d /\ Goto(d, "createpid")
     ELSE UNCHANGED sock /\ Goto(d, "failed")
  /\ UNCHANGED pid

\* fs::write of the PID file empties it first, and can fail there and after.
CreatePid(d) ==
  /\ At(d, "createpid")
  /\ \/ pid' = Empty /\ Goto(d, "writepid")
     \/ UNCHANGED pid /\ Goto(d, "failed")
  /\ UNCHANGED sock

\* Mutant: a PID file that cannot be written is only logged.
WritePidAnyhow(d) ==
  /\ At(d, "writepid")
  /\ pid' \in {d, pid}
  /\ Goto(d, "watch")
  /\ UNCHANGED sock

WritePid(d) ==
  /\ At(d, "writepid")
  /\ \/ pid' = d /\ Goto(d, "watch")
     \/ UNCHANGED pid /\ Goto(d, "failed")
  /\ UNCHANGED sock

StartWatcher(d) ==
  /\ At(d, "watch")
  /\ \E next \in {"serve", "failed"} : Goto(d, next)
  /\ UNCHANGED <<sock, pid>>

\* SIGTERM or Ctrl-C.  The handler is installed when the daemon serves; before
\* that the signal kills the process, and once signalled it does nothing more.
\* The daemon is still in its loop then, until SendShutdown.
Signal(d) ==
  /\ pc[d] \in Starting \cup {"serve"}
  /\ Alone(d)
  /\ Goto(d, IF At(d, "serve") THEN "shutdown" ELSE "killed")
  /\ UNCHANGED <<sock, pid>>

\* The loop ends; Shutdown is sent to the worker and not waited for.
SendShutdown(d) ==
  /\ At(d, "shutdown")
  /\ Goto(d, "rmsock")
  /\ UNCHANGED <<sock, pid>>

RemoveSocket(d) ==
  /\ At(d, "rmsock")
  /\ sock' = None
  /\ Goto(d, "rmownpid")
  /\ UNCHANGED pid

RemoveOwnPid(d) ==
  /\ At(d, "rmownpid")
  /\ pid' = None
  /\ Goto(d, "exited")
  /\ UNCHANGED sock

\* SIGKILL, a crash, a reboot: both files stay.
Kill(d) ==
  /\ Running(d)
  /\ Goto(d, "killed")
  /\ UNCHANGED <<sock, pid>>

StartStep(d) ==
  \/ CheckSocket(d)
  \/ Probe(d)
  \/ Unlink(d)
  \/ RemovePid(d)
  \/ InitWorker(d)
  \/ Bind(d)
  \/ CreatePid(d)
  \/ WritePid(d)
  \/ StartWatcher(d)

CloseStep(d) ==
  \/ SendShutdown(d)
  \/ RemoveSocket(d)
  \/ RemoveOwnPid(d)

Next ==
  \E d \in Daemons :
    Spawn(d) \/ StartStep(d) \/ Signal(d) \/ CloseStep(d) \/ Kill(d)

Spec == Init /\ [][Next]_vars

-----------------------------------------------------------------------------
TypeOK ==
  /\ pc \in [Daemons -> {"off", "serve"} \cup Starting \cup Closing \cup Ended]
  /\ sock \in Daemons \cup {None}
  /\ pid \in Daemons \cup {None, Empty}

\* At most one daemon serves the project.
OneServing ==
  \A d, e \in Daemons : At(d, "serve") /\ At(e, "serve") => d = e

\* The daemon that serves is the one clients connect to and the one
\* `brain daemon stop` signals.
ServerIsReachable ==
  \A d \in Daemons : At(d, "serve") => sock = d /\ pid = d

\* What a killed daemon left never keeps the next one from binding.
StaleFilesRemoved ==
  \A d \in Daemons : At(d, "bind") => sock = None

\* A daemon that gives up because one is running leaves one that serves, or is
\* about to.
RefusalJustified ==
  [][\A d \in Daemons :
       At(d, "probe") /\ pc'[d] = "refused" =>
         \E e \in Daemons \ {d} : Running(e) /\ pc[e] \notin Closing]_vars
=============================================================================
