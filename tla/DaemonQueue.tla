---------------------------- MODULE DaemonQueue ------------------------------
(***************************************************************************)
(* The threads of one brain-daemon process: connection tasks, the debounce *)
(* thread of the file watcher, the worker thread that owns both stores,    *)
(* and the main task.  Requests go to the worker through one bounded       *)
(* channel, each with a one-shot channel for its reply; a file change      *)
(* reaches the worker through the watcher's unbounded channel.             *)
(*                                                                         *)
(* The project is one file whose content is its version.  What the worker  *)
(* does with the two stores is VectorSync's subject; here an index request *)
(* reads the file at some moment and publishes what it read later.         *)
(***************************************************************************)
EXTENDS Integers, Sequences

CONSTANTS
  Clients,   \* connections
  Watcher,   \* the debounce thread, as the sender of a request
  Cap,       \* slots of the worker's channel (64 in the code)
  MaxDisk,   \* BOUND: changes made to the file
  MaxCalls,  \* BOUND: requests a connection carries
  Faults     \* what can go wrong: "error", "panic", "shutdown"

ASSUME QueueConstants ==
  /\ Watcher \notin Clients
  /\ Cap \in Nat \ {0}
  /\ MaxDisk \in Nat /\ MaxCalls \in Nat
  /\ Faults \subseteq {"error", "panic", "shutdown"}

VARIABLES
  disk,     \* version of the file
  notices,  \* changes the operating system has yet to report
  own,      \* writes under .brain it has yet to report
  events,   \* events in the watcher's channel
  watch,    \* where the debounce thread is
  conn,     \* each connection: where its task is, its request, calls made
  queue,    \* the worker's channel
  worker,   \* where the worker thread is
  job,      \* the request it handles
  walked,   \* version the current index request has read
  indexed,  \* version the stores hold
  reply,    \* what lies in the one-shot channel of each sender's request
  missed,   \* newest version read by an index request that failed
  main      \* where the main task is

files    == <<disk, notices, own>>
requests == <<queue, reply>>
indexes  == <<walked, indexed, missed>>
vars     == <<files, events, watch, conn, queue, worker, job, indexes, reply,
              main>>

Senders == Clients \cup {Watcher}
Kinds   == {"index", "ping", "other"}
Msg     == [from : Senders, kind : Kinds] \cup {[from |-> Watcher, kind |-> "shutdown"]}
NoJob   == [from |-> Watcher, kind |-> "none"]
NoConn  == [pc |-> "idle", kind |-> "other", since |-> 0, calls |-> 0]

Init ==
  /\ disk = 0 /\ notices = 0 /\ own = 0
  /\ events = 0 /\ watch = "recv"
  /\ conn = [c \in Clients |-> NoConn]
  /\ queue = <<>> /\ reply = [s \in Senders |-> "none"]
  /\ worker = "idle" /\ job = NoJob /\ walked = 0 /\ indexed = 0 /\ missed = 0
  /\ main = "serve"

Alive == main # "exited"
Room  == Len(queue) < Cap

-----------------------------------------------------------------------------
(* The file system and the notify callback.                                *)

Change ==
  /\ disk < MaxDisk
  /\ disk' = disk + 1
  /\ notices' = IF Alive THEN notices + 1 ELSE notices
  /\ UNCHANGED <<own, events, watch, conn, queue, worker, job, indexes,
                 reply, main>>

Notify ==
  /\ notices > 0
  /\ notices' = notices - 1
  /\ events'  = events + 1
  /\ UNCHANGED <<disk, own, watch, conn, queue, worker, job, indexes,
                 reply, main>>

\* Mutant: the events of .brain are not filtered out.
NotifyOwnToo ==
  /\ own > 0
  /\ own'    = own - 1
  /\ events' = events + 1
  /\ UNCHANGED <<disk, notices, watch, conn, queue, worker, job, indexes,
                 reply, main>>

NotifyOwn ==
  /\ own > 0
  /\ own' = own - 1
  /\ UNCHANGED <<disk, notices, events, watch, conn, queue, worker, job, indexes,
                 reply, main>>

-----------------------------------------------------------------------------
(* The debounce thread.                                                    *)

unwatched == <<files, conn, worker, job, indexes, main>>

Recv ==
  /\ watch = "recv"
  /\ events > 0
  /\ events' = events - 1
  /\ watch'  = "window"
  /\ UNCHANGED <<unwatched, requests>>

\* Mutant: the window counts an event off that may not have come.
WindowAlwaysTakes ==
  /\ watch = "window"
  /\ events' = events - 1
  /\ watch'  = "drain"
  /\ UNCHANGED <<unwatched, requests>>

\* recv_timeout: one more event, or none within 500 ms.
Window ==
  /\ watch = "window"
  /\ events' = IF events > 0 THEN events - 1 ELSE 0
  /\ watch'  = "drain"
  /\ UNCHANGED <<unwatched, requests>>

Drain ==
  /\ watch = "drain"
  /\ events' = 0
  /\ watch'  = "send"
  /\ UNCHANGED <<unwatched, requests>>

Requested(s, kind) == queue' = Append(queue, [from |-> s, kind |-> kind])

WatchSend ==
  /\ watch = "send"
  /\ \/ /\ worker # "dead" /\ Room
        /\ Requested(Watcher, "index")
        /\ watch' = "reply"
     \/ /\ worker = "dead"
        /\ watch' = "gone"
        /\ UNCHANGED queue
  /\ UNCHANGED <<unwatched, events, reply>>

\* Mutant: what came in during the reindex is drained after it.
WatchReplyDrains ==
  /\ watch = "reply"
  /\ reply[Watcher] # "none"
  /\ watch'  = IF reply[Watcher] = "dropped" THEN "gone" ELSE "recv"
  /\ reply'  = [reply EXCEPT ![Watcher] = "none"]
  /\ events' = 0
  /\ UNCHANGED <<unwatched, queue>>

\* An error is logged; a dropped reply ends the thread.
WatchReply ==
  /\ watch = "reply"
  /\ reply[Watcher] # "none"
  /\ watch' = IF reply[Watcher] = "dropped" THEN "gone" ELSE "recv"
  /\ reply' = [reply EXCEPT ![Watcher] = "none"]
  /\ UNCHANGED <<unwatched, events, queue>>

-----------------------------------------------------------------------------
(* A connection task: one request at a time.                               *)

unconnected == <<files, events, watch, worker, job, indexes, main>>

At(c, l)   == conn[c].pc = l
Goto(c, l) == conn' = [conn EXCEPT ![c].pc = l]

Request(c) ==
  /\ At(c, "idle")
  /\ conn[c].calls < MaxCalls
  /\ \E kind \in Kinds :
       conn' = [conn EXCEPT ![c] = [pc |-> "send", kind |-> kind, since |-> disk,
                                    calls |-> @.calls + 1]]
  /\ UNCHANGED <<unconnected, requests>>

\* SyncSender::send blocks while the channel is full and fails once the worker
\* is gone.
Send(c) ==
  /\ At(c, "send")
  /\ \/ /\ worker # "dead" /\ Room
        /\ Requested(c, conn[c].kind)
        /\ Goto(c, "await")
     \/ /\ worker = "dead"
        /\ Goto(c, "err")
        /\ UNCHANGED queue
  /\ UNCHANGED <<unconnected, reply>>

\* Mutant: the reply's result is not looked at.
RespondOk(c) ==
  /\ At(c, "await")
  /\ reply[c] # "none"
  /\ Goto(c, "ok")
  /\ reply' = [reply EXCEPT ![c] = "none"]
  /\ UNCHANGED <<unconnected, queue>>

\* A ping is answered with a pong even when its reply was dropped.
Respond(c) ==
  /\ At(c, "await")
  /\ reply[c] # "none"
  /\ Goto(c, IF reply[c] = "ok" \/ conn[c].kind = "ping" THEN "ok" ELSE "err")
  /\ reply' = [reply EXCEPT ![c] = "none"]
  /\ UNCHANGED <<unconnected, queue>>

Read(c) ==
  /\ conn[c].pc \in {"ok", "err"}
  /\ conn' = [conn EXCEPT ![c] = [NoConn EXCEPT !.calls = conn[c].calls]]
  /\ UNCHANGED <<unconnected, requests>>

\* The shutdown broadcast ends a task where it awaits; a blocked send is not
\* such a place.
CloseConn(c) ==
  /\ main # "serve"
  /\ conn[c].pc \notin {"send", "closed"}
  /\ Goto(c, "closed")
  /\ UNCHANGED <<unconnected, requests>>

-----------------------------------------------------------------------------
(* The worker thread.                                                      *)

unworked == <<disk, notices, events, watch, conn, main>>

Take ==
  /\ worker = "idle"
  /\ queue # <<>>
  /\ queue' = Tail(queue)
  /\ IF Head(queue).kind = "shutdown"
     THEN /\ worker' = "stopping"
          /\ UNCHANGED job
     ELSE /\ job'    = Head(queue)
          /\ worker' = IF Head(queue).kind = "index" THEN "index" ELSE "handle"
  /\ UNCHANGED <<unworked, own, indexes, reply>>

\* Mutant: an index request is answered from what the last one read.
WalkOnce ==
  /\ worker = "index"
  /\ walked' = IF walked = 0 THEN disk ELSE walked
  /\ worker' = "handle"
  /\ UNCHANGED <<unworked, own, job, indexed, missed, requests>>

\* index_project reads the file.
Walk ==
  /\ worker = "index"
  /\ walked' = disk
  /\ worker' = "handle"
  /\ UNCHANGED <<unworked, own, job, indexed, missed, requests>>

\* The handler returns.  An index request that fails may have committed.
Done ==
  /\ worker = "handle"
  /\ \E outcome \in {"ok"} \cup (IF "error" \in Faults /\ job.kind # "ping"
                                 THEN {"err"} ELSE {}) :
     \E committed \in BOOLEAN :
       /\ outcome = "ok" => committed
       /\ reply'   = [reply EXCEPT ![job.from] = outcome]
       /\ indexed' = IF job.kind = "index" /\ committed THEN walked ELSE indexed
       /\ own'     = IF job.kind = "index" /\ committed THEN 1 ELSE own
       /\ missed'  = IF job.kind = "index" /\ outcome = "err" THEN walked ELSE missed
  /\ worker' = "idle"
  /\ job'    = NoJob
  /\ UNCHANGED <<unworked, queue, walked>>

\* The receiver goes away with the requests in it, and their reply channels; a
\* shutdown message has none.
Dropped(lost) ==
  LET unanswered == {m \in lost : m.kind # "shutdown"} IN
  reply' = [s \in Senders |-> IF s \in {m.from : m \in unanswered} THEN "dropped" ELSE reply[s]]

Pending == {queue[i] : i \in 1 .. Len(queue)}

\* Mutant: the requests in the channel are forgotten with their senders waiting.
PanicKeepsReplies ==
  /\ "panic" \in Faults
  /\ worker \in {"index", "handle"} /\ job.kind # "ping"
  /\ worker' = "dead"
  /\ Dropped({job})
  /\ queue'  = <<>>
  /\ job'    = NoJob
  /\ UNCHANGED <<unworked, own, indexes>>

Panic ==
  /\ "panic" \in Faults
  /\ worker \in {"index", "handle"} /\ job.kind # "ping"
  /\ worker' = "dead"
  /\ Dropped(Pending \cup {job})
  /\ queue'  = <<>>
  /\ job'    = NoJob
  /\ UNCHANGED <<unworked, own, indexes>>

Stop ==
  /\ worker = "stopping"
  /\ worker' = "dead"
  /\ Dropped(Pending)
  /\ queue'  = <<>>
  /\ UNCHANGED <<unworked, own, job, indexes>>

-----------------------------------------------------------------------------
(* The main task.                                                          *)

Signal ==
  /\ "shutdown" \in Faults
  /\ main = "serve"
  /\ main' = "closing"
  /\ UNCHANGED <<files, events, watch, conn, queue, worker, job, indexes, reply>>

SendShutdown ==
  /\ main = "closing"
  /\ \/ /\ worker # "dead" /\ Room
        /\ Requested(Watcher, "shutdown")
     \/ worker = "dead" /\ UNCHANGED queue
  /\ main' = "leaving"
  /\ UNCHANGED <<files, events, watch, conn, worker, job, indexes, reply>>

\* The runtime ends once no task is blocked in a send; the worker and the
\* debounce thread are not waited for.
Exit ==
  /\ main = "leaving"
  /\ \A c \in Clients : ~At(c, "send")
  /\ main'    = "exited"
  /\ conn'    = [c \in Clients |-> [conn[c] EXCEPT !.pc = "closed"]]
  /\ worker'  = "dead" /\ watch' = "gone"
  /\ queue'   = <<>> /\ job' = NoJob
  /\ reply'   = [s \in Senders |-> "none"]
  /\ events'  = 0 /\ notices' = 0 /\ own' = 0
  /\ UNCHANGED <<disk, indexes>>

-----------------------------------------------------------------------------
FileSystem == Notify \/ NotifyOwn
Debounce   == Recv \/ Window \/ Drain \/ WatchSend \/ WatchReply
Conn(c)    == Send(c) \/ Respond(c) \/ CloseConn(c)
Work       == Take \/ Walk \/ Done \/ Stop
Main       == SendShutdown \/ Exit

Next ==
  \/ Change
  \/ FileSystem
  \/ Debounce
  \/ \E c \in Clients : Request(c) \/ Conn(c) \/ Read(c)
  \/ Work
  \/ Panic
  \/ Signal
  \/ Main

Spec == Init /\ [][Next]_vars

\* Every thread keeps running, and the operating system reports what it saw.
FairSpec ==
  /\ Spec
  /\ WF_vars(FileSystem)
  /\ WF_vars(Debounce)
  /\ \A c \in Clients : WF_vars(Conn(c))
  /\ WF_vars(Work)
  /\ WF_vars(Main)

-----------------------------------------------------------------------------
TypeOK ==
  /\ disk \in Nat /\ notices \in Nat /\ own \in Nat /\ events \in Nat
  /\ watch \in {"recv", "window", "drain", "send", "reply", "gone"}
  /\ conn \in [Clients -> [pc : {"idle", "send", "await", "ok", "err", "closed"},
                           kind : Kinds, since : Nat, calls : Nat]]
  /\ queue \in Seq(Msg)
  /\ worker \in {"idle", "index", "handle", "stopping", "dead"}
  /\ job \in Msg \cup {NoJob}
  /\ walked \in Nat /\ indexed \in Nat /\ missed \in Nat
  /\ reply \in [Senders -> {"none", "ok", "err", "dropped"}]
  /\ main \in {"serve", "closing", "leaving", "exited"}

\* The index service implemented by the threads.
Service ==
  INSTANCE IndexService WITH
    call <- [c \in Clients |->
               IF conn[c].pc = "closed"
               THEN [state |-> "closed", kind |-> "other", since |-> 0]
               ELSE [state |-> IF conn[c].pc \in {"send", "await"} THEN "pending"
                               ELSE conn[c].pc,
                     kind  |-> conn[c].kind,
                     since |-> conn[c].since]]

\* An index request that succeeds has indexed every change made before it, the
\* index never goes back, and each request gets one answer.
ImplementsService == Service!Spec

\* No request waits forever, whether the worker lives, panics or is shut down.
CallsEnd ==
  \A c \in Clients : conn[c].pc \in {"send", "await"} ~> conn[c].pc \notin {"send", "await"}

\* Every change of the file reaches the index, or an index request that had
\* read it failed; only a worker that is gone or a daemon that shuts down is
\* excused.  A failed reindex, which the watcher only logs, does not keep the
\* next change from being read.
ChangesGetIndexed ==
  \A v \in 1 .. MaxDisk :
    disk = v ~> indexed >= v \/ missed >= v \/ worker = "dead" \/ main # "serve"

\* The index's own writes do not keep the watcher busy: once the file no longer
\* changes it comes to rest, if its thread lives.
WatcherSettles == <>[](watch = "gone" \/ (watch = "recv" /\ events = 0))
=============================================================================
