-------------------------- MODULE DaemonQueueProofs ---------------------------
(***************************************************************************)
(* The threads of one daemon keep what IndexService promises, for any      *)
(* number of connections, any capacity of the channel and any faults.      *)
(*                                                                         *)
(* The reason: the one request of a connection is in the channel, in the   *)
(* worker's hands or answered, and an index request that has been walked   *)
(* was walked after it was made, since it was made before it was taken.    *)
(* At the end: what is asked for and what has changed is never lost.       *)
(***************************************************************************)
EXTENDS DaemonQueue, TLAPS

Busy == worker \in {"index", "handle"}

\* Where the request of a connection may be.
QueuedAt(c, i) == queue[i].from = c
Queued(c)      == \E i \in 1 .. Len(queue) : QueuedAt(c, i)
Handled(c)     == Busy /\ job.from = c
Replied(c)     == reply[c] # "none"

\* It is in one place, and only while its connection waits for it or is gone.
OnePlace(c) ==
  /\ \A i, j \in 1 .. Len(queue) : QueuedAt(c, i) /\ QueuedAt(c, j) => i = j
  /\ Queued(c)  => ~Handled(c) /\ ~Replied(c)
  /\ Handled(c) => ~Replied(c)
  /\ Queued(c) \/ Handled(c) \/ Replied(c) => conn[c].pc \in {"await", "closed"}

\* It is the one the connection made.
SameKind(c) ==
  At(c, "await") =>
    /\ \A i \in 1 .. Len(queue) : QueuedAt(c, i) => queue[i].kind = conn[c].kind
    /\ Handled(c) => job.kind = conn[c].kind

\* What has been walked for it, or published, is not older.
Fresh(c) ==
  /\ conn[c].since <= disk
  /\ At(c, "await") /\ conn[c].kind = "index" =>
       /\ Handled(c) /\ worker = "handle" => conn[c].since <= walked
       /\ reply[c] = "ok" => conn[c].since <= indexed

Versions == indexed <= walked /\ walked <= disk

JobIsRequest ==
  /\ Busy => job \in [from : Senders, kind : Kinds]
  /\ worker = "index" => job.kind = "index"

QueueInv ==
  /\ TypeOK /\ Versions /\ JobIsRequest
  /\ \A c \in Clients : OnePlace(c) /\ SameKind(c) /\ Fresh(c)

-----------------------------------------------------------------------------
(* The channel.                                                            *)

LEMMA Appended ==
  ASSUME queue \in Seq(Msg), NEW m \in Msg, queue' = Append(queue, m)
  PROVE  /\ queue' \in Seq(Msg) /\ Len(queue') = Len(queue) + 1
         /\ \A i \in 1 .. Len(queue) : queue'[i] = queue[i]
         /\ queue'[Len(queue) + 1] = m
OBVIOUS

LEMMA Taken ==
  ASSUME queue \in Seq(Msg), queue # <<>>, queue' = Tail(queue)
  PROVE  /\ queue' \in Seq(Msg) /\ Len(queue') = Len(queue) - 1
         /\ \A i \in 1 .. Len(queue') : i + 1 \in 1 .. Len(queue) /\ queue'[i] = queue[i + 1]
         /\ 1 \in 1 .. Len(queue) /\ Head(queue) = queue[1] /\ Head(queue) \in Msg
OBVIOUS

LEMMA Emptied ==
  ASSUME queue' = <<>>
  PROVE  queue' \in Seq(Msg) /\ Len(queue') = 0
OBVIOUS

LEMMA RequestTyped ==
  ASSUME NEW s \in Senders, NEW kind \in Kinds
  PROVE  [from |-> s, kind |-> kind] \in Msg
BY DEF Msg

-----------------------------------------------------------------------------
(* Types.                                                                  *)

LEMMA TypeInit == Init => TypeOK
BY DEF Init, TypeOK, NoConn, Kinds, Msg, NoJob

LEMMA TypeStep == TypeOK /\ [Next]_vars => TypeOK'
<1> SUFFICES ASSUME TypeOK, [Next]_vars PROVE TypeOK'
  OBVIOUS
<1>1. ASSUME Change \/ FileSystem PROVE TypeOK'
  BY <1>1 DEF Change, FileSystem, Notify, NotifyOwn, TypeOK, indexes
<1>2. ASSUME Recv \/ Window \/ Drain PROVE TypeOK'
  BY <1>2 DEF Recv, Window, Drain, TypeOK, files, requests, indexes, unwatched
<1>3. ASSUME WatchSend PROVE TypeOK'
  <2>1. queue' \in Seq(Msg)
    BY <1>3, Appended, RequestTyped DEF WatchSend, Requested, TypeOK, Senders, Kinds
  <2> QED
    BY <1>3, <2>1 DEF WatchSend, TypeOK, files, indexes, unwatched
<1>4. ASSUME WatchReply PROVE TypeOK'
  BY <1>4 DEF WatchReply, TypeOK, files, indexes, unwatched
<1>5. ASSUME NEW c \in Clients, Request(c) \/ CloseConn(c) \/ Read(c) PROVE TypeOK'
  <2>1. CASE Request(c)
    BY <2>1 DEF Request, At, TypeOK, files, requests, indexes, unconnected
  <2>2. CASE CloseConn(c)
    BY <2>2 DEF CloseConn, Goto, TypeOK, files, requests, indexes, unconnected
  <2>3. CASE Read(c)
    BY <2>3 DEF Read, NoConn, TypeOK, Kinds, files, requests, indexes, unconnected
  <2> QED
    BY <1>5, <2>1, <2>2, <2>3
<1>6. ASSUME NEW c \in Clients, Send(c) PROVE TypeOK'
  <2>1. queue' \in Seq(Msg)
    BY <1>6, Appended, RequestTyped DEF Send, Requested, TypeOK, Senders
  <2> QED
    BY <1>6, <2>1 DEF Send, Goto, TypeOK, files, indexes, unconnected
<1>7. ASSUME NEW c \in Clients, Respond(c) PROVE TypeOK'
  BY <1>7 DEF Respond, Goto, TypeOK, files, indexes, unconnected
<1>8. ASSUME Take PROVE TypeOK'
  BY <1>8, Taken DEF Take, TypeOK, indexes, unworked
<1>9. ASSUME Walk \/ Done PROVE TypeOK'
  <2>1. CASE Walk
    BY <2>1 DEF Walk, TypeOK, requests, unworked
  <2>2. CASE Done
    <3>1. PICK outcome \in {"ok", "err"} : reply' = [reply EXCEPT ![job.from] = outcome]
      BY <2>2 DEF Done
    <3>2. indexed' \in Nat /\ own' \in Nat /\ missed' \in Nat
      BY <2>2 DEF Done, TypeOK
    <3> QED
      BY <2>2, <3>1, <3>2 DEF Done, TypeOK, unworked
  <2> QED
    BY <1>9, <2>1, <2>2
<1>10. ASSUME Panic \/ Stop PROVE TypeOK'
  BY <1>10, Emptied DEF Panic, Stop, Dropped, TypeOK, indexes, unworked
<1>11. ASSUME Signal PROVE TypeOK'
  BY <1>11 DEF Signal, TypeOK, files, indexes
<1>12. ASSUME SendShutdown PROVE TypeOK'
  <2>1. [from |-> Watcher, kind |-> "shutdown"] \in Msg
    BY DEF Msg
  <2>2. queue' \in Seq(Msg)
    BY <1>12, <2>1, Appended DEF SendShutdown, Requested, TypeOK
  <2> QED
    BY <1>12, <2>2 DEF SendShutdown, TypeOK, files, indexes
<1>13. ASSUME Exit PROVE TypeOK'
  BY <1>13, Emptied DEF Exit, TypeOK, indexes
<1>14. CASE UNCHANGED vars
  BY <1>14 DEF vars, files, requests, indexes, TypeOK
<1> QED
  BY <1>1, <1>2, <1>3, <1>4, <1>5, <1>6, <1>7, <1>8, <1>9, <1>10, <1>11, <1>12, <1>13, <1>14
     DEF Next, Debounce, Conn, Work, Main

\* Whatever panics, fails or shuts down, every thread and channel keeps its type.
THEOREM TypeCorrect == Spec => []TypeOK
BY TypeInit, TypeStep, PTL DEF Spec

-----------------------------------------------------------------------------
(* Requests and answers.                                                   *)

ConnInv(c) == OnePlace(c) /\ SameKind(c) /\ Fresh(c)

LEMMA InvInit == Init => QueueInv
<1> SUFFICES ASSUME Init PROVE QueueInv
  OBVIOUS
<1>1. Len(queue) = 0
  BY DEF Init
<1>2. ASSUME NEW c \in Clients PROVE ConnInv(c)
  BY <1>1 DEF Init, ConnInv, OnePlace, SameKind, Fresh, Queued, Handled, Replied, Busy, At,
              NoConn, Senders
<1> QED
  BY <1>2, TypeInit DEF Init, QueueInv, ConnInv, Versions, JobIsRequest, Busy

\* Steps that move no request.
LEMMA NothingMoves ==
  ASSUME QueueInv, NEW c \in Clients, UNCHANGED <<queue, worker, job, indexed>>,
         conn'[c] = conn[c], reply'[c] = reply[c], disk' \in Nat, disk' >= disk, walked' = walked
  PROVE  ConnInv(c)'
<1>1. conn[c].since <= disk'
  BY DEF QueueInv, Fresh, TypeOK
<1> QED
  BY <1>1 DEF QueueInv, ConnInv, OnePlace, SameKind, Fresh, QueuedAt, Queued, Handled, Replied,
              Busy, At

\* Steps of a connection, or of others, that send, take or answer nothing of c.
LEMMA ConnMoves ==
  ASSUME QueueInv, NEW c \in Clients, UNCHANGED <<disk, queue, worker, job, indexes, reply>>,
         conn'[c].pc \notin {"await"},
         conn'[c].pc = "closed" \/ ~(Queued(c) \/ Handled(c) \/ Replied(c)),
         conn'[c].since \in {conn[c].since, disk, 0}
  PROVE  ConnInv(c)'
<1>1. conn'[c].since <= disk
  BY DEF QueueInv, Fresh, TypeOK
<1> QED
  BY <1>1 DEF QueueInv, ConnInv, OnePlace, SameKind, Fresh, QueuedAt, Queued, Handled, Replied,
              Busy, At, indexes

\* A message of another sender comes to the channel.
LEMMA OthersSend ==
  ASSUME QueueInv, NEW c \in Clients, NEW m \in Msg, m.from # c,
         queue' = Append(queue, m), conn'[c] = conn[c],
         UNCHANGED <<disk, worker, job, indexes, reply>>
  PROVE  ConnInv(c)'
<1>1. /\ Len(queue') = Len(queue) + 1 /\ Len(queue) \in Nat
      /\ \A i \in 1 .. Len(queue) : queue'[i] = queue[i]
      /\ queue'[Len(queue) + 1] = m
  BY Appended DEF QueueInv, TypeOK
<1>2. \A i \in 1 .. Len(queue') :
        QueuedAt(c, i)' => i \in 1 .. Len(queue) /\ QueuedAt(c, i) /\ queue'[i] = queue[i]
  BY <1>1 DEF QueuedAt
<1>3. Queued(c)' => Queued(c)
  BY <1>2 DEF Queued
<1> QED
  BY <1>2, <1>3 DEF QueueInv, ConnInv, OnePlace, SameKind, Fresh, Handled, Replied, Busy, At,
                    indexes

\* The channel empties, and the requests in it and in the worker's hands are
\* dropped: those of c with them.
LEMMA AllDropped ==
  ASSUME QueueInv, NEW c \in Clients, queue' = <<>>, worker' = "dead",
         UNCHANGED <<disk, indexes, conn>>,
         reply'[c] = reply[c] \/ (reply'[c] = "dropped" /\ (Queued(c) \/ Handled(c)))
  PROVE  ConnInv(c)'
<1>1. Len(queue') = 0
  BY Emptied
<1> QED
  BY <1>1 DEF QueueInv, ConnInv, OnePlace, SameKind, Fresh, Queued, Handled, Replied, Busy, At,
              indexes

LEMMA TakeInv == ASSUME QueueInv, Take, NEW c \in Clients PROVE ConnInv(c)'
<1>1. /\ Len(queue') = Len(queue) - 1 /\ Len(queue) \in Nat
      /\ \A i \in 1 .. Len(queue') : i + 1 \in 1 .. Len(queue) /\ queue'[i] = queue[i + 1]
      /\ 1 \in 1 .. Len(queue) /\ Head(queue) = queue[1] /\ Head(queue) \in Msg
  BY Taken DEF QueueInv, TypeOK, Take
<1>2. \A i \in 1 .. Len(queue') : QueuedAt(c, i)' =>
        i + 1 \in 1 .. Len(queue) /\ QueuedAt(c, i + 1) /\ queue'[i] = queue[i + 1]
  BY <1>1 DEF QueuedAt
<1>3. ~Handled(c) /\ worker = "idle" /\ UNCHANGED <<conn, disk, reply, walked, indexed>>
  BY DEF Take, Handled, Busy, unworked, indexes
<1>4. Queued(c)' => Queued(c)
  BY <1>2 DEF Queued
<1>6. Handled(c)' => QueuedAt(c, 1) /\ job' = queue[1]
  BY <1>1, <1>3 DEF Take, Handled, QueuedAt, Busy
<1>7. Handled(c)' => Queued(c) /\ ~Queued(c)'
  <2>1. ASSUME Handled(c)', NEW i \in 1 .. Len(queue'), QueuedAt(c, i)' PROVE FALSE
    <3>1. i + 1 = 1
      BY <1>1, <1>2, <1>6, <2>1 DEF QueueInv, OnePlace
    <3> QED
      BY <3>1
  <2> QED
    BY <1>1, <1>6, <2>1 DEF Queued
<1>8. OnePlace(c)'
  <2>1. ASSUME NEW i \in 1 .. Len(queue'), NEW j \in 1 .. Len(queue'),
               QueuedAt(c, i)', QueuedAt(c, j)'
        PROVE  i = j
    <3>1. i + 1 = j + 1
      BY <1>2, <2>1 DEF QueueInv, OnePlace
    <3> QED
      BY <3>1
  <2> QED
    BY <1>3, <1>4, <1>7, <2>1 DEF QueueInv, OnePlace, Replied
<1>9. SameKind(c)'
  BY <1>1, <1>2, <1>3, <1>6 DEF QueueInv, SameKind, At
<1>10. Fresh(c)'
  <2>1. ~(Handled(c)' /\ worker' = "handle" /\ conn'[c].kind = "index" /\ At(c, "await")')
    BY <1>1, <1>3, <1>6 DEF QueueInv, SameKind, At, Take
  <2> QED
    BY <1>3, <2>1 DEF QueueInv, Fresh, At
<1> QED
  BY <1>8, <1>9, <1>10 DEF ConnInv

LEMMA SendInv == ASSUME QueueInv, NEW c \in Clients, Send(c) PROVE \A d \in Clients : ConnInv(d)'
<1> SUFFICES ASSUME NEW d \in Clients PROVE ConnInv(d)'
  OBVIOUS
<1>1. UNCHANGED <<disk, worker, job, walked, indexed, missed, reply>> /\ At(c, "send")
      /\ ~Queued(c) /\ ~Handled(c) /\ ~Replied(c)
  BY DEF Send, unconnected, files, indexes, QueueInv, OnePlace, At
<1>2. conn \in [Clients -> [pc : {"idle", "send", "await", "ok", "err", "closed"},
                           kind : Kinds, since : Nat, calls : Nat]]
  BY DEF QueueInv, TypeOK
<1>3. CASE worker = "dead"
  <2>1. conn'[d].pc = IF d = c THEN "err" ELSE conn[d].pc
    BY <1>2, <1>3 DEF Send, Goto
  <2>2. conn'[d].since = conn[d].since /\ UNCHANGED queue
    BY <1>2, <1>3 DEF Send, Goto
  <2>3. CASE d = c
    BY <1>1, <2>1, <2>2, <2>3, ConnMoves DEF indexes
  <2>4. CASE d # c
    <3>1. conn'[d] = conn[d]
      BY <1>2, <1>3, <2>4 DEF Send, Goto
    <3>2. disk' \in Nat /\ disk' >= disk
      BY <1>1 DEF QueueInv, TypeOK
    <3> QED
      BY <1>1, <2>2, <3>1, <3>2, NothingMoves
  <2> QED
    BY <2>3, <2>4
<1>4. CASE worker # "dead"
  <2> DEFINE m == [from |-> c, kind |-> conn[c].kind]
  <2>1. m \in Msg /\ queue' = Append(queue, m) /\ conn' = [conn EXCEPT ![c].pc = "await"]
    BY <1>2, <1>4, RequestTyped DEF Send, Requested, Goto, Senders
  <2>2. CASE d # c
    BY <1>1, <1>2, <2>1, <2>2, OthersSend DEF indexes
  <2>3. CASE d = c
    <3>1. /\ Len(queue') = Len(queue) + 1 /\ Len(queue) \in Nat
          /\ \A i \in 1 .. Len(queue) : queue'[i] = queue[i]
          /\ queue'[Len(queue) + 1] = m
      BY <2>1, Appended DEF QueueInv, TypeOK
    <3>2. \A i \in 1 .. Len(queue') : QueuedAt(d, i)' => i = Len(queue) + 1
      BY <1>1, <2>3, <3>1 DEF QueuedAt, Queued
    <3>3. conn'[d].pc = "await" /\ conn'[d].kind = conn[c].kind /\ conn'[d].since = conn[d].since
      BY <1>2, <2>1, <2>3
    <3>4. ~Handled(d)' /\ ~Replied(d)' /\ reply'[d] = "none"
      BY <1>1, <2>3 DEF Handled, Replied, Busy
    <3>5. OnePlace(d)'
      BY <3>2, <3>3, <3>4 DEF OnePlace
    <3>6. SameKind(d)'
      <4>1. queue'[Len(queue) + 1].kind = conn[c].kind
        BY <3>1
      <4> QED
        BY <3>2, <3>3, <3>4, <4>1 DEF SameKind
    <3>7. Fresh(d)'
      BY <1>1, <3>3, <3>4 DEF QueueInv, Fresh
    <3> QED
      BY <3>5, <3>6, <3>7 DEF ConnInv
  <2> QED
    BY <2>2, <2>3
<1> QED
  BY <1>3, <1>4

LEMMA RespondInv ==
  ASSUME QueueInv, NEW c \in Clients, Respond(c) PROVE \A d \in Clients : ConnInv(d)'
<1> SUFFICES ASSUME NEW d \in Clients PROVE ConnInv(d)'
  OBVIOUS
<1>1. UNCHANGED <<disk, worker, job, walked, indexed, queue>> /\ Replied(c)
      /\ ~Queued(c) /\ ~Handled(c)
  BY DEF Respond, unconnected, files, indexes, QueueInv, OnePlace, Replied
<1>2. conn \in [Clients -> [pc : {"idle", "send", "await", "ok", "err", "closed"},
                           kind : Kinds, since : Nat, calls : Nat]]
      /\ reply \in [Senders -> {"none", "ok", "err", "dropped"}]
  BY DEF QueueInv, TypeOK
<1>3. PICK l \in {"ok", "err"} :
        conn' = [conn EXCEPT ![c].pc = l] /\ reply' = [reply EXCEPT ![c] = "none"]
  BY DEF Respond, Goto
<1>4. CASE d # c
  <2>1. conn'[d] = conn[d] /\ reply'[d] = reply[d]
    BY <1>2, <1>3, <1>4 DEF Senders
  <2>2. disk' \in Nat /\ disk' >= disk
    BY <1>1 DEF QueueInv, TypeOK
  <2> QED
    BY <1>1, <2>1, <2>2, NothingMoves
<1>5. CASE d = c
  <2>1. conn'[d].pc = l /\ conn'[d].since = conn[d].since /\ reply'[d] = "none"
    BY <1>2, <1>3, <1>5 DEF Senders
  <2>2. ~Queued(d)' /\ ~Handled(d)' /\ ~Replied(d)'
        /\ \A i \in 1 .. Len(queue') : ~QueuedAt(d, i)'
    BY <1>1, <1>5, <2>1 DEF Queued, QueuedAt, Handled, Replied, Busy
  <2> QED
    BY <1>1, <2>1, <2>2 DEF QueueInv, ConnInv, OnePlace, SameKind, Fresh, At
<1> QED
  BY <1>4, <1>5

LEMMA WalkInv == ASSUME QueueInv, Walk, NEW c \in Clients PROVE ConnInv(c)'
<1>1. UNCHANGED <<disk, conn, queue, reply, job, indexed>> /\ worker = "index" /\ worker' = "handle"
      /\ walked' = disk
  BY DEF Walk, unworked, requests
<1>2. Handled(c)' <=> Handled(c)
  BY <1>1 DEF Handled, Busy
<1>3. OnePlace(c)' /\ SameKind(c)'
  BY <1>1, <1>2 DEF QueueInv, OnePlace, SameKind, QueuedAt, Queued, Replied, At
<1>4. Fresh(c)'
  BY <1>1 DEF QueueInv, Fresh, At
<1> QED
  BY <1>3, <1>4 DEF ConnInv

LEMMA DoneInv == ASSUME QueueInv, Done, NEW c \in Clients PROVE ConnInv(c)'
<1>1. UNCHANGED <<disk, conn, queue, walked>> /\ worker = "handle" /\ worker' = "idle" /\ Busy
  BY DEF Done, unworked, Busy
<1>2. job \in [from : Senders, kind : Kinds] /\ reply \in [Senders -> {"none", "ok", "err", "dropped"}]
  BY <1>1 DEF QueueInv, JobIsRequest, TypeOK
<1>3. PICK outcome \in {"ok", "err"}, committed \in BOOLEAN :
        /\ outcome = "ok" => committed
        /\ reply' = [reply EXCEPT ![job.from] = outcome]
        /\ indexed' = IF job.kind = "index" /\ committed THEN walked ELSE indexed
  BY DEF Done
<1>4. indexed' \in Nat /\ indexed' >= indexed
  BY <1>3 DEF QueueInv, Versions, TypeOK
<1>5. ~Handled(c)'
  BY <1>1 DEF Handled, Busy
<1>6. CASE job.from = c
  <2>1. Handled(c) /\ reply'[c] = outcome /\ ~Queued(c)
    BY <1>1, <1>2, <1>3, <1>6 DEF Handled, QueueInv, OnePlace
  <2>2. \A i \in 1 .. Len(queue') : ~QueuedAt(c, i)'
    BY <1>1, <2>1 DEF Queued, QueuedAt
  <2>3. OnePlace(c)' /\ SameKind(c)'
    BY <1>1, <1>5, <2>1, <2>2 DEF QueueInv, OnePlace, SameKind, Queued
  <2>4. Fresh(c)'
    <3>1. At(c, "await") /\ conn[c].kind = "index" => job.kind = "index" /\ conn[c].since <= walked
      BY <1>1, <2>1 DEF QueueInv, SameKind, Fresh
    <3>2. outcome = "ok" /\ job.kind = "index" => indexed' = walked
      BY <1>3
    <3> QED
      BY <1>1, <1>5, <2>1, <3>1, <3>2 DEF QueueInv, Fresh, At
  <2> QED
    BY <2>3, <2>4 DEF ConnInv
<1>7. CASE job.from # c
  <2>1. reply'[c] = reply[c]
    BY <1>2, <1>3, <1>7 DEF Senders
  <2>2. OnePlace(c)' /\ SameKind(c)'
    BY <1>1, <1>5, <2>1 DEF QueueInv, OnePlace, SameKind, Queued, QueuedAt, Replied, At
  <2>3. Fresh(c)'
    BY <1>1, <1>4, <1>5, <2>1 DEF QueueInv, Fresh, At, TypeOK
  <2> QED
    BY <2>2, <2>3 DEF ConnInv
<1> QED
  BY <1>6, <1>7

LEMMA DroppedInv ==
  ASSUME QueueInv, Panic \/ Stop \/ Exit, NEW c \in Clients PROVE ConnInv(c)'
<1>1. CASE Panic \/ Stop
  <2>1. PICK lost \in {Pending, Pending \cup {job}} :
          /\ Dropped(lost) /\ (lost = Pending \/ Busy)
          /\ queue' = <<>> /\ worker' = "dead" /\ UNCHANGED <<disk, indexes, conn>>
    BY <1>1 DEF Panic, Stop, Busy, unworked, indexes
  <2>2. reply'[c] = "dropped" \/ reply'[c] = reply[c]
    BY <2>1 DEF Dropped, Senders
  <2>3. (\E m \in Pending : m.from = c) => Queued(c)
    BY DEF Pending, Queued, QueuedAt
  <2>4. (\E m \in lost : m.from = c) => Queued(c) \/ Handled(c)
    BY <2>1, <2>3 DEF Handled
  <2>5. reply'[c] = reply[c] \/ \E m \in lost : m.from = c
    BY <2>1 DEF Dropped, Senders
  <2> QED
    BY <2>1, <2>2, <2>4, <2>5, AllDropped
<1>2. CASE Exit
  <2>1. conn'[c].pc = "closed" /\ conn'[c].since = conn[c].since /\ Len(queue') = 0
        /\ worker' = "dead" /\ reply'[c] = "none" /\ disk' = disk
    BY <1>2 DEF Exit, QueueInv, TypeOK, Senders
  <2> QED
    BY <2>1 DEF QueueInv, ConnInv, OnePlace, SameKind, Fresh, Queued, Handled, Replied, Busy, At
<1> QED
  BY <1>1, <1>2

LEMMA ConnStep ==
  ASSUME QueueInv, [Next]_vars PROVE \A c \in Clients : ConnInv(c)'
<1> SUFFICES ASSUME NEW c \in Clients PROVE ConnInv(c)'
  OBVIOUS
<1> USE DEF files, requests, indexes
<1>1. disk \in Nat /\ conn \in [Clients -> [pc : {"idle", "send", "await", "ok", "err", "closed"},
                                     kind : Kinds, since : Nat, calls : Nat]]
      /\ Watcher # c /\ Watcher \in Senders
      /\ reply \in [Senders -> {"none", "ok", "err", "dropped"}]
  BY QueueConstants DEF QueueInv, TypeOK, Senders
<1>2. ASSUME Change \/ FileSystem \/ Recv \/ Window \/ Drain \/ WatchReply \/ Signal
             \/ UNCHANGED vars
      PROVE  ConnInv(c)'
  <2>1. UNCHANGED <<conn, queue, worker, job, walked, indexed>>
    BY <1>2 DEF Change, FileSystem, Notify, NotifyOwn, Recv, Window, Drain, WatchReply, Signal, vars,
                unwatched
  <2>2. reply'[c] = reply[c]
    BY <1>1, <1>2 DEF Change, FileSystem, Notify, NotifyOwn, Recv, Window, Drain, WatchReply, Signal,
                vars, unwatched, Senders
  <2>3. disk' \in Nat /\ disk' >= disk
    BY <1>1, <1>2 DEF Change, FileSystem, Notify, NotifyOwn, Recv, Window, Drain, WatchReply, Signal,
                vars, unwatched
  <2> QED
    BY <2>1, <2>2, <2>3, NothingMoves
<1>3. ASSUME WatchSend \/ SendShutdown PROVE ConnInv(c)'
  <2>1. UNCHANGED <<disk, conn, worker, job, walked, indexed, missed, reply>>
    BY <1>3 DEF WatchSend, SendShutdown, unwatched
  <2>2. CASE UNCHANGED queue
    BY <1>1, <2>1, <2>2, NothingMoves
  <2>3. CASE ~UNCHANGED queue
    <3>1. PICK m \in Msg : m.from = Watcher /\ queue' = Append(queue, m)
      BY <1>3, <2>3 DEF WatchSend, SendShutdown, Requested, Msg, Senders, Kinds
    <3> QED
      BY <1>1, <2>1, <3>1, OthersSend
  <2> QED
    BY <2>2, <2>3
<1>4. ASSUME NEW d \in Clients, Request(d) \/ Read(d) \/ CloseConn(d) PROVE ConnInv(c)'
  <2>1. UNCHANGED <<disk, queue, worker, job, walked, indexed, missed, reply>>
    BY <1>4 DEF Request, Read, CloseConn, unconnected
  <2>2. CASE d # c
    <3>1. conn'[c] = conn[c]
      BY <1>1, <1>4, <2>2 DEF Request, Read, CloseConn, Goto
    <3> QED
      BY <1>1, <2>1, <3>1, NothingMoves
  <2>3. CASE d = c
    <3>1. conn'[c].pc # "await" /\ conn'[c].since \in {conn[c].since, disk, 0}
      BY <1>1, <1>4, <2>3 DEF Request, Read, CloseConn, Goto, NoConn
    <3>2. conn'[c].pc = "closed" \/ conn[c].pc \in {"idle", "ok", "err"}
      BY <1>1, <1>4, <2>3 DEF Request, Read, CloseConn, Goto, At
    <3>3. conn'[c].pc = "closed" \/ ~(Queued(c) \/ Handled(c) \/ Replied(c))
      BY <3>2 DEF QueueInv, OnePlace
    <3> QED
      BY <2>1, <3>1, <3>3, ConnMoves
  <2> QED
    BY <2>2, <2>3
<1> QED
  BY <1>2, <1>3, <1>4, SendInv, RespondInv, TakeInv, WalkInv, DoneInv, DroppedInv
     DEF Next, Debounce, Conn, Work, Main

LEMMA InvStep == QueueInv /\ [Next]_vars => QueueInv'
<1> SUFFICES ASSUME QueueInv, [Next]_vars PROVE QueueInv'
  OBVIOUS
<1>1. TypeOK'
  BY TypeStep DEF QueueInv
<1>2. Versions'
  <2>1. /\ disk \in Nat /\ walked \in Nat /\ indexed \in Nat /\ indexed <= walked /\ walked <= disk
    BY DEF QueueInv, Versions, TypeOK
  <2>2. /\ disk' \in {disk, disk + 1}
        /\ walked' \in {walked, disk} /\ indexed' \in {indexed, walked}
        /\ (walked' # walked => indexed' = indexed)
    <3> USE DEF files, indexes, unworked, unwatched, unconnected
    <3>1. CASE FileSystem \/ Debounce \/ Signal \/ Main \/ Take \/ Stop \/ Panic \/ UNCHANGED vars
      BY <3>1 DEF FileSystem, Notify, NotifyOwn, Debounce, Recv, Window, Drain, WatchSend, WatchReply,
                  Signal, Main, SendShutdown, Exit, Take, Stop, Panic, vars
    <3>2. CASE \E c \in Clients : Request(c) \/ Conn(c) \/ Read(c)
      BY <3>2 DEF Request, Conn, Send, Respond, CloseConn, Read
    <3>3. CASE Change
      BY <3>3 DEF Change
    <3>4. CASE Walk
      BY <3>4 DEF Walk
    <3>5. CASE Done
      BY <3>5 DEF Done
    <3> QED
      BY <3>1, <3>2, <3>3, <3>4, <3>5 DEF Next, Work
  <2> QED
    BY <2>1, <2>2 DEF Versions
<1>3. JobIsRequest'
  <2>1. CASE Take
    <3>1. Head(queue) \in Msg
      BY <2>1, Taken DEF Take, QueueInv, TypeOK
    <3>2. Head(queue).kind # "shutdown" => Head(queue) \in [from : Senders, kind : Kinds]
      BY <3>1 DEF Msg
    <3> QED
      BY <2>1, <3>2 DEF Take, JobIsRequest, Busy
  <2>2. CASE worker' = worker /\ job' = job
    BY <2>2 DEF QueueInv, JobIsRequest, Busy
  <2>3. CASE worker' \in {"idle", "dead"}
    BY <2>3 DEF JobIsRequest, Busy
  <2>4. CASE Walk
    BY <2>4 DEF Walk, QueueInv, JobIsRequest, Busy
  <2> QED
    BY <2>1, <2>2, <2>3, <2>4
       DEF Next, Change, FileSystem, Notify, NotifyOwn, Debounce, Recv, Window, Drain, WatchSend,
           WatchReply, Request, Conn, Send, Respond, CloseConn, Read, Work, Done, Stop, Panic, Signal,
           Main, SendShutdown, Exit, unwatched, unconnected, vars
<1> QED
  BY <1>1, <1>2, <1>3, ConnStep DEF QueueInv, ConnInv

LEMMA InvCorrect == Spec => []QueueInv
BY InvInit, InvStep, PTL DEF Spec

-----------------------------------------------------------------------------
(* The threads implement the service.                                      *)

\* What the service sees of a connection.
Seen(k) ==
  IF k.pc = "closed"
  THEN [state |-> "closed", kind |-> "other", since |-> 0]
  ELSE [state |-> IF k.pc \in {"send", "await"} THEN "pending" ELSE k.pc,
        kind  |-> k.kind, since |-> k.since]

Calls == [c \in Clients |-> Seen(conn[c])]

\* A step that leaves what the service sees of all connections but c alone.
LEMMA OneCall ==
  ASSUME TypeOK, NEW c \in Clients, NEW k, conn' = [conn EXCEPT ![c] = k]
  PROVE  Calls' = [Calls EXCEPT ![c] = Seen(k)]
BY DEF Calls, Seen, TypeOK

LEMMA ServiceInit == Init => Service!Init
BY DEF Init, Service!Init, Service!NoCall, NoConn

LEMMA ServiceStep == QueueInv /\ [Next]_vars => [Service!Next]_(Service!vars)
<1> SUFFICES ASSUME QueueInv, [Next]_vars PROVE Service!Next \/ UNCHANGED <<disk, indexed, Calls>>
  BY DEF Service!vars, Calls, Seen
<1> USE DEF files, requests, indexes
<1>1. TypeOK
  BY DEF QueueInv
<1>2. ASSUME UNCHANGED <<disk, indexed, conn>> PROVE UNCHANGED <<disk, indexed, Calls>>
  BY <1>2 DEF Calls, Seen
<1>3. CASE FileSystem \/ Debounce \/ Signal \/ SendShutdown \/ Take \/ Walk \/ Stop \/ Panic
           \/ UNCHANGED vars
  BY <1>2, <1>3 DEF FileSystem, Notify, NotifyOwn, Debounce, Recv, Window, Drain, WatchSend,
                    WatchReply, Signal, SendShutdown, Take, Walk, Stop, Panic, vars,
                    unworked, unwatched
<1>4. CASE Change
  BY <1>4 DEF Change, Service!Next, Service!Change
<1>5. CASE Done
  <2>1. UNCHANGED <<disk, conn>> /\ indexed' \in {indexed, walked}
    BY <1>5 DEF Done, unworked
  <2>2. indexed' = indexed \/ indexed' \in indexed + 1 .. disk
    BY <2>1 DEF QueueInv, Versions, TypeOK
  <2>3. CASE indexed' = indexed
    BY <1>2, <2>1, <2>3
  <2>4. CASE indexed' \in indexed + 1 .. disk
    BY <2>1, <2>4 DEF Service!Next, Service!Reindex
  <2> QED
    BY <2>2, <2>3, <2>4
<1>6. ASSUME NEW c \in Clients, Request(c) PROVE Service!Next
  <2>1. PICK kind \in Kinds :
          conn' = [conn EXCEPT ![c] = [pc |-> "send", kind |-> kind, since |-> disk,
                                       calls |-> @.calls + 1]]
    BY <1>6 DEF Request
  <2>2. Calls' = [Calls EXCEPT ![c] = [state |-> "pending", kind |-> kind, since |-> disk]]
    BY <1>1, <2>1, OneCall DEF Seen
  <2>3. Calls[c].state = "idle" /\ UNCHANGED <<disk, indexed>>
    BY <1>6 DEF Request, At, Calls, Seen, unconnected
  <2>4. Service!Call(c)
    BY <2>2, <2>3 DEF Service!Call, Calls, Seen, Kinds
  <2> QED
    BY <2>4 DEF Service!Next
<1>7. ASSUME NEW c \in Clients, NEW outcome \in {"ok", "err"},
             conn' = [conn EXCEPT ![c].pc = outcome], conn[c].pc \in {"send", "await"},
             UNCHANGED <<disk, indexed>>,
             outcome = "ok" /\ conn[c].kind = "index" => indexed >= conn[c].since
      PROVE  Service!Next
  <2>1. Calls[c].state = "pending" /\ Calls[c].kind = conn[c].kind /\ Calls[c].since = conn[c].since
    BY <1>7 DEF Calls, Seen
  <2>2. Calls' = [Calls EXCEPT ![c].state = outcome]
    BY <1>1, <1>7 DEF Calls, Seen, TypeOK
  <2>3. Service!Answer(c)
    BY <1>7, <2>1, <2>2 DEF Service!Answer, Calls, Seen
  <2> QED
    BY <2>3 DEF Service!Next
<1>8. ASSUME NEW c \in Clients, Send(c) PROVE Service!Next \/ UNCHANGED <<disk, indexed, Calls>>
  <2>1. CASE conn' = [conn EXCEPT ![c].pc = "err"]
    BY <1>7, <1>8, <2>1 DEF Send, At, unconnected
  <2>2. CASE conn' = [conn EXCEPT ![c].pc = "await"]
    <3>1. Calls' = Calls
      BY <1>1, <1>8, <2>2 DEF Send, At, Calls, Seen, TypeOK
    <3> QED
      BY <1>8, <3>1 DEF Send, unconnected
  <2> QED
    BY <1>8, <2>1, <2>2 DEF Send, Goto
<1>9. ASSUME NEW c \in Clients, Respond(c) PROVE Service!Next
  <2>1. PICK outcome \in {"ok", "err"} :
          /\ conn' = [conn EXCEPT ![c].pc = outcome]
          /\ outcome = "ok" => reply[c] = "ok" \/ conn[c].kind = "ping"
    BY <1>9 DEF Respond, Goto
  <2>2. outcome = "ok" /\ conn[c].kind = "index" => indexed >= conn[c].since
    BY <1>9, <2>1 DEF Respond, QueueInv, Fresh, TypeOK
  <2> QED
    BY <1>7, <1>9, <2>1, <2>2 DEF Respond, At, unconnected
<1>10. ASSUME NEW c \in Clients, Read(c) PROVE Service!Next
  <2>1. Calls' = [Calls EXCEPT ![c] = Service!NoCall]
    BY <1>1, <1>10, OneCall DEF Read, Seen, NoConn, Service!NoCall
  <2>2. Calls[c].state \in {"ok", "err"} /\ UNCHANGED <<disk, indexed>>
    BY <1>10 DEF Read, Calls, Seen, unconnected
  <2>3. Service!Read(c)
    BY <2>1, <2>2 DEF Service!Read, Calls, Seen
  <2> QED
    BY <2>3 DEF Service!Next
<1>11. ASSUME NEW c \in Clients, CloseConn(c) PROVE Service!Next
  <2>1. Calls' = [Calls EXCEPT ![c] = [Service!NoCall EXCEPT !.state = "closed"]]
    BY <1>1, <1>11 DEF CloseConn, Goto, Calls, Seen, Service!NoCall, TypeOK
  <2>2. Service!Close(c)
    BY <1>11, <2>1 DEF Service!Close, Calls, Seen, CloseConn, unconnected
  <2> QED
    BY <2>2 DEF Service!Next
<1>12. CASE Exit
  <2>1. Calls' = [c \in Clients |-> [Service!NoCall EXCEPT !.state = "closed"]]
    BY <1>1, <1>12 DEF Exit, Calls, Seen, Service!NoCall, TypeOK
  <2>2. Service!CloseAll
    BY <1>12, <2>1 DEF Service!CloseAll, Calls, Seen, Exit
  <2> QED
    BY <2>2 DEF Service!Next
<1> QED
  BY <1>3, <1>4, <1>5, <1>6, <1>8, <1>9, <1>10, <1>11, <1>12 DEF Next, Conn, Work, Main

\* The threads of the daemon implement the service: every answer is given once,
\* an index request that succeeds has seen what was changed before it, and the
\* index never goes back, whatever panics, fails or shuts down.
THEOREM ServiceImplemented == Spec => ImplementsService
BY InvCorrect, ServiceInit, ServiceStep, PTL DEF Spec, ImplementsService, Service!Spec
-----------------------------------------------------------------------------
(* Nothing on its way is lost: what CallsEnd and ChangesGetIndexed rest on. *)

Reindex == [from |-> Watcher, kind |-> "index"]

\* The reindex the watcher waits for.
ReindexQueuedAt(i) == queue[i] = Reindex
ReindexQueued      == \E i \in 1 .. Len(queue) : ReindexQueuedAt(i)
ReindexTaken       == Busy /\ job = Reindex

\* It is in one place, like a connection's request, and only while the watcher waits.
OneReindex ==
  /\ \A i, j \in 1 .. Len(queue) : ReindexQueuedAt(i) /\ ReindexQueuedAt(j) => i = j
  /\ ReindexQueued => ~ReindexTaken /\ ~Replied(Watcher)
  /\ ReindexTaken  => ~Replied(Watcher)
  /\ ReindexQueued \/ ReindexTaken \/ Replied(Watcher) => watch = "reply"

\* Under the watcher's name come nothing but reindexes and the shutdown.
WatcherSends ==
  /\ \A i \in 1 .. Len(queue) :
       queue[i].from = Watcher => ReindexQueuedAt(i) \/ queue[i].kind = "shutdown"
  /\ Busy /\ job.from = Watcher => job = Reindex

\* The worker stops only once it was told to.
NoEarlyShutdown ==
  main \in {"serve", "closing"} =>
    worker # "stopping" /\ \A i \in 1 .. Len(queue) : queue[i].kind # "shutdown"

\* What a living worker's senders see.
OnlyTheDeadDrop ==
  worker # "dead" => watch # "gone" /\ \A s \in Senders : reply[s] # "dropped"

\* A request that is waited for is answered, or before a worker that lives.
NoCallIsForgotten ==
  /\ \A c \in Clients : At(c, "await") =>
       Replied(c) \/ (worker # "dead" /\ (Queued(c) \/ Handled(c)))
  /\ watch = "reply" =>
       Replied(Watcher) \/ (worker # "dead" /\ (ReindexQueued \/ ReindexTaken))

\* A change the index does not have yet and no failed reindex has read.
Behind == indexed # disk /\ missed # disk

\* Where such a change is.
OnItsWay ==
  \/ notices > 0
  \/ events > 0
  \/ watch \in {"window", "drain", "send"}
  \/ watch = "reply" /\ (ReindexQueued \/ (ReindexTaken /\ worker = "index"))
  \/ worker = "handle" /\ job.kind = "index" /\ walked = disk

\* While the daemon serves, a change not indexed is announced to a debounce
\* thread that runs, asked for, or read.
NoChangeIsForgotten ==
  worker # "dead" /\ main = "serve" => watch # "gone" /\ (Behind => OnItsWay)

HeldInv ==
  /\ QueueInv
  /\ missed <= walked
  /\ OneReindex /\ WatcherSends /\ NoEarlyShutdown /\ OnlyTheDeadDrop
  /\ NoCallIsForgotten /\ NoChangeIsForgotten

LEMMA HeldInit == Init => HeldInv
<1> SUFFICES ASSUME Init PROVE HeldInv
  OBVIOUS
<1>1. Len(queue) = 0 /\ \A s \in Senders : reply[s] = "none"
  BY DEF Init
<1>2. Watcher \in Senders
  BY DEF Senders
<1>3. \A c \in Clients : ~At(c, "await")
  BY DEF Init, At, NoConn
<1> QED
  BY <1>1, <1>2, <1>3, InvInit DEF Init, HeldInv, OneReindex, WatcherSends, NoEarlyShutdown, OnlyTheDeadDrop,
     NoCallIsForgotten, NoChangeIsForgotten, Behind, ReindexQueued, ReindexTaken, Replied, Busy

\* All of it that does not speak of the index.
Held ==
  OneReindex /\ WatcherSends /\ NoEarlyShutdown /\ OnlyTheDeadDrop /\ NoCallIsForgotten

\* Steps that leave the requests and the worker alone, and do not leave a wait.
LEMMA HeldQuietly ==
  ASSUME HeldInv, UNCHANGED <<queue, worker, job, reply>>,
         watch' = watch \/ (watch \notin {"reply", "gone"} /\ watch' \notin {"reply", "gone"}),
         \A c \in Clients : At(c, "await")' => At(c, "await"),
         main' = main \/ main = "serve"
  PROVE  Held'
<1>1. OneReindex' /\ WatcherSends' /\ OnlyTheDeadDrop'
  BY DEF HeldInv, OneReindex, WatcherSends, OnlyTheDeadDrop, ReindexQueuedAt, ReindexQueued,
         ReindexTaken, Replied, Busy
<1>2. NoEarlyShutdown'
  BY DEF HeldInv, NoEarlyShutdown
<1>3. NoCallIsForgotten'
  BY DEF HeldInv, NoCallIsForgotten, QueuedAt, Queued, Handled, ReindexQueuedAt, ReindexQueued,
         ReindexTaken, Replied, Busy
<1> QED
  BY <1>1, <1>2, <1>3 DEF Held

\* A message that is not the watcher's comes to the channel.
LEMMA HeldSent ==
  ASSUME HeldInv, NEW m \in Msg, queue' = Append(queue, m), m # Reindex,
         m.from = Watcher => m.kind = "shutdown",
         m.kind = "shutdown" => main' = "leaving",
         worker # "dead",
         UNCHANGED <<watch, worker, job, reply>>,
         main' = main \/ main = "closing",
         \A c \in Clients : At(c, "await")' => At(c, "await") \/ m.from = c
  PROVE  Held'
<1>1. /\ Len(queue') = Len(queue) + 1 /\ Len(queue) \in Nat
      /\ \A i \in 1 .. Len(queue) : queue'[i] = queue[i]
      /\ queue'[Len(queue) + 1] = m
  BY Appended DEF HeldInv, QueueInv, TypeOK
<1>2. \A i \in 1 .. Len(queue') : i \in 1 .. Len(queue) \/ (i = Len(queue) + 1 /\ queue'[i] = m)
  BY <1>1
<1>3. \A i \in 1 .. Len(queue') : ReindexQueuedAt(i)' => i \in 1 .. Len(queue) /\ ReindexQueuedAt(i)
  BY <1>1, <1>2 DEF ReindexQueuedAt, Reindex
<1>4. (ReindexQueued' <=> ReindexQueued) /\ (ReindexTaken' <=> ReindexTaken)
  BY <1>1, <1>3 DEF ReindexQueuedAt, ReindexQueued, ReindexTaken, Busy
<1>5. OneReindex'
  BY <1>3, <1>4 DEF HeldInv, OneReindex, Replied
<1>6. WatcherSends'
  BY <1>1, <1>2 DEF HeldInv, WatcherSends, Busy, ReindexQueuedAt
<1>7. NoEarlyShutdown' /\ OnlyTheDeadDrop'
  BY <1>1, <1>2 DEF HeldInv, NoEarlyShutdown, OnlyTheDeadDrop
<1>8. NoCallIsForgotten'
  <2>1. ASSUME NEW c \in Clients, At(c, "await")'
        PROVE  Replied(c)' \/ (worker' # "dead" /\ (Queued(c)' \/ Handled(c)'))
    <3>1. CASE m.from = c
      BY <1>1, <3>1 DEF Queued, QueuedAt
    <3>2. CASE At(c, "await")
      BY <1>1, <3>2 DEF HeldInv, NoCallIsForgotten, Queued, QueuedAt, Handled, Replied, Busy
    <3> QED
      BY <2>1, <3>1, <3>2
  <2> QED
    BY <1>4, <2>1 DEF HeldInv, NoCallIsForgotten, Replied
<1> QED
  BY <1>5, <1>6, <1>7, <1>8 DEF Held

LEMMA HeldWatchSend == ASSUME HeldInv, WatchSend PROVE Held'
<1>1. UNCHANGED <<worker, job, reply, conn, main>> /\ watch = "send"
  BY DEF WatchSend, unwatched
<1>2. ~ReindexQueued /\ ~ReindexTaken /\ ~Replied(Watcher)
  BY <1>1 DEF HeldInv, OneReindex
<1>3. CASE worker = "dead"
  <2>1. watch' = "gone" /\ UNCHANGED queue
    BY <1>3 DEF WatchSend
  <2> QED
    BY <1>1, <1>2, <1>3, <2>1
       DEF Held, HeldInv, OneReindex, WatcherSends, NoEarlyShutdown, OnlyTheDeadDrop,
           NoCallIsForgotten, ReindexQueuedAt, ReindexQueued, ReindexTaken, Replied, Busy, At,
           Queued, QueuedAt, Handled
<1>4. CASE worker # "dead"
  <2>1. watch' = "reply" /\ queue' = Append(queue, Reindex)
    BY <1>4 DEF WatchSend, Requested, Reindex
  <2>2. Reindex \in Msg
    BY RequestTyped DEF Reindex, Senders, Kinds
  <2>3. /\ Len(queue') = Len(queue) + 1 /\ Len(queue) \in Nat
        /\ \A i \in 1 .. Len(queue) : queue'[i] = queue[i]
        /\ queue'[Len(queue) + 1] = Reindex
    BY <2>1, <2>2, Appended DEF HeldInv, QueueInv, TypeOK
  <2>4. \A i \in 1 .. Len(queue') : ReindexQueuedAt(i)' => i = Len(queue) + 1
    BY <1>2, <2>3 DEF ReindexQueuedAt, ReindexQueued
  <2>5. ReindexQueued' /\ ~ReindexTaken' /\ ~Replied(Watcher)'
    BY <1>1, <1>2, <2>3 DEF ReindexQueued, ReindexQueuedAt, ReindexTaken, Replied, Busy
  <2>6. OneReindex'
    BY <2>1, <2>4, <2>5 DEF OneReindex
  <2>7. WatcherSends' /\ NoEarlyShutdown'
    <3>1. \A i \in 1 .. Len(queue') :
            i \in 1 .. Len(queue) \/ (i = Len(queue) + 1 /\ queue'[i] = Reindex)
      BY <2>3
    <3> QED
      BY <1>1, <2>3, <3>1 DEF HeldInv, WatcherSends, NoEarlyShutdown, ReindexQueuedAt, Busy, Reindex
  <2>8. OnlyTheDeadDrop'
    BY <1>1, <1>4, <2>1 DEF HeldInv, OnlyTheDeadDrop
  <2>9. NoCallIsForgotten'
    BY <1>1, <1>4, <2>3, <2>5
       DEF HeldInv, NoCallIsForgotten, At, Queued, QueuedAt, Handled, Replied, Busy
  <2> QED
    BY <2>6, <2>7, <2>8, <2>9 DEF Held
<1> QED
  BY <1>3, <1>4

LEMMA HeldWatchReply == ASSUME HeldInv, WatchReply PROVE Held'
<1>1. UNCHANGED <<queue, worker, job, conn, main>> /\ watch = "reply" /\ Replied(Watcher)
      /\ watch' = (IF reply[Watcher] = "dropped" THEN "gone" ELSE "recv")
      /\ reply' = [reply EXCEPT ![Watcher] = "none"]
  BY DEF WatchReply, unwatched, Replied
<1>2. reply \in [Senders -> {"none", "ok", "err", "dropped"}]
      /\ Watcher \in Senders /\ \A c \in Clients : c \in Senders /\ c # Watcher
  BY QueueConstants DEF HeldInv, QueueInv, TypeOK, Senders
<1>3. reply'[Watcher] = "none" /\ \A c \in Clients : reply'[c] = reply[c]
  BY <1>1, <1>2
<1>4. ~ReindexQueued' /\ ~ReindexTaken' /\ ~Replied(Watcher)' /\ WatcherSends' /\ NoEarlyShutdown'
      /\ \A i \in 1 .. Len(queue') : ~ReindexQueuedAt(i)'
  BY <1>1, <1>3 DEF HeldInv, OneReindex, WatcherSends, NoEarlyShutdown, ReindexQueuedAt,
                    ReindexQueued, ReindexTaken, Replied, Busy
<1>5. OneReindex'
  BY <1>4 DEF OneReindex
<1>6. OnlyTheDeadDrop'
  BY <1>1, <1>2 DEF HeldInv, OnlyTheDeadDrop
<1>7. NoCallIsForgotten'
  BY <1>1, <1>3, <1>4
     DEF HeldInv, NoCallIsForgotten, At, Queued, QueuedAt, Handled, Replied, Busy
<1> QED
  BY <1>4, <1>5, <1>6, <1>7 DEF Held

LEMMA HeldRespond == ASSUME HeldInv, NEW c \in Clients, Respond(c) PROVE Held'
<1>1. UNCHANGED <<queue, worker, job, watch, main>> /\ reply' = [reply EXCEPT ![c] = "none"]
      /\ \E l \in {"ok", "err"} : conn' = [conn EXCEPT ![c].pc = l]
  BY DEF Respond, Goto, unconnected
<1>2. reply \in [Senders -> {"none", "ok", "err", "dropped"}]
      /\ conn \in [Clients -> [pc : {"idle", "send", "await", "ok", "err", "closed"},
                               kind : Kinds, since : Nat, calls : Nat]]
      /\ c \in Senders /\ Watcher \in Senders /\ c # Watcher /\ Clients \subseteq Senders
  BY QueueConstants DEF HeldInv, QueueInv, TypeOK, Senders
<1>3. /\ ~At(c, "await")'
      /\ \A d \in Clients : d # c => conn'[d] = conn[d] /\ reply'[d] = reply[d]
      /\ reply'[Watcher] = reply[Watcher]
  BY <1>1, <1>2 DEF At
<1>4. OneReindex' /\ WatcherSends' /\ NoEarlyShutdown'
  BY <1>1, <1>3 DEF HeldInv, OneReindex, WatcherSends, NoEarlyShutdown, ReindexQueuedAt,
                    ReindexQueued, ReindexTaken, Replied, Busy
<1>5. OnlyTheDeadDrop'
  BY <1>1, <1>2 DEF HeldInv, OnlyTheDeadDrop
<1>6. NoCallIsForgotten'
  BY <1>1, <1>3 DEF HeldInv, NoCallIsForgotten, At, Queued, QueuedAt, Handled, Replied, Busy,
                    ReindexQueuedAt, ReindexQueued, ReindexTaken
<1> QED
  BY <1>4, <1>5, <1>6 DEF Held

LEMMA HeldTake == ASSUME HeldInv, Take PROVE Held'
<1>1. /\ Len(queue') = Len(queue) - 1 /\ Len(queue) \in Nat
      /\ \A i \in 1 .. Len(queue') : i + 1 \in 1 .. Len(queue) /\ queue'[i] = queue[i + 1]
      /\ 1 \in 1 .. Len(queue) /\ Head(queue) = queue[1] /\ Head(queue) \in Msg
  BY Taken DEF HeldInv, QueueInv, TypeOK, Take
<1>2. worker = "idle" /\ ~Busy /\ UNCHANGED <<conn, reply, watch, main>>
  BY DEF Take, Busy, unworked
<1>3. \A i \in 1 .. Len(queue') : ReindexQueuedAt(i)' => ReindexQueuedAt(i + 1)
  BY <1>1 DEF ReindexQueuedAt
<1>4. /\ queue[1].kind = "shutdown" => worker' = "stopping" /\ job' = job
      /\ queue[1].kind # "shutdown" =>
           /\ job' = queue[1] /\ Busy'
           /\ worker' = IF queue[1].kind = "index" THEN "index" ELSE "handle"
  BY <1>1 DEF Take, Busy
<1>5. ReindexTaken' => ReindexQueuedAt(1)
  BY <1>2, <1>4 DEF ReindexTaken, ReindexQueuedAt, Busy
<1>6. ReindexQueued' => ReindexQueued
  BY <1>1, <1>3 DEF ReindexQueued
<1>7. OneReindex'
  <2>1. ASSUME NEW i \in 1 .. Len(queue'), NEW j \in 1 .. Len(queue'),
               ReindexQueuedAt(i)', ReindexQueuedAt(j)'
        PROVE  i = j
    <3>1. i + 1 = j + 1
      BY <1>1, <1>3, <2>1 DEF HeldInv, OneReindex
    <3> QED
      BY <3>1
  <2>2. ASSUME ReindexTaken', NEW i \in 1 .. Len(queue'), ReindexQueuedAt(i)' PROVE FALSE
    <3>1. i + 1 = 1
      BY <1>1, <1>3, <1>5, <2>2 DEF HeldInv, OneReindex
    <3> QED
      BY <3>1
  <2>3. ReindexTaken' => ReindexQueued
    BY <1>1, <1>5 DEF ReindexQueued
  <2> QED
    BY <1>2, <1>6, <2>1, <2>2, <2>3 DEF HeldInv, OneReindex, ReindexQueued, Replied
<1>8. WatcherSends'
  <2>1. Busy' => job' = queue[1] /\ queue[1].kind # "shutdown"
    BY <1>2, <1>4 DEF Busy
  <2> QED
    BY <1>1, <2>1 DEF HeldInv, WatcherSends, ReindexQueuedAt
<1>9. NoEarlyShutdown'
  BY <1>1, <1>2, <1>4 DEF HeldInv, NoEarlyShutdown
<1>10. OnlyTheDeadDrop'
  BY <1>2 DEF HeldInv, OnlyTheDeadDrop
<1>11. NoCallIsForgotten'
  <2>1. worker' # "dead"
    BY <1>2, <1>4 DEF Busy
  <2>2. ASSUME NEW i \in 1 .. Len(queue) PROVE i = 1 \/ (i - 1 \in 1 .. Len(queue') /\ queue'[i - 1] = queue[i])
    BY <1>1, <2>2
  <2>3. ASSUME NEW c \in Clients, Queued(c) PROVE Queued(c)' \/ Handled(c)'
    <3>1. PICK i \in 1 .. Len(queue) : queue[i].from = c
      BY <2>3 DEF Queued, QueuedAt
    <3>2. CASE i = 1
      <4>1. queue[1].kind # "shutdown"
        <5>1. queue[1].from # Watcher
          BY <3>1, <3>2, QueueConstants
        <5> QED
          BY <1>1, <5>1 DEF Msg, Kinds
      <4> QED
        BY <1>4, <3>1, <3>2, <4>1 DEF Handled
    <3>3. CASE i # 1
      BY <2>2, <3>1, <3>3 DEF Queued, QueuedAt
    <3> QED
      BY <3>2, <3>3
  <2>4. ReindexQueued => ReindexQueued' \/ ReindexTaken'
    <3>1. ASSUME NEW i \in 1 .. Len(queue), ReindexQueuedAt(i) PROVE ReindexQueued' \/ ReindexTaken'
      <4>1. CASE i = 1
        BY <1>4, <3>1, <4>1 DEF ReindexTaken, ReindexQueuedAt, Reindex
      <4>2. CASE i # 1
        BY <2>2, <3>1, <4>2 DEF ReindexQueued, ReindexQueuedAt
      <4> QED
        BY <4>1, <4>2
    <3> QED
      BY <3>1 DEF ReindexQueued
  <2> QED
    BY <1>2, <2>1, <2>3, <2>4 DEF HeldInv, NoCallIsForgotten, At, Handled, ReindexTaken, Replied
<1> QED
  BY <1>7, <1>8, <1>9, <1>10, <1>11 DEF Held

LEMMA HeldWalk == ASSUME HeldInv, Walk PROVE Held'
<1>1. UNCHANGED <<queue, job, reply, conn, watch, main>> /\ worker = "index" /\ worker' = "handle"
      /\ Busy /\ Busy'
  BY DEF Walk, unworked, requests, Busy
<1>2. OneReindex' /\ WatcherSends' /\ NoEarlyShutdown' /\ OnlyTheDeadDrop'
  BY <1>1 DEF HeldInv, OneReindex, WatcherSends, NoEarlyShutdown, OnlyTheDeadDrop,
              ReindexQueuedAt, ReindexQueued, ReindexTaken, Replied
<1>3. NoCallIsForgotten'
  BY <1>1 DEF HeldInv, NoCallIsForgotten, At, Queued, QueuedAt, Handled, Replied,
              ReindexQueuedAt, ReindexQueued, ReindexTaken
<1> QED
  BY <1>2, <1>3 DEF Held

LEMMA HeldDone == ASSUME HeldInv, Done PROVE Held'
<1>1. UNCHANGED <<queue, conn, watch, main>> /\ worker = "handle" /\ worker' = "idle"
      /\ Busy /\ ~Busy'
  BY DEF Done, unworked, Busy
<1>2. job.from \in Senders /\ reply \in [Senders -> {"none", "ok", "err", "dropped"}]
  BY <1>1 DEF HeldInv, QueueInv, JobIsRequest, TypeOK
<1>3. PICK outcome \in {"ok", "err"} : reply' = [reply EXCEPT ![job.from] = outcome]
  BY DEF Done
<1>4. \A s \in Senders : reply'[s] = IF s = job.from THEN outcome ELSE reply[s]
  BY <1>2, <1>3
<1>5. Watcher \in Senders /\ Clients \subseteq Senders
  BY DEF Senders
<1>6. OneReindex'
  <2>1. CASE job = Reindex
    BY <1>1, <2>1 DEF HeldInv, OneReindex, ReindexTaken, ReindexQueued, ReindexQueuedAt
  <2>2. CASE job # Reindex
    <3>1. job.from # Watcher
      BY <1>1, <2>2 DEF HeldInv, WatcherSends
    <3>2. reply'[Watcher] = reply[Watcher]
      BY <1>4, <1>5, <3>1
    <3> QED
      BY <1>1, <3>2 DEF HeldInv, OneReindex, ReindexTaken, ReindexQueued, ReindexQueuedAt, Replied
  <2> QED
    BY <2>1, <2>2
<1>7. WatcherSends' /\ NoEarlyShutdown'
  BY <1>1 DEF HeldInv, WatcherSends, NoEarlyShutdown, ReindexQueuedAt
<1>8. OnlyTheDeadDrop'
  BY <1>1, <1>4 DEF HeldInv, OnlyTheDeadDrop
<1>9. NoCallIsForgotten'
  <2>1. \A c \in Clients : Handled(c) \/ Replied(c) => Replied(c)'
    BY <1>4, <1>5 DEF Handled, Replied
  <2>2. ReindexTaken \/ Replied(Watcher) => Replied(Watcher)'
    BY <1>4, <1>5 DEF ReindexTaken, Replied, Reindex
  <2> QED
    BY <1>1, <2>1, <2>2 DEF HeldInv, NoCallIsForgotten, At, Queued, QueuedAt, ReindexQueued, ReindexQueuedAt
<1> QED
  BY <1>6, <1>7, <1>8, <1>9 DEF Held

LEMMA HeldDropped == ASSUME HeldInv, Panic \/ Stop PROVE Held'
<1>1. PICK lost \in {Pending, Pending \cup {job}} :
        /\ Dropped(lost) /\ lost = (IF Busy THEN Pending \cup {job} ELSE Pending)
        /\ queue' = <<>> /\ worker' = "dead" /\ UNCHANGED <<conn, watch, main>>
  BY DEF Panic, Stop, Busy, unworked
<1>2. Len(queue') = 0 /\ ~Busy'
  BY <1>1, Emptied DEF Busy
<1>3. Watcher \in Senders /\ Clients \subseteq Senders
  BY DEF Senders
<1>4. \A s \in Senders : reply'[s] = IF \E m \in lost : m.kind # "shutdown" /\ m.from = s
                                      THEN "dropped" ELSE reply[s]
  BY <1>1 DEF Dropped
<1>5. ASSUME NEW c \in Clients, Queued(c) \/ Handled(c) PROVE Replied(c)'
  <2>1. \E m \in lost : m.kind # "shutdown" /\ m.from = c
    <3>1. CASE Queued(c)
      <4>1. PICK i \in 1 .. Len(queue) : queue[i].from = c
        BY <3>1 DEF Queued, QueuedAt
      <4>2. queue[i] \in lost /\ queue[i] \in Msg
        BY <1>1 DEF Pending, HeldInv, QueueInv, TypeOK
      <4>3. queue[i].kind # "shutdown"
        BY <4>1, <4>2, QueueConstants DEF Msg, Kinds
      <4> QED
        BY <4>1, <4>2, <4>3
    <3>2. CASE Handled(c)
      BY <1>1, <3>2 DEF Handled, HeldInv, QueueInv, JobIsRequest, Kinds
    <3> QED
      BY <1>5, <3>1, <3>2
  <2> QED
    BY <1>3, <1>4, <2>1 DEF Replied
<1>6. Replied(Watcher)' <=> ReindexQueued \/ ReindexTaken \/ Replied(Watcher)
  <2>1. ASSUME ReindexQueued \/ ReindexTaken PROVE Reindex \in lost
    BY <1>1, <2>1 DEF Pending, ReindexQueued, ReindexQueuedAt, ReindexTaken
  <2>2. ASSUME NEW m \in lost, m.kind # "shutdown", m.from = Watcher
        PROVE  ReindexQueued \/ ReindexTaken
    <3>1. CASE m \in Pending
      BY <2>2, <3>1 DEF Pending, HeldInv, WatcherSends, ReindexQueued, ReindexQueuedAt
    <3>2. CASE m = job /\ Busy
      BY <2>2, <3>2 DEF HeldInv, WatcherSends, ReindexTaken
    <3> QED
      BY <1>1, <2>2, <3>1, <3>2
  <2> QED
    BY <1>3, <1>4, <2>1, <2>2 DEF Replied, Reindex
<1>7. OneReindex'
  BY <1>1, <1>2, <1>6 DEF HeldInv, OneReindex, ReindexQueued, ReindexTaken
<1>8. WatcherSends' /\ OnlyTheDeadDrop'
  BY <1>1, <1>2 DEF WatcherSends, OnlyTheDeadDrop
<1>9. NoEarlyShutdown'
  BY <1>1, <1>2 DEF NoEarlyShutdown
<1>10. NoCallIsForgotten'
  <2>1. \A c \in Clients : Replied(c) => Replied(c)'
    BY <1>3, <1>4 DEF Replied
  <2> QED
    BY <1>1, <1>5, <1>6, <2>1 DEF HeldInv, NoCallIsForgotten, At
<1> QED
  BY <1>7, <1>8, <1>9, <1>10 DEF Held

LEMMA HeldExit == ASSUME HeldInv, Exit PROVE Held'
<1>1. Len(queue') = 0 /\ worker' = "dead" /\ watch' = "gone" /\ main' = "exited"
      /\ (\A s \in Senders : reply'[s] = "none") /\ (\A c \in Clients : conn'[c].pc = "closed")
      /\ Watcher \in Senders
  BY Emptied DEF Exit, HeldInv, QueueInv, TypeOK, Senders
<1> QED
  BY <1>1 DEF Held, OneReindex, WatcherSends, NoEarlyShutdown, OnlyTheDeadDrop, NoCallIsForgotten,
              ReindexQueued, ReindexTaken, Replied, Busy, At

LEMMA HeldStep == HeldInv /\ [Next]_vars => Held'
<1> SUFFICES ASSUME HeldInv, [Next]_vars PROVE Held'
  OBVIOUS
<1> USE DEF files, requests, indexes
<1>1. conn \in [Clients -> [pc : {"idle", "send", "await", "ok", "err", "closed"},
                           kind : Kinds, since : Nat, calls : Nat]]
  BY DEF HeldInv, QueueInv, TypeOK
<1>2. ASSUME Change \/ FileSystem \/ Recv \/ Window \/ Drain \/ Signal \/ UNCHANGED vars
      PROVE  Held'
  <2>1. UNCHANGED <<queue, worker, job, reply, conn>> /\ (main' = main \/ main = "serve")
        /\ (watch' = watch \/ (watch \notin {"reply", "gone"} /\ watch' \notin {"reply", "gone"}))
    BY <1>2 DEF Change, FileSystem, Notify, NotifyOwn, Recv, Window, Drain, Signal, vars, unwatched
  <2> QED
    BY <2>1, HeldQuietly DEF At
<1>3. ASSUME NEW c \in Clients, Request(c) \/ Read(c) \/ CloseConn(c) PROVE Held'
  <2>1. UNCHANGED <<queue, worker, job, reply, watch, main>>
    BY <1>3 DEF Request, Read, CloseConn, unconnected
  <2>2. \A d \in Clients : At(d, "await")' => At(d, "await")
    BY <1>1, <1>3 DEF Request, Read, CloseConn, Goto, At, NoConn
  <2> QED
    BY <2>1, <2>2, HeldQuietly
<1>4. ASSUME NEW c \in Clients, Send(c) PROVE Held'
  <2>1. UNCHANGED <<worker, job, reply, watch, main>>
    BY <1>4 DEF Send, unconnected
  <2>2. CASE worker = "dead"
    <3>1. UNCHANGED queue /\ \A d \in Clients : At(d, "await")' => At(d, "await")
      BY <1>1, <1>4, <2>2 DEF Send, Goto, At
    <3> QED
      BY <2>1, <3>1, HeldQuietly
  <2>3. CASE worker # "dead"
    <3> DEFINE m == [from |-> c, kind |-> conn[c].kind]
    <3>1. m \in Msg /\ queue' = Append(queue, m)
      BY <1>1, <1>4, <2>3, RequestTyped DEF Send, Requested, Senders
    <3>2. m # Reindex /\ m.from # Watcher /\ m.kind # "shutdown" /\ m.from = c
      BY <1>1, QueueConstants DEF Reindex, Kinds
    <3>3. \A d \in Clients : At(d, "await")' => At(d, "await") \/ m.from = d
      BY <1>1, <1>4, <2>3 DEF Send, Goto, At
    <3> HIDE DEF m
    <3> QED
      BY <2>1, <2>3, <3>1, <3>2, <3>3, HeldSent
  <2> QED
    BY <2>2, <2>3
<1>5. ASSUME SendShutdown PROVE Held'
  <2>1. UNCHANGED <<worker, job, reply, watch, conn>> /\ main = "closing" /\ main' = "leaving"
    BY <1>5 DEF SendShutdown
  <2>2. \A d \in Clients : At(d, "await")' => At(d, "await")
    BY <2>1 DEF At
  <2>3. CASE UNCHANGED queue
    <3>1. NoEarlyShutdown' /\ OneReindex' /\ WatcherSends' /\ OnlyTheDeadDrop'
      BY <2>1, <2>3 DEF HeldInv, NoEarlyShutdown, OneReindex, WatcherSends, OnlyTheDeadDrop,
                        ReindexQueuedAt, ReindexQueued, ReindexTaken, Replied, Busy
    <3>2. NoCallIsForgotten'
      BY <2>1, <2>3 DEF HeldInv, NoCallIsForgotten, At, QueuedAt, Queued, Handled,
                        ReindexQueuedAt, ReindexQueued, ReindexTaken, Replied, Busy
    <3> QED
      BY <3>1, <3>2 DEF Held
  <2>4. CASE ~UNCHANGED queue
    <3> DEFINE m == [from |-> Watcher, kind |-> "shutdown"]
    <3>1. m \in Msg /\ queue' = Append(queue, m) /\ worker # "dead"
      BY <1>5, <2>4 DEF SendShutdown, Requested, Msg
    <3>2. m # Reindex /\ m.kind = "shutdown"
      BY DEF Reindex
    <3> HIDE DEF m
    <3> QED
      BY <2>1, <2>2, <3>1, <3>2, HeldSent
  <2> QED
    BY <2>3, <2>4
<1> QED
  BY <1>2, <1>3, <1>4, <1>5, HeldWatchSend, HeldWatchReply, HeldRespond, HeldTake, HeldWalk, HeldDone,
     HeldDropped, HeldExit
     DEF Next, Debounce, Conn, Work, Main

\* A failed reindex has read no more than the last one walked.
LEMMA MissedStep == HeldInv /\ [Next]_vars => (missed <= walked)'
<1> SUFFICES ASSUME HeldInv, [Next]_vars PROVE missed' <= walked'
  OBVIOUS
<1>1. /\ missed \in Nat /\ walked \in Nat /\ disk \in Nat
      /\ missed <= walked /\ walked <= disk
  BY DEF HeldInv, QueueInv, Versions, TypeOK
<1>2. (missed' = missed /\ walked' \in {walked, disk}) \/ (missed' = walked /\ walked' = walked)
  <2> USE DEF indexes
  <2>1. CASE Done
    BY <2>1 DEF Done
  <2>2. CASE Walk
    BY <2>2 DEF Walk
  <2>3. CASE Change \/ FileSystem \/ Debounce \/ Signal \/ Main \/ UNCHANGED vars
    BY <2>3 DEF Change, FileSystem, Notify, NotifyOwn, Debounce, Recv, Window, Drain, WatchSend,
                WatchReply, Signal, Main, SendShutdown, Exit, vars, unwatched
  <2>4. CASE Take \/ Stop \/ Panic
    BY <2>4 DEF Take, Stop, Panic
  <2>5. CASE \E c \in Clients : Request(c) \/ Conn(c) \/ Read(c)
    BY <2>5 DEF Request, Conn, Send, Respond, CloseConn, Read, unconnected
  <2> QED
    BY <2>1, <2>2, <2>3, <2>4, <2>5 DEF Next, Work
<1> QED
  BY <1>1, <1>2

\* Steps that leave a change where it is, or bring it no further than the channel.
LEMMA StaysOnItsWay ==
  ASSUME HeldInv, UNCHANGED <<disk, notices, events, watch, worker, job, walked, indexed, missed>>,
         ReindexQueued => ReindexQueued', OnItsWay
  PROVE  OnItsWay'
BY DEF OnItsWay, ReindexTaken, Busy

LEMMA ChangeStep == HeldInv /\ [Next]_vars => NoChangeIsForgotten'
<1> SUFFICES ASSUME HeldInv, [Next]_vars, Held', worker' # "dead", main' = "serve", Behind'
             PROVE  OnItsWay'
  BY HeldStep DEF NoChangeIsForgotten, Held, OnlyTheDeadDrop
<1> USE DEF files, requests, indexes
<1>1. /\ missed \in Nat /\ walked \in Nat /\ disk \in Nat /\ indexed \in Nat
      /\ notices \in Nat /\ events \in Nat
      /\ missed <= walked /\ walked <= disk /\ indexed <= walked
  BY DEF HeldInv, QueueInv, Versions, TypeOK
<1>2. CASE Change
  <2>1. notices' = notices + 1
    BY <1>2 DEF Change, Alive
  <2> QED
    BY <1>1, <2>1 DEF OnItsWay
<1>3. ASSUME UNCHANGED <<disk, indexed, missed, main>>, worker # "dead" PROVE OnItsWay
  BY <1>3 DEF HeldInv, NoChangeIsForgotten, Behind
<1>4. CASE FileSystem
  <2>1. OnItsWay
    BY <1>3, <1>4 DEF FileSystem, Notify, NotifyOwn
  <2>2. CASE Notify
    BY <1>1, <2>2 DEF Notify, OnItsWay
  <2>3. CASE NotifyOwn
    BY <1>1, <2>1, <2>3, StaysOnItsWay DEF NotifyOwn, ReindexQueued, ReindexQueuedAt
  <2> QED
    BY <1>4, <2>2, <2>3 DEF FileSystem
<1>5. CASE Recv \/ Window \/ Drain
  BY <1>5 DEF Recv, Window, Drain, OnItsWay
<1>6. CASE WatchSend
  <2>1. watch' = "reply" /\ queue' = Append(queue, Reindex)
    BY <1>6 DEF WatchSend, Requested, Reindex, unwatched
  <2>2. Reindex \in Msg
    BY RequestTyped DEF Reindex, Senders, Kinds
  <2>3. Len(queue) + 1 \in 1 .. Len(queue') /\ queue'[Len(queue) + 1] = Reindex
    BY <2>1, <2>2, Appended DEF HeldInv, QueueInv, TypeOK
  <2> QED
    BY <2>1, <2>3 DEF OnItsWay, ReindexQueued, ReindexQueuedAt
<1>7. CASE WatchReply
  <2>1. OnItsWay /\ UNCHANGED <<notices, events, worker, job, walked, disk>>
    BY <1>3, <1>7 DEF WatchReply, unwatched
  <2>2. ~ReindexQueued /\ ~ReindexTaken /\ watch = "reply"
    BY <1>7 DEF WatchReply, HeldInv, OneReindex, Replied
  <2> QED
    BY <2>1, <2>2 DEF OnItsWay
<1>8. CASE \E c \in Clients : Request(c) \/ Conn(c) \/ Read(c)
  <2>1. UNCHANGED <<disk, notices, events, watch, worker, job, walked, indexed, missed, main>>
    BY <1>8 DEF Request, Conn, Send, Respond, CloseConn, Read, unconnected
  <2>2. queue' = queue \/ \E m \in Msg : queue' = Append(queue, m)
    <3>1. CASE \E c \in Clients : Send(c)
      <4>1. PICK c \in Clients : Send(c)
        BY <3>1
      <4>2. [from |-> c, kind |-> conn[c].kind] \in Msg
        BY RequestTyped DEF HeldInv, QueueInv, TypeOK, Senders
      <4> QED
        BY <4>1, <4>2 DEF Send, Requested
    <3> QED
      BY <1>8, <3>1 DEF Request, Conn, Respond, CloseConn, Read
  <2>3. ReindexQueued => ReindexQueued'
    <3>1. CASE queue' = queue
      BY <3>1 DEF ReindexQueued, ReindexQueuedAt
    <3>2. ASSUME NEW m \in Msg, queue' = Append(queue, m) PROVE ReindexQueued => ReindexQueued'
      <4>1. Len(queue') = Len(queue) + 1 /\ Len(queue) \in Nat
            /\ \A i \in 1 .. Len(queue) : queue'[i] = queue[i]
        BY <3>2, Appended DEF HeldInv, QueueInv, TypeOK
      <4> QED
        BY <4>1 DEF ReindexQueued, ReindexQueuedAt
    <3> QED
      BY <2>2, <3>1, <3>2
  <2> QED
    BY <1>3, <2>1, <2>3, StaysOnItsWay
<1>9. CASE Take
  <2>1. UNCHANGED <<disk, notices, events, watch, walked, indexed, missed, main>> /\ worker = "idle"
    BY <1>9 DEF Take, unworked
  <2>2. OnItsWay
    BY <1>3, <2>1
  <2>3. CASE watch = "reply" /\ ReindexQueued
    <3>1. ReindexQueued' \/ ReindexTaken'
      <4>1. ~Replied(Watcher)'
        BY <1>9, <2>3 DEF Take, HeldInv, OneReindex, Replied
      <4> QED
        BY <2>1, <2>3, <4>1 DEF Held, NoCallIsForgotten
    <3>2. ReindexTaken' => worker' = "index"
      BY <1>9 DEF Take, ReindexTaken, Reindex, Busy
    <3> QED
      BY <2>1, <2>3, <3>1, <3>2 DEF OnItsWay
  <2> QED
    BY <2>1, <2>2, <2>3 DEF OnItsWay, ReindexTaken, Busy
<1>10. CASE Walk
  <2>1. job.kind = "index" /\ worker' = "handle" /\ job' = job /\ walked' = disk /\ disk' = disk
    BY <1>10 DEF Walk, unworked, HeldInv, QueueInv, JobIsRequest
  <2> QED
    BY <2>1 DEF OnItsWay
<1>11. CASE Done
  <2>1. UNCHANGED <<disk, notices, events, watch, queue, walked, main>> /\ worker = "handle"
    BY <1>11 DEF Done, unworked
  <2>2. PICK outcome \in {"ok", "err"}, committed \in BOOLEAN :
          /\ outcome = "ok" => committed
          /\ indexed' = IF job.kind = "index" /\ committed THEN walked ELSE indexed
          /\ missed' = IF job.kind = "index" /\ outcome = "err" THEN walked ELSE missed
    BY <1>11 DEF Done
  <2>3. Behind
    BY <1>1, <2>1, <2>2 DEF Behind
  <2>4. ~(job.kind = "index" /\ walked = disk)
    BY <2>1, <2>2 DEF Behind
  <2>5. OnItsWay
    BY <2>1, <2>3 DEF HeldInv, NoChangeIsForgotten
  <2>6. ReindexQueued' <=> ReindexQueued
    BY <2>1 DEF ReindexQueued, ReindexQueuedAt
  <2> QED
    BY <2>1, <2>4, <2>5, <2>6 DEF OnItsWay
<1>12. CASE UNCHANGED vars
  BY <1>3, <1>12, StaysOnItsWay DEF vars, ReindexQueued, ReindexQueuedAt
<1>13. ~(Signal \/ Main \/ Panic \/ Stop)
  BY DEF Signal, Main, SendShutdown, Exit, Panic, Stop
<1> QED
  BY <1>2, <1>4, <1>5, <1>6, <1>7, <1>8, <1>9, <1>10, <1>11, <1>12, <1>13 DEF Next, Debounce, Work

LEMMA HeldInvStep == HeldInv /\ [Next]_vars => HeldInv'
BY InvStep, HeldStep, MissedStep, ChangeStep DEF HeldInv, Held

\* A request that is waited for is answered, in the channel or in the hands of a
\* worker that lives: no panic, failure or shutdown leaves a task waiting for a
\* reply that nobody can send any more.
THEOREM CallsAreHeld == Spec => []NoCallIsForgotten
<1>1. HeldInv => NoCallIsForgotten
  BY DEF HeldInv
<1> QED
  BY <1>1, HeldInit, HeldInvStep, PTL DEF Spec

\* While the worker lives and the daemon serves, the debounce thread runs, and a
\* change that is neither indexed nor read by a reindex that failed is announced
\* to that thread, asked for or read: none falls between the window, the drain
\* and the reindex.
THEOREM ChangesAreHeld == Spec => []NoChangeIsForgotten
<1>1. HeldInv => NoChangeIsForgotten
  BY DEF HeldInv
<1> QED
  BY <1>1, HeldInit, HeldInvStep, PTL DEF Spec

-----------------------------------------------------------------------------
(* What WatcherSettles rests on.                                           *)

\* Steps of the watcher until it rests: a change reported is a round more.
WatchLeft ==
  6 * notices + 5 * events
    + (CASE watch = "window" -> 5 [] watch = "drain" -> 4 [] watch = "send" -> 3
         [] watch = "reply" -> 2  [] watch = "recv" -> 1  [] OTHER -> 0)

\* Nothing but a change of the file gives the watcher work, no reindex and no
\* write of the index: as long as there is none its steps bring it to rest.
WatcherCalmsDown ==
  [][disk' = disk => UNCHANGED <<notices, events, watch>> \/ WatchLeft' < WatchLeft]_vars

\* Whatever the connections ask and whatever panics, fails or shuts down.
THEOREM WatcherCalmsDownCorrect == Spec => WatcherCalmsDown
<1> DEFINE Calmer == disk' = disk => UNCHANGED <<notices, events, watch>> \/ WatchLeft' < WatchLeft
<1>1. TypeOK /\ [Next]_vars => [Calmer]_vars
  <2> SUFFICES ASSUME TypeOK, Next, disk' = disk
               PROVE  UNCHANGED <<notices, events, watch>> \/ WatchLeft' < WatchLeft
    OBVIOUS
  <2> USE DEF files, requests, indexes
  <2>1. notices \in Nat /\ events \in Nat
        /\ watch \in {"recv", "window", "drain", "send", "reply", "gone"} /\ disk \in Nat
    BY DEF TypeOK
  <2>2. CASE FileSystem
    BY <2>1, <2>2 DEF FileSystem, Notify, NotifyOwn, WatchLeft
  <2>3. CASE Recv
    BY <2>1, <2>3 DEF Recv, unwatched, WatchLeft
  <2>4. CASE Window
    BY <2>1, <2>4 DEF Window, unwatched, WatchLeft
  <2>5. CASE Drain
    BY <2>1, <2>5 DEF Drain, unwatched, WatchLeft
  <2>6. CASE WatchSend
    BY <2>1, <2>6 DEF WatchSend, unwatched, WatchLeft
  <2>7. CASE WatchReply
    BY <2>1, <2>7 DEF WatchReply, unwatched, WatchLeft
  <2>8. CASE Exit
    <3>1. notices' = 0 /\ events' = 0 /\ watch' = "gone"
      BY <2>8 DEF Exit
    <3>2. WatchLeft' = 0 /\ WatchLeft \in Nat
      BY <2>1, <3>1 DEF WatchLeft
    <3>3. WatchLeft = 0 => notices = 0 /\ events = 0 /\ watch = "gone"
      BY <2>1 DEF WatchLeft
    <3> QED
      BY <3>1, <3>2, <3>3
  <2>9. CASE Signal \/ SendShutdown \/ Work \/ Panic \/ \E c \in Clients : Request(c) \/ Conn(c) \/ Read(c)
    BY <2>9 DEF Signal, SendShutdown, Work, Take, Walk, Done, Stop, Panic, unworked, Request, Conn, Send,
                Respond, CloseConn, Read, unconnected
  <2>10. ~Change
    BY <2>1 DEF Change
  <2> QED
    BY <2>2, <2>3, <2>4, <2>5, <2>6, <2>7, <2>8, <2>9, <2>10 DEF Next, Debounce, Main
<1>2. Spec => [][Calmer]_vars
  BY <1>1, TypeCorrect, PTL DEF Spec
<1> QED
  BY <1>2 DEF WatcherCalmsDown
=============================================================================
