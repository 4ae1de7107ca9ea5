---------------------------- MODULE IndexService -----------------------------
(***************************************************************************)
(* What the daemon promises its clients and the user who edits a file: the *)
(* index follows the file and never goes back, a request is answered once, *)
(* and an index request that succeeds has seen every change made before    *)
(* the request.  The file's content is its version, the number of changes  *)
(* made to it.                                                             *)
(***************************************************************************)
EXTENDS Integers

CONSTANTS
  Clients,  \* connections
  MaxDisk   \* BOUND: changes made to the file

VARIABLES
  disk,     \* version of the file
  indexed,  \* version the index holds
  call      \* state of each connection's current request

vars == <<disk, indexed, call>>

NoCall == [state |-> "idle", kind |-> "other", since |-> 0]

Init ==
  /\ disk    = 0
  /\ indexed = 0
  /\ call    = [c \in Clients |-> NoCall]

Change ==
  /\ disk < MaxDisk
  /\ disk' = disk + 1
  /\ UNCHANGED <<indexed, call>>

Reindex ==
  /\ indexed' \in indexed + 1 .. disk
  /\ UNCHANGED <<disk, call>>

Call(c) ==
  /\ call[c].state = "idle"
  /\ \E kind \in {"index", "ping", "other"} :
       call' = [call EXCEPT ![c] = [state |-> "pending", kind |-> kind, since |-> disk]]
  /\ UNCHANGED <<disk, indexed>>

Answer(c) ==
  /\ call[c].state = "pending"
  /\ \E outcome \in {"ok", "err"} :
       /\ outcome = "ok" /\ call[c].kind = "index" => indexed >= call[c].since
       /\ call' = [call EXCEPT ![c].state = outcome]
  /\ UNCHANGED <<disk, indexed>>

Read(c) ==
  /\ call[c].state \in {"ok", "err"}
  /\ call' = [call EXCEPT ![c] = NoCall]
  /\ UNCHANGED <<disk, indexed>>

Close(c) ==
  /\ call' = [call EXCEPT ![c] = [NoCall EXCEPT !.state = "closed"]]
  /\ UNCHANGED <<disk, indexed>>

\* The daemon's process ends: every connection closes at once.
CloseAll ==
  /\ call' = [c \in Clients |-> [NoCall EXCEPT !.state = "closed"]]
  /\ UNCHANGED <<disk, indexed>>

Next ==
  \/ Change
  \/ Reindex
  \/ \E c \in Clients : Call(c) \/ Answer(c) \/ Read(c) \/ Close(c)
  \/ CloseAll

Spec == Init /\ [][Next]_vars
=============================================================================
