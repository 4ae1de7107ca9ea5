------------------------------- MODULE Metrics --------------------------------
(***************************************************************************)
(* Metrics in brain.db and in the day's log: queries record themselves,    *)
(* `brain stats` adds up, `brain stats reset` deletes.  Every statement    *)
(* commits by itself, so that any two of them have others in between; a    *)
(* query ignores what fails.                                               *)
(***************************************************************************)
EXTENDS Naturals

CONSTANTS
  Recorders,   \* processes that answer queries
  Sessions,    \* session ids: a daemon's, a command's, or the editor's for all
  NoSession,   \* NULL
  MaxRequests, \* BOUND: queries
  MaxResets    \* BOUND: resets

ASSUME MetricsConstants ==
  NoSession \notin Sessions /\ MaxRequests \in Nat /\ MaxResets \in Nat

VARIABLES
  sessions,  \* rows of sessions
  requests,  \* rows of requests
  log,       \* queries with a line in the log
  recorder,  \* each process: where it is, its session and query
  resetter,  \* a reset: where it is, and what it counted
  reader,    \* a `brain stats`: where it is, and what it read
  issued,    \* queries so far
  resets,    \* resets so far
  stored     \* queries that ever had a row

metricVars == <<sessions, requests, log, recorder, resetter, reader, issued, resets, stored>>

Row == [id : 1 .. MaxRequests, session : Sessions \cup {NoSession}, late : BOOLEAN]

Ids(rows) == {row.id : row \in rows}

MetricsInit ==
  /\ sessions = {} /\ requests = {} /\ log = {} /\ stored = {}
  /\ recorder \in [Recorders -> [pc : {"idle"}, session : {NoSession}, id : {0}]]
  /\ resetter = [pc |-> "idle", requests |-> {}, sessions |-> {}]
  /\ reader = [pc |-> "idle", requests |-> {}, sessions |-> {}, cut |-> FALSE]
  /\ issued = 0 /\ resets = 0

RecorderAt(r, l) == recorder[r].pc = l
RecorderTo(r, l) == recorder' = [recorder EXCEPT ![r].pc = l]
StatsRest == UNCHANGED <<resetter, reader, resets>>

\* A query ensures its session at once, and may fail to.
BeginQuery(r) ==
  /\ RecorderAt(r, "idle") /\ issued < MaxRequests
  /\ issued' = issued + 1
  /\ \E s \in Sessions :
       /\ recorder' = [recorder EXCEPT ![r] = [pc |-> "ensure", session |-> s, id |-> issued']]
       /\ sessions' \in {sessions, sessions \cup {s}}
  /\ UNCHANGED <<requests, log, stored>> /\ StatsRest

\* record_request ensures it again, when the query has its answer.
EnsureSession(r) ==
  /\ RecorderAt(r, "ensure")
  /\ sessions' = sessions \cup {recorder[r].session}
  /\ RecorderTo(r, "insert")
  /\ UNCHANGED <<requests, log, issued, stored>> /\ StatsRest

\* Mutant: the result of the insert is ignored.
InsertAnyhow(r) ==
  /\ RecorderAt(r, "insert")
  /\ IF recorder[r].session \in sessions
     THEN /\ requests' = requests \cup
               {[id |-> recorder[r].id, session |-> recorder[r].session,
                 late |-> resetter.pc = "sessions"]}
          /\ stored' = stored \cup {recorder[r].id}
     ELSE UNCHANGED <<requests, stored>>
  /\ RecorderTo(r, "log")
  /\ UNCHANGED <<sessions, log, issued>> /\ StatsRest

\* The foreign key refuses a session that is gone by now.
InsertRequest(r) ==
  /\ RecorderAt(r, "insert")
  /\ IF recorder[r].session \in sessions
     THEN /\ requests' = requests \cup
               {[id |-> recorder[r].id, session |-> recorder[r].session,
                 late |-> resetter.pc = "sessions"]}
          /\ stored' = stored \cup {recorder[r].id}
          /\ RecorderTo(r, "log")
     ELSE UNCHANGED <<requests, stored>> /\ RecorderTo(r, "idle")
  /\ UNCHANGED <<sessions, log, issued>> /\ StatsRest

AppendLog(r) ==
  /\ RecorderAt(r, "log")
  /\ log' = log \cup {recorder[r].id}
  /\ RecorderTo(r, "idle")
  /\ UNCHANGED <<sessions, requests, issued, stored>> /\ StatsRest

\* The query fails before it records, a statement waits too long for SQLite's
\* lock, the log cannot be written, or the process dies.
SkipMetric(r) ==
  /\ ~RecorderAt(r, "idle")
  /\ RecorderTo(r, "idle")
  /\ UNCHANGED <<sessions, requests, log, issued, stored>> /\ StatsRest

Record(r) ==
  \/ BeginQuery(r) \/ EnsureSession(r) \/ InsertRequest(r) \/ AppendLog(r) \/ SkipMetric(r)

-----------------------------------------------------------------------------
(* metrics::reset.                                                         *)

resetRest == <<log, recorder, issued, stored>>

CountRequests ==
  /\ resetter.pc \in {"idle", "done"} /\ resets < MaxResets
  /\ resets' = resets + 1
  /\ resetter' = [pc |-> "count", requests |-> Ids(requests), sessions |-> {}]
  /\ UNCHANGED <<sessions, requests, reader, resetRest>>

CountSessions ==
  /\ resetter.pc = "count"
  /\ resetter' = [resetter EXCEPT !.pc = "requests", !.sessions = sessions]
  /\ UNCHANGED <<sessions, requests, reader, resets, resetRest>>

\* Mutant: only the sessions are deleted, to cascade; the key is SET NULL.
DeleteNoRequests ==
  /\ resetter.pc = "requests"
  /\ resetter' = [resetter EXCEPT !.pc = "sessions"]
  /\ UNCHANGED <<sessions, requests, reader, resets, resetRest>>

DeleteRequests ==
  /\ resetter.pc = "requests"
  /\ requests' = {}
  /\ resetter' = [resetter EXCEPT !.pc = "sessions"]
  /\ UNCHANGED <<sessions, reader, resets, resetRest>>

\* ON DELETE SET NULL.
DeleteSessions ==
  /\ resetter.pc = "sessions"
  /\ sessions' = {}
  /\ requests' = {[row EXCEPT !.session = NoSession] : row \in requests}
  /\ resetter' = [resetter EXCEPT !.pc = "done"]
  /\ reader' = [reader EXCEPT !.cut = TRUE]
  /\ UNCHANGED <<resets, resetRest>>

CutReset ==
  /\ resetter.pc \in {"count", "requests", "sessions"}
  /\ resetter' = [resetter EXCEPT !.pc = "idle"]
  /\ UNCHANGED <<sessions, requests, reader, resets, resetRest>>

Reset == CountRequests \/ CountSessions \/ DeleteRequests \/ DeleteSessions \/ CutReset

-----------------------------------------------------------------------------
(* metrics::aggregate_stats: one statement for the requests, then one for   *)
(* the sessions.                                                           *)

readRest == <<sessions, requests, log, recorder, issued, stored, resetter, resets>>

SumRequests ==
  /\ reader.pc \in {"idle", "done"}
  /\ reader' = [pc |-> "sessions", requests |-> requests, sessions |-> {}, cut |-> FALSE]
  /\ UNCHANGED readRest

\* Mutant: the sessions of the last report are shown.
KeepSessionCount ==
  /\ reader.pc = "sessions"
  /\ reader' = [reader EXCEPT !.pc = "done"]
  /\ UNCHANGED readRest

SumSessions ==
  /\ reader.pc = "sessions"
  /\ reader' = [reader EXCEPT !.pc = "done", !.sessions = sessions]
  /\ UNCHANGED readRest

MetricsNext ==
  \/ \E r \in Recorders : Record(r)
  \/ Reset
  \/ SumRequests \/ SumSessions

MetricsSpec == MetricsInit /\ [][MetricsNext]_metricVars

-----------------------------------------------------------------------------
MetricsTypeOK ==
  /\ sessions \subseteq Sessions /\ requests \subseteq Row
  /\ log \subseteq 1 .. MaxRequests /\ stored \subseteq 1 .. MaxRequests
  /\ recorder \in [Recorders -> [pc : {"idle", "ensure", "insert", "log"},
                                 session : Sessions \cup {NoSession}, id : 0 .. MaxRequests]]
  /\ resetter.pc \in {"idle", "count", "requests", "sessions", "done"}
  /\ reader.pc \in {"idle", "sessions", "done"}
  /\ issued \in 0 .. MaxRequests /\ resets \in 0 .. MaxResets

\* Only what SQLite took is in the log (record_request).
LoggedWasStored == log \subseteq stored

\* A query loses its session only to a reset it met between the two deletions.
SessionsKept ==
  \A row \in requests :
    IF row.session = NoSession THEN row.late ELSE row.session \in sessions

\* A report counts every session its requests name, unless a reset cut in
\* (aggregate_stats).
ReportAddsUp ==
  reader.pc = "done" /\ ~reader.cut =>
    {row.session : row \in reader.requests} \ {NoSession} \subseteq reader.sessions

\* Nothing that a reset says it removed is there when it ends; queries that go
\* on may add to that.
ResetRemoves ==
  resetter.pc = "done" => Ids(requests) \cap resetter.requests = {}

\* What the tables, the log, a report and a reset say of the queries agrees,
\* however queries, reports and resets meet and whatever fails.
MetricsAgree == LoggedWasStored /\ SessionsKept /\ ReportAddsUp /\ ResetRemoves
=============================================================================
