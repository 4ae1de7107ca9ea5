----------------------------- MODULE Migrations ------------------------------
(***************************************************************************)
(* db::open by several processes: each command and the daemon open         *)
(* brain.db and bring its schema to the head.  A migration is a batch of   *)
(* statements and a write of user_version, each committed by itself; the   *)
(* version is read once, before the first of them.                         *)
(***************************************************************************)
EXTENDS Naturals, Sequences

CONSTANT Openers  \* processes that open the database, again and again

SCHEMA_VERSION == 4

\* What each statement of a migration makes.  The table of an index or of a
\* column comes before it.
Batches ==
  [n \in 1 .. SCHEMA_VERSION |->
     CASE n = 1 -> <<"meta", "files", "chunks", "idx_chunks_file", "cache",
                     "idx_cache_expires", "sessions", "requests",
                     "idx_requests_session">>
       [] n = 2 -> <<"cache.query_vector">>
       [] n = 3 -> <<"summaries", "idx_summaries_target">>
       [] n = 4 -> <<"symbols", "idx_symbols_name", "idx_symbols_file">>]

Made(n) == {Batches[n][i] : i \in 1 .. Len(Batches[n])}

\* CREATE ... IF NOT EXISTS, against ALTER TABLE ... ADD COLUMN.
Repeatable(object) == object # "cache.query_vector"

VARIABLES
  schema,       \* tables, indexes and added columns
  userVersion,  \* PRAGMA user_version
  opener,       \* each process: where it is, its version, its next statement
  apart         \* no open met another, or ended between a statement that
                \* cannot be repeated and its version

migrationVars == <<schema, userVersion, opener, apart>>

ClosedDb == [pc |-> "closed", version |-> 0, next |-> 1]

\* A new database, or one that an earlier release left.
MigrationsInit ==
  /\ userVersion \in 0 .. SCHEMA_VERSION
  /\ schema = UNION {Made(n) : n \in 1 .. userVersion}
  /\ opener = [p \in Openers |-> ClosedDb]
  /\ apart = TRUE

Migrating(p) == opener[p].pc \in {"batch", "version"}

\* current_version, and the comparisons that choose the first migration.
ReadVersion(p) ==
  /\ opener[p].pc = "closed"
  /\ opener' = [opener EXCEPT ![p] =
       [pc |-> IF userVersion < SCHEMA_VERSION THEN "batch" ELSE "open",
        version |-> userVersion, next |-> 1]]
  /\ apart' = (apart /\ \A q \in Openers : ~Migrating(q))
  /\ UNCHANGED <<schema, userVersion>>

Statement(p) == Batches[opener[p].version + 1][opener[p].next]

Runs(p) == Repeatable(Statement(p)) \/ Statement(p) \notin schema

\* execute_batch: one statement.
Execute(p) ==
  /\ opener[p].pc = "batch"
  /\ Runs(p)
  /\ schema' = schema \cup {Statement(p)}
  /\ opener' = [opener EXCEPT
       ![p].pc   = IF opener[p].next = Len(Batches[opener[p].version + 1])
                   THEN "version" ELSE "batch",
       ![p].next = @ + 1]
  /\ UNCHANGED <<userVersion, apart>>

\* "duplicate column name": the open fails.
Refuse(p) ==
  /\ opener[p].pc = "batch"
  /\ ~Runs(p)
  /\ opener' = [opener EXCEPT ![p].pc = "refused"]
  /\ UNCHANGED <<schema, userVersion, apart>>

\* Mutant: every migration writes the head version.
SetVersionToHead(p) ==
  /\ opener[p].pc = "version"
  /\ userVersion' = SCHEMA_VERSION
  /\ opener' = [opener EXCEPT ![p] =
       [pc |-> IF @.version + 1 < SCHEMA_VERSION THEN "batch" ELSE "open",
        version |-> @.version + 1, next |-> 1]]
  /\ UNCHANGED <<schema, apart>>

\* Mutant: only the last migration writes its version.
SetVersionLast(p) ==
  /\ opener[p].pc = "version"
  /\ userVersion' = IF opener[p].version + 1 < SCHEMA_VERSION THEN userVersion
                    ELSE SCHEMA_VERSION
  /\ opener' = [opener EXCEPT ![p] =
       [pc |-> IF @.version + 1 < SCHEMA_VERSION THEN "batch" ELSE "open",
        version |-> @.version + 1, next |-> 1]]
  /\ UNCHANGED <<schema, apart>>

\* pragma_update, which may lower what another process has written.
SetVersion(p) ==
  /\ opener[p].pc = "version"
  /\ userVersion' = opener[p].version + 1
  /\ opener' = [opener EXCEPT ![p] =
       [pc |-> IF @.version + 1 < SCHEMA_VERSION THEN "batch" ELSE "open",
        version |-> @.version + 1, next |-> 1]]
  /\ UNCHANGED <<schema, apart>>

\* A statement that cannot be repeated has run, its version is not written.
Torn(p) ==
  /\ Migrating(p)
  /\ \E i \in 1 .. opener[p].next - 1 : ~Repeatable(Batches[opener[p].version + 1][i])

\* The process dies, or waits for SQLite's lock for too long.
Abandon(p) ==
  /\ Migrating(p)
  /\ opener' = [opener EXCEPT ![p] = ClosedDb]
  /\ apart' = (apart /\ ~Torn(p))
  /\ UNCHANGED <<schema, userVersion>>

\* The connection is dropped, with the command or after a failed open.
CloseDb(p) ==
  /\ opener[p].pc \in {"open", "refused"}
  /\ opener' = [opener EXCEPT ![p] = ClosedDb]
  /\ UNCHANGED <<schema, userVersion, apart>>

Migrate(p) == ReadVersion(p) \/ Execute(p) \/ Refuse(p) \/ SetVersion(p)

MigrationsNext == \E p \in Openers : Migrate(p) \/ Abandon(p) \/ CloseDb(p)

MigrationsSpec == MigrationsInit /\ [][MigrationsNext]_migrationVars

-----------------------------------------------------------------------------
MigrationsTypeOK ==
  /\ schema \subseteq UNION {Made(n) : n \in 1 .. SCHEMA_VERSION}
  /\ userVersion \in 0 .. SCHEMA_VERSION
  /\ opener \in [Openers -> [pc : {"closed", "batch", "version", "open", "refused"},
                             version : 0 .. SCHEMA_VERSION, next : Nat]]
  /\ apart \in BOOLEAN

\* Whatever processes meet or die, the version never promises a table that is
\* not there, and a connection that open() returned has the whole schema
\* (db.rs, migrate).
SchemaComplete ==
  /\ \A n \in 1 .. userVersion : Made(n) \subseteq schema
  /\ \A p \in Openers : opener[p].pc = "open" =>
       \A n \in 1 .. SCHEMA_VERSION : Made(n) \subseteq schema

\* As long as opens do not meet, and none ends between ALTER TABLE and its
\* version, no open fails on what is already there and the version never goes
\* back.
OrderlyMigrations ==
  [][apart' => /\ userVersion' >= userVersion
               /\ \A p \in Openers : opener'[p].pc # "refused"]_migrationVars

\* "Run any outstanding migrations. Safe to call repeatedly." (db.rs:53)
SafeToRepeat == \A p \in Openers : opener[p].pc # "refused"
=============================================================================
