# Formal models of brain-engine

brain-engine indexes a project (`brain index`, or a daemon that watches the
files), keeps text, summaries and symbols in SQLite and embeddings in LanceDB,
and answers queries from both. This directory holds TLA+ models of the parts of
it whose state outlives a call or is shared by processes and threads, the TLC
configurations that check them, and proofs of the most important results.

Paths below are relative to `src/crates/` unless they say otherwise.

## 1. Inventory

| component | code | state | operations | what is hard | what makes it correct |
|---|---|---|---|---|---|
| index pipeline and vector store | `brain-core/src/index.rs`, `vectors.rs`, `db.rs`; `brain-cli/src/commands/index.rs`; `brain-daemon/src/worker.rs` | tables `files`, `chunks` (`vector_id` marks a chunk as embedded), `meta` (the pin: model and dimension); the LanceDB table | index, pin check, rebuild, prune, embed a batch, mark | two stores without a common transaction; death between any two calls; overlapping runs; rowids that come back | a marked chunk has its vector; unmarked chunks get one; no vector of a chunk that is gone; the pin tells the truth |
| file table, summaries, mirror | `brain-core/src/index.rs`, `walk.rs`, `summarize.rs` | rows with hash, size, mtime; table `summaries`; `.brain/summaries` | walk, classify, commit, prune, summarize, aggregate | files change between stat, read, commit and the second read | rows and digest are those of the files left alone; nothing is redone for nothing |
| daemon lifecycle and commands | `brain-daemon/src/main.rs`, `brain-cli/src/commands/{daemon,install_hooks}.rs` | socket file, PID file | start, probe, bind, serve, signal, clean up; `brain daemon start`, `stop`, `status`; the prompt hook | stale files, two starts at once, kill at any point, a daemon that ends under a request | one daemon serves and is the one found; commands say what is so and end |
| daemon threads and protocol | `brain-daemon/src/{main,worker,watcher,protocol}.rs` | bounded channel of 64, one-shot replies, event channel | request, reply, debounce, reindex, shutdown | full channel, panics, events during a reindex, feedback from its own writes | every request ends with a truthful answer; every change gets indexed |
| schema migrations | `brain-core/src/db.rs` | `user_version` | migrate | two processes, crash between batch and version | every open ends at the head schema |
| response cache | `brain-core/src/cache.rs`, `brain-cli/src/commands/cache.rs` | table `cache` | lookup, semantic lookup, store, purge, clear | two processes on one table, expiry, the boundary between lookup and purge | no foreign answer; what is served stays so until it ends |
| query path | `brain-cli/src/commands/query.rs`, `worker.rs`, `retrieve.rs`, `context.rs` | reads all stores, writes cache and metrics | query, store | texts and lines are read from two stores, the index moves in between; lookups that fail | lines that belong to the text, budget, `--no-cache` |
| LLM state | `brain-core/src/llm_state.rs`, `brain-cli/src/commands/llm.rs` | a JSON file | block, unblock, is_blocked | read-modify-write by several processes, a file emptied before it is written | a block is honoured, and ends |
| metrics | `brain-core/src/metrics.rs`, `brain-cli/src/commands/stats.rs` | `sessions`, `requests`, a log | record, aggregate, reset | a request is several statements; a reset or a report between them | a request keeps its session; log, report and reset agree with the tables |
| routing | `router.rs`, `decision.rs`, `model_router.rs` | none | pure functions | ties, thresholds | totality, monotonicity |
| chunking, context, tokens | `chunk.rs`, `context.rs`, `tokens.rs` | none | pure functions | overlap, last line, budget | cover, order, bound |
| symbols, locator | `symbols.rs`, `locator.rs` | table `symbols` | extract, search, locate | ranking | order of fallbacks |
| set-up | `scaffold.rs`, `brain-cli/src/commands/{init,install_hooks}.rs` | three configurations, `.gitignore`, `.claude/settings.json`, hook scripts | `brain init`, `brain install-hooks` | files shared with the user; a write empties first; runs that meet or die | what the user has in these files stays; a command may be repeated after any death (where the code fails this: `su_clobber`) |
| hooks client | `src/clients/node/brain-client.mjs` | none of its own | ping, query, store an answer, block a provider | timeouts racing answers | one answer per prompt |
| embedders | `brain-embed/` | none | build a backend, embed | nested fallbacks; short or failed answers | the fallback is tried last; environment of the index |
| configuration, scripts | `config.rs`, `paths.rs`, `hash.rs`, `install.sh`, ... | files | read, write | - | - |

How they interact: the command line and the daemon share both stores and
nothing else (SQLite's lock is all that orders them); within the daemon all
requests pass one worker thread; the hooks reach the daemon through the socket, and the
Stop hook also runs `brain llm block`. `PROJECT.json` lists the hazards with their lines.

## 2. Modules

| module | models | proofs |
|---|---|---|
| `VectorSync` | runs of the index pipeline over SQLite and LanceDB | `VectorSyncProofs` |
| `FileIndex` | rows, summaries and mirror against a user who edits | `FileIndexProofs` |
| `DaemonLifecycle` | daemon processes, socket and PID file | `DaemonCommandsProofs` |
| `DaemonCommands` | over it, `brain daemon start`, `stop`, `status` and the prompt hook | `DaemonCommandsProofs` |
| `IndexService` | what the daemon promises: an abstract specification | `DaemonQueueProofs` |
| `DaemonQueue` | threads of one daemon; implements `IndexService` | `DaemonQueueProofs` |
| `QueryCache` | queries, response cache, retrieval and context over an index that moves | `QueryCacheProofs` |
| `LlmBlocks` | the rate-limit state file, `brain llm`, choice of a provider | `PersistenceProofs` |
| `Chunking` | `chunk_text` | `AlgorithmProofs` |
| `Locator` | edit targets of a prompt | `AlgorithmProofs` |
| `ModelRouter` | classification of a prompt and choice of a model | `AlgorithmProofs` |
| `Migrations` | `migrate()` by several processes | `PersistenceProofs` |
| `Metrics` | sessions, requests, reports and resets | `PersistenceProofs` |
| `Setup` | `brain init` and `brain install-hooks` over the user's files | `PersistenceProofs` |
| `Embedders` | the backend `auto` stands for, through nested fallbacks | `AlgorithmProofs` |
| `Orders` | a finite set listed in an order: sorting, for `QueryCache` and `Locator` | `DataLemmas` |

The modules `MC...` give the constants values for TLC. `MCSmallParts` checks
`QueryCache`, the six after it and `Embedders` side by side, `MCProjectFiles` `FileIndex`
and `Setup`: they share nothing, so a behaviour is one of one of them. `MCSerialRuns`
has two scenes of `VectorSync`: both programs with one model, or `brain index` with two.
Each module looks at one
boundary and abstracts its neighbours: `DaemonQueue` has one file and takes an
index request for a read followed by a publication, whose inside `VectorSync`
(stores) and `FileIndex` (files) detail.

### VectorSync

An indexer is a `brain index` or the worker during `handle_index`; `pc` is where
it stands. `files` and `chunks` are what is committed, `tx` the open transaction
of `index_project` (SQLite lets one writer at a time: `Unlocked`), `pin` the two
`meta` rows, `store` the LanceDB rows, `table` the dimension its table was made
with. Every call that changes a store is one action, in the order of the code:
`BeginTx`, `RewriteFile`/`RemoveFile`, `Commit`, `CheckPin`, `SetIfAbsent`,
`Unmark`, `SetModel`, `SetDim`, `Clear`, `SnapshotIds`, `DeleteOrphans`,
`SnapshotPending`, `TakeBatch`, `OpenTable`, `Upsert`, `MarkOne`, `Finish`.
`Abort` is an error or a kill anywhere: an open transaction rolls back, the rest
stays. `ids` and `pend` are what the run read and uses later. `seen` is what
`load_existing` read, and a file that is gone is deleted by the id of the row it read
then: `holder` follows whose row that is when another run commits meanwhile
(`HoldersAfter`). Another run may also drop the table between `OpenTable` and the
append, which then fails (`UpsertRejected`). `NextRowid` is
SQLite's rule for an INTEGER PRIMARY KEY without AUTOINCREMENT: one more than
the largest in use, so ids come back. `brain index` and the daemon differ as the
code does (`kind`): only the former checks the pin, and a rebuild writes in
another order.

### FileIndex

`disk` is what the user has; a change gives a file a new stamp (size and
mtime), or, where `Coarse` says so, a save of the same size leaves the old one, as it
does within a second. A run stats every file (`Walk`), reads the changed ones (`Classify`),
writes rows in one transaction (`Commit`), deletes stale summaries, reads again
the files whose summary is out of date (`Summarize`), writes each mirror after
its row (`Mirror`), and derives module and project summaries from the files in
hand (`listed`). The user acts between any two of these. A content stands for
its hash and for the summary made of it; `source` is a summary's `source_hash`.
`quiet` and `rest` are history.

### DaemonLifecycle

Each process goes through `run()` one file operation at a time. The kernel
takes connections from bind until the process ends (`Listening`), which is all
the probe asks for. `Overlap` says whether a process may start or be signalled
while another starts or ends. A PID file is created (`Empty`) and then written, in two
steps. A process at `shutdown` has its signal and is not out of its loop yet.

### DaemonCommands

`cmd` is what each command process does: its operation, the request it waits for
(`stage`), the daemon at the other end (`peer`), the one it spawned (`child`) and
what it last said (`verdict`). `Connect` and `Reply` are the two halves of
`socket_request`: the kernel connects a command to whoever listens, and that
process may end before it answers. `Launch`, `GiveUp`, `ReadPid` and `KillPid`
are the rest of `daemon.rs`. The hook pings, pings again and queries: its script has a
`brain daemon start` behind the first ping, but that ping succeeds whatever the
answer (`Answered`), which `dc_hook` shows. `Interrupt` cuts a command off anywhere. Daemons move by the
actions of `DaemonLifecycle`, which this module extends and implements.
`Overlap` is now also whether commands may meet (`Orderly` is what they assume
otherwise, not code), and `Slow` whether an answer
may take longer than a command waits. `steady` is history: who has served since
the command began.

### IndexService and DaemonQueue

`DaemonQueue` has the connection tasks (`conn`), the debounce thread (`watch`),
the worker (`worker`, `job`), the main task (`main`), the channel (`queue`,
`Cap` slots; 64 in the code) and the one-shot channels (`reply`). A send blocks
while the channel is full and fails when the worker is gone; a panic or the end
of the worker drops its receiver and the reply channels in it. The mapping to
`IndexService` is in `Service`: an awaited request is pending, the index is the
version last published.

### QueryCache

An asker is a `brain query` or the daemon's worker in `handle_query`; `pc` is
where it stands: row counts (command line only), exact lookup, embedding of the
question, semantic lookup, LanceDB search, SQLite enrichment and assembly, store,
purge, answer. `hits` is what the search found and `found` the same with the lines
SQLite gives for those ids. An index run of another process commits (`Reindex`),
prunes (`DropOrphans`), appends vectors (`Upsert`) and marks their chunks (`Mark`)
between any two of them, the clock ticks, the user clears or purges the cache, and
hooks store answers (`StoreGiven`). `store` is a set of rows in the order of their
addition: ids come back as SQLite hands them out, the prune keeps a row whose id is in
use, so the text of an earlier chunk stays beside that of the chunk that now has its
id, and a search may find either or both. A text also stands for its lines, so that
an answer that cites a text with another's lines shows. `held` is history: the texts
SQLite has given each id. `CitationsMatch` says that an id given to two texts is the
only cause of wrong lines, live or cached, however runs and queries interleave;
that an id does get two texts, and keeps a vector of each, `vs_stale` shows. A lookup that
fails is a miss, a store or purge that fails is ignored (`CacheFails`), anything else ends
the query (`Abort`).

### LlmBlocks

`brain llm block` and `unblock` read the whole file, change an entry in memory,
open the file (which empties it) and write it from its start; each is a step of
its own, a command may die at any, and commands may meet. `Malformed` is a file
that does not parse: commands refuse it, `brain query` takes it for no block, the user
removes it (`Repair`). Only `brain query` reads the file: queries of the daemon, and
so the prompt hook, do not choose a provider. `due`, `last` and `orderly` are history.

### Chunking, Locator, ModelRouter

A step is one turn of the code's loop. `Chunking` keeps the addition of `usize`
(`% Width`) and forgets what lines say. `Locator` collects the words of a prompt, drops
those that are another but for the case of ASCII letters (`AsciiFolded`), matches the rest
whatever their case (`Folded`), so that two words that differ in the case of an accented
letter both count, merges the chunks of a file into its candidate, and lists the
candidates in order (`Better`). A
prompt of `ModelRouter` is what its classifier finds in it. `Tier` and `Winner`
are the reference the loop is compared with.

### Migrations

A process reads `user_version`, runs the statements of the next batch one by one
and writes the new version; each of these is a step of its own, since no
transaction joins them. `Batches` has the statements of all versions.
`CREATE ... IF NOT EXISTS` may be repeated, `ALTER TABLE ... ADD COLUMN` may not.
The database starts at any version an earlier release left. `apart` is history: no two
opens have met and none died between an `ALTER` and its version.

### Metrics

A query ensures the row of its session twice, at its start and before it inserts its
request, and then adds a line to the log; `brain stats` reads the aggregates one after the other, and a reset
counts, deletes requests and deletes sessions. Figures of a request are
abstracted to the request itself.

### Setup

`init` and `install-hooks` through every file they touch, in the order of the
code, with the emptying of a file and the write into it as two steps. `wanted` is what
the user put into each file, and `excused` are the files a run left half written,
or which somebody else changed while a run rewrote them. A settings.json that does not
parse is taken for an empty one, and a value of another shape than the merge expects, of
the whole file, of its `hooks` or of an event (`odd`), gives way to an empty object or
array (`ReadSettings`): an undisturbed install drops what the user had there
(`NeverClobbers`, run `su_clobber`). `UserFilesKept` claims the rest: entries of
files that parse stay, and no file is broken but by a death in the middle of its write
or a meeting. A configuration broken by such a death is there for every later
`brain init`, which leaves it as it is (`CheckConfig`): no property says otherwise.

### Embedders

`build` as an explicit stack: `pending` holds the fallbacks of the calls in
progress. A registry may lead back to itself; `MaxNested` bounds the calls, where
the program overflows its stack.

## 3. Runs

| run | expected | what it shows |
|---|---|---|
| `vs_serial` | pass | runs that do not overlap, killed or failing anywhere: stores in step, a marked chunk is not embedded again (one whose mark was lost to a kill is), every run ends; with two models of different dimension, a complete pin tells the truth |
| `vs_stale` | violation | vectors of replaced chunks survive under reused rowids |
| `vs_concurrent` | violation | overlapping runs leave a chunk marked and without vector |
| `project_files` | pass | index runs: table, summaries, digest, idempotence, reasons to fail; set-up: runs of both commands that meet, die and are repeated, and an edit: what is kept, registered and ready |
| `fi_repeats` | violation | a content that moves leaves module summaries wrong |
| `dc_serial` | pass | commands one after the other, daemons killed anywhere: what commands say is true, a stop leaves none serving, every command ends |
| `dc_overlap` | violation | two starts at once: two daemons serve |
| `dc_hook` | violation | a prompt without a daemon queries and starts none |
| `dq` | pass | errors, panics, shutdown: refinement of `IndexService`, every request ends, every change gets indexed and the watcher rests unless something failed |
| `small_parts` | pass | every line is in a chunk; targets are the best; the model is the documented one; a block is honoured and ends; the schema is complete; metrics agree; a fallback is tried last; two askers on one cache while the index moves: a text gets wrong lines only by an id that had two texts, budget, keys, expiry, `--no-cache` |
| `su_clobber` | violation | one undisturbed install drops what it cannot parse or did not expect |
| `mg_overlap` | violation | two opens that meet at an `ALTER TABLE`: one is refused |

Each violation is a finding in `PROJECT.json`, with the comment or document it
contradicts. The passing run next to it states the condition under which the
property holds.

### Bounds

- `VectorSync`: contents `a`, `b`; batches of one or two. Serial: two files of one chunk and one
  model, or one file whose contents have one or two chunks, so that a rewrite changes
  how many ids there are, and two models; three ids. Stale: two files of one chunk.
  Concurrent: two indexers, one file, two ids. Reuse of an id needs one rewrite; a lost
  mark needs two runs; a rebuild needs two models.
- `FileIndex`: two paths in one module, three changes. A run that records a wrong
  stamp needs one change during it and a run after it; a kept but wrong summary
  needs a change between the two reads and one more.
- `DaemonCommands`: three daemon processes, each started once: one leaves files, one
  finds them, one acts in between. One command process, used again and again, where
  they come one after the other; two where they overlap.
- `DaemonQueue`: a channel of one slot, so that it is full whenever two senders
  meet; a connection and the watcher, two changes and two calls. More slots only make
  the queue longer: a sender awaits its reply, so it has at most one request in it.
- `QueryCache`: two askers, one question and two models (two keys, near each other
  for the semantic lookup), two texts of one and two tokens over a budget of one,
  two ids, three rows of LanceDB, one index run over any of the starting indexes, two
  queries or stores, one tick, after which entries are at their last second. Mixed
  citations need one commit, which reuses an id, before the search or between the two
  reads; two texts under one id in one answer need a third row; foreign
  answers need two keys; a purge that comes too early needs one tick.
- The rest of `small_parts`: texts of up to 7 lines in windows of up to 4 or longer than the
  text, up to the largest `usize` of 4 bits; prompts of up to one quoted span and
  two words, of four words, three of which are ação, Ação and AÇÃO, and two chunks of two
  files; every combination of what the classifier looks for, at the boundaries of
  its word counts; two `brain llm` processes, two providers, three commands, two
  ticks; two processes that open the database, from every version; two recorders,
  two sessions, two requests and two resets; every registry of three embedders, up to
  four calls deep.
- `Setup`: two installers, used again and again, one line of the user's and one edit, one
  configuration (the other two are written in the same way). A torn write, a lost
  line or a hook registered twice needs two runs and one death or edit.
- `Migrations` (`mg_overlap`): two processes.

Deadlock is not checked: all these systems may stop (the user stops editing, every
process has been used, the bounds are reached, the text is cut).

### Fairness

- `VectorSync`: weak fairness of each run's own steps. A run is one
  thread that never waits for another but for SQLite's lock, which has a timeout
  (a wait that is too long is `Abort`). Nothing forces a run to start, nor an
  `Abort`.
- `DaemonCommands`: weak fairness of what a command does by itself, and of a
  daemon's start and cleanup, which are straight-line code. A command that waits for
  an answer is released by it, by the end of the daemon, or by its read timeout;
  an answering daemon is at `serve`, where `Reply` is enabled. New commands, signals,
  kills and interruptions are not forced.
- `DaemonQueue`: weak fairness of each thread and of inotify's delivery. A
  connection's task runs whenever it can, on a multi-threaded runtime; the
  blocking send holds one of its threads. New requests, changes, panics and
  signals are not forced. A reindex that fails is logged and its change waits for
  another event: `missed` records it, and `ChangesGetIndexed` excuses just that.
- The other modules have safety properties only.

## 4. Proofs

TLAPS proves the following for every value of the constants that the assumptions
allow. Every safety invariant and every action property of a passing run is
among them, and for each liveness property the safety it rests on. Hardly one is
inductive: what is added to each is said here, and stated in the modules.

- `VectorSync`: `TypeOK` for any number of overlapping runs. For one indexer that
  runs again and again (`Serial`, in `VectorSyncProofs`) and an embedder that answers in full
  (`~ShortReplies`): `MarkedHasVector`, `NoOrphanAfterPrune` and
  `DoneMeansEmbedded`; and `PinHonest` when every run is a `brain index`. The
  invariant (`SerialInv`, `PinsInv`) adds what a run knows at each point: the
  snapshot `ids` covers the live chunks from the moment it is taken, a pending
  batch is unmarked until the upsert, after it each of its chunks has a vector,
  the transaction keeps marks only on chunks that have vectors, and, for the pin,
  between which of the four writes of a rebuild the marks are already gone.
  `Incremental` needs only `Serial`: what `load_existing` saw is still so, the
  transaction has no other chunk changed than those of the files it has written,
  and marks are cleared only in a full run (`Loaded`). Of any number of runs that
  overlap and die, over finitely many files: `RunsAreBounded`, `RunsGetOn`,
  `RunsAreNotSetBack`, `NoRunIsStuck`. A run has a number of steps left (`Left`), from
  its point in the program, the chunks it has to embed and has in its batch, and the
  files its transaction has yet to write; it starts at four for each chunk id, one
  for each file and twelve, every step of the run lowers it, and what others do does not
  raise it.
- `FileIndex`: `IndexCurrent`, for `~Coarse`. The invariant (`IndexInv`): a row, and a row to be, holds the
  content of its file whenever the file still has the row's stamp (`Honest`),
  because the stamp was read before the content. `TypeOK`. `IdempotentRun` and
  `FailsForCause` (`RestInv`): after a complete run over files left alone each row is
  settled, a run at rest finds every file unchanged, every summary kept, and the
  aggregate hashes those it stored, which only what it lists can alter.
  `SummariesCurrent` and `DigestMatchesIndex` assume `~Repeats` (no content comes back),
  the former `~Coarse` as well.
  Where one may, `fi_repeats` shows the second false; and a content read under the
  hash of the one before it, and kept once that one is restored, makes the first
  false. `SumsInv`: a summary under the hash of what its file holds is made of
  that; a text read under another's hash is never asked for, since that one is gone.
  `DigestInv`: contents of a row and of its file only go up (`Upward`), so a
  summary that is out of date stays so (`Superseded`); each content has one owner
  (`Owners`); what a digest says of a file is what the file's summary says as long
  as that is made of the same content (`Told`), so a digest whose source hash is
  the right one is the right digest. Nothing is assumed of what earlier, shorter
  or killed runs left.
- `DaemonLifecycle`: `TypeOK`; without overlap `OneServing`, `ServerIsReachable`,
  `StaleFilesRemoved` and `RefusalJustified`, from four facts: one process is not
  settled, one listens, who listens owns both files, and from its unlink on a
  starting process is alone with a clean directory.
- `DaemonCommands`: `CommandsTypeOK`, and `CommandsSpec => Spec`: every step of a
  command is a step of a daemon's life or none, so that everything above holds
  under commands too. Without overlap and slow answers `TruthfulCommands` and
  `StopStops`. The invariant (`CommandInv`): one command is under way, and `Fits`
  says for each of its stages what it knows: until it
  spawns a daemon none is on its way in; the one it asks, or has read from the PID
  file, is the only one that may serve; none serves when it spawns; after that only
  its child is alive; and one that served since it began is the one it is connected to.
  With any overlap: `DaemonsGetOn` (a process never goes back in `run()`), `CommandsGetOn`
  (a command's steps bring it nearer to its end, but for the ping of a start whose
  daemon goes away or is too slow), and `NoCommandIsStranded`: a command can take a
  step, or its connection is to a daemon that has bound and is three steps at most
  from serving or failing. The reason (`NamesAreBound`): the socket file, the PID file and
  a connection only ever name a process that has bound.
- `DaemonQueue`: `TypeOK`, and `ServiceImplemented`: `Spec => ImplementsService`, for any
  number of connections and any capacity. Initial states map to initial states, and
  every step to one of `IndexService` or to none (`ServiceStep`). The invariant (`QueueInv`): the
  request of a connection is in one place, the channel, the worker's hands or its
  reply channel, and only while the connection waits or is gone (`OnePlace`); it is
  the one that was made (`SameKind`); and an index request that has been handled
  was walked after it was made (`Fresh`), so that its answer has seen what the user
  did before. `NoCallIsForgotten` and `NoChangeIsForgotten` (`HeldInv`): a request that is waited for
  is answered, queued or taken by a living worker; while that worker lives and the
  daemon serves, the debounce thread runs, and a change that is neither in the index nor
  read by a reindex that failed is announced, asked for or being read. For this the
  watcher's reindex, too, is in one place (`OneReindex`), and only a dead worker drops
  replies (`OnlyTheDeadDrop`). `WatcherCalmsDown`: nothing but a change of the file gives the
  watcher work, not the writes of the index, and each of its steps leaves it less.
- `QueryCache`, for any number of askers: `KeyedAnswers` and `StaysServed`
  (`KeyInv`: an asker between its question and its store has a request,
  an idle one has neither request nor answer, and what is about to be
  stored was made for its asker's own key); `NoCacheIsApart` (`ApartInv`: such a query is
  never at a lookup or a store); `QueryTypeOK`, `CitationsMatch` and `BudgetIsFilled`
  (`ContentInv`: until it assembles an asker has no answer; texts and lines, in either
  store, in what a search found and in every answer, cached or not, are of texts that
  have had the id they go with, so that an id of one text gives that text its own lines;
  a live answer is what `Assemble` makes of what was found).
  What `Assemble` does is proved by induction along the list: the sum of what is
  shown is `used`, within the budget, and what was left out did not fit then and
  does not later (`Good`).
- `Chunking`: `EveryLineCovered`, `NoneContained`, `NoOverflow`, `LoopAdvances`, for
  any length and configuration a `usize` can hold (termination follows from the
  last: the start grows and stays below the length). The invariant (`Reaching`):
  all lines up to the end of the last window are covered; while the loop runs that
  window is a whole one that does not reach the end, and the next starts `Step`
  lines after it.
- `Locator`: `TargetsAreBest`. The invariant follows the words while the prompt is
  read and the candidates while chunks are merged; words of the list differ by more than
  ASCII case; a lemma on `InOrder` says that the list has every candidate once, in order.
- `ModelRouter`: `ModelChoice`, for all prompts and numbers of words. The loop keeps the
  best of what it has tried, the first of equals (`BestSoFar`); the weights are
  evaluated once, into a table of models by class of prompt (`Choice`), and the rest
  reads that table.
- `Embedders`: `FallbackIsLast`, for any registry, cycles included. The calls in
  progress form a stack, and what a call stands in for was led to by the calls
  inside it or has refused (`Ahead`). `Reached` is the least set closed under the
  entries' fallbacks, which needs no recursion.
- `Migrations`: `SchemaComplete` and `OrderlyMigrations`, for any number of
  processes. The invariant: versions up to the one a process has read are in the
  schema, and so are the statements of its batch it is past; while `apart`, one
  process migrates, from the version in the file, and the added column is there
  ahead of its version only in the hands of that process.
- `LlmBlocks`: `BlockHonoured`. The invariant: no entry of Claude, in the file, in the
  hands of a command or of a query, outlasts `last` (`Bounded`); while commands come
  one after the other the file agrees with `due` for every provider, except while
  one of them rewrites it, and that one writes into an emptied file (`Serialised`).
- `Metrics`: `MetricsAgree`. The invariant: a query has one row, after its insert; what a
  reset has counted goes with its first deletion, and rows met at the second are
  late ones; a report in progress has read of no session that has gone since.
- `Setup`: `SetupIsSafe`, and with it the types (`SetupTyped`; `TypesOK` of `project_files` is
  these and those of `FileIndex`), for any number of runs and edits. At a file that is not excused one run at most
  is between its look and the end of its write, and it has in hand what the user
  wants there of what a merge keeps; scripts come before the registration, which is made once; a run that
  has met nobody is alone and has made what it is past. `SetupSentinels` says that
  the two marks for "no file" and "does not parse" are not contents.

- `MCSmallParts`: `TypeOK`, the types of all its parts but the queries, which have theirs
  above, in the specification that `small_parts` runs. A step of the whole is a step of one part and leaves the others
  alone (`OnePartSteps`), so that the invariants above carry over, and the states in which
  a part rests have them; the run needs one length, window, overlap, limit and
  number of words to rest with (`SmallPartsConstants`).

`DataLemmas` has what several of these need of lists and numbers. The library's
induction theorems take an operator, which the provers cannot instantiate; the
lemmas state induction of a set instead (`Upwards`: a set that holds 0 and with each
number the next holds all), and recursion of a function (`Recursion`: one that is
defined along `0 .. n` is what its equation says), both from the least element
of a set of numbers. They serve every recursive function of the models; `InOrder`
is shown to list a finite set once and in order (`ListInOrder`).

Assumptions on the constants are named where they are declared and evaluated by
TLC in every run. What stays with TLC: liveness under fairness (`EveryRunEnds`,
`CommandsEnd`, `CallsEnd`, `ChangesGetIndexed`, `WatcherSettles`), which the prover
cannot do: that a thread which can go on does so is fairness, and that the steps
proved to be there are enabled is `ENABLED`. What TLAPS adds to them is that there is
always such a step or one to wait for, and that it leaves less to do, for any number of
runs, commands, connections and files, where the runs have two or three. And
the findings, which are counterexamples: what they refute is proved only as far as said
above (one run, start or command at a time, stamps or contents that do not come back, ids
of one text, a settings.json that parses).

## 5. Not modelled, and next

Left out for good: embedding models, HTTP, parsing and printing of configurations
and answers, what a summary says, extraction of symbols by pattern, hashing and
paths, `brain status` and `brain symbols` (they only read), the install scripts,
and `decision.rs`, which only its tests call. Of the editor's client, the panels
and the reading of transcripts by the Stop hook, which are heuristics on text.

Assumed away, each a hazard with a note: an embedder that answers with fewer vectors
than texts, the daemon after a change of the configured model, answers from the cache that are older than the
index or larger than the budget, a transcript without the last answer.

What the models show and no run states, since it is not what anyone wants to hold: a
rebuild that dies between the pin and the drop of the table
leaves a table of the old dimension under a matching pin, which refuses every later
upsert (`UpsertRejected`); a text file that turns binary keeps its row, chunks and
summary (`Classify`); a second save of one size within the second of the indexed one is
never seen (`Stamps`, with `Coarse`); a text found under an id that has come back is
cited with the lines of the text that has the id now (`WithLines`); a configuration that
an init left empty stays so (`CheckConfig`).

Next, should the code change or the hazards above be settled: the pin in the
daemon, the state of the index in the key of the cache, and the number of vectors an
embedder returns would each need a property of its own; the liveness proofs wait
for a prover of `ENABLED` and fairness.

## 6. Running

    tlc -workers 2 -config VectorSync_serial.cfg MCVectorSync.tla
    tlapm VectorSyncProofs.tla

Definitions marked `Mutant` are plausible bugs; `PROJECT.json` says which
property each breaks.
