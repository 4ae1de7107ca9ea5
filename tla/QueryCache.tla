------------------------------ MODULE QueryCache ------------------------------
(***************************************************************************)
(* Queries (`brain query` and the daemon's worker) over the two stores and *)
(* the response cache, while an index run moves both stores on.            *)
(*                                                                         *)
(* A chunk of the model is a file of one chunk: its text stands for its    *)
(* content and also for what SQLite says of it (lines, token estimate).    *)
(* The index run is VectorSync's subject and is here the environment.      *)
(***************************************************************************)
EXTENDS Orders, Sequences

CONSTANTS
  Askers,     \* processes that query
  Daemon,     \* the one among them that is the daemon's worker
  Questions,
  EmbedModels,     \* embedding models
  Texts,
  Tokens,     \* the token estimate of a text
  Likeness,   \* how near the vector of a text is to that of a key's question
  Alike,      \* how near the vectors of two keys' questions are, 0 when their
              \* dimensions differ
  Threshold,  \* semantic_threshold
  Semantic,   \* semantic_enabled
  TTL,        \* ttl_seconds
  TopKs, Budgets,
  Nil,
  MaxId,      \* BOUND: chunk ids
  MaxRows,    \* BOUND: rows added to LanceDB
  MaxIndex,   \* BOUND: changes of the index
  MaxAsks,    \* BOUND: queries and stores
  MaxTime     \* BOUND: seconds

ChunkIds  == 1 .. MaxId
Keys == Questions \X EmbedModels    \* make_key

\* A row of LanceDB; at is its place in the order of addition.
VectorRow == [id : ChunkIds, text : Texts, at : 1 .. MaxRows]

Hit == [id : ChunkIds, text : Texts, lines : Texts \cup {Nil}]

Steps == {"idle", "counts", "exact", "embed", "semantic", "search", "enrich",
          "store", "purge", "answer"}

Response == [for : Keys, shown : Seq(Hit)]
CacheEntry    == [response : Response, expires : Nat \cup {Nil}, vector : BOOLEAN]
Request  == [key : Keys, top : TopKs, budget : Budgets, cached : BOOLEAN]

ASSUME QueryConstants ==
  /\ Daemon \in Askers \cup {Nil}
  /\ Tokens \in [Texts -> Nat \ {0}]
  /\ Likeness \in [Keys -> [Texts -> Nat]]
  /\ Alike \in [Keys -> [Keys -> Nat]]
  /\ Threshold \in Nat /\ TTL \in Nat /\ Semantic \in BOOLEAN
  /\ TopKs \subseteq Nat /\ Budgets \subseteq Nat
  /\ MaxId \in Nat /\ MaxIndex \in Nat /\ MaxAsks \in Nat /\ MaxTime \in Nat
  /\ MaxRows \in Nat /\ MaxRows >= MaxId
  /\ Nil \notin Texts \cup Nat /\ Nil \notin Response /\ Nil \notin CacheEntry
  /\ Nil \notin Request

VARIABLES
  chunkRows,  \* SQLite: table chunks
  marked,  \* SQLite: the ids whose vector_id is set
  store,   \* LanceDB: its rows, several of one id where an id came back
  held,    \* history: the texts that have had each id
  cache,   \* SQLite: table cache
  clock,     \* the clock
  pc,      \* where each asker is
  ask,     \* what it was asked
  hits,    \* the rows its search found, in rank order
  found,   \* the same with the lines SQLite gives for those ids
  got,     \* the answer it has in hand
  from,    \* where that answer is from: "live", "exact", "semantic"
  spent    \* index changes and queries so far

tables == <<chunkRows, marked, store, held>>
locals == <<pc, ask, hits, found, got, from>>
queryVars   == <<tables, cache, clock, locals, spent>>

\* The project has been indexed, or is still empty.
QueryInit ==
  /\ chunkRows \in [ChunkIds -> Texts \cup {Nil}]
  /\ \A i, j \in ChunkIds : i < j /\ chunkRows[j] # Nil => chunkRows[i] # Nil
  /\ marked = {i \in ChunkIds : chunkRows[i] # Nil}
  /\ store  = {[id |-> i, text |-> chunkRows[i], at |-> i] : i \in marked}
  /\ held   = [i \in ChunkIds |-> {chunkRows[i]} \ {Nil}]
  /\ cache = [k \in Keys |-> Nil] /\ clock = 0
  /\ pc    = [a \in Askers |-> "idle"]
  /\ ask   = [a \in Askers |-> Nil]
  /\ hits  = [a \in Askers |-> <<>>]
  /\ found = [a \in Askers |-> <<>>]
  /\ got   = [a \in Askers |-> Nil]
  /\ from  = [a \in Askers |-> "live"]
  /\ spent = [index |-> 0, asks |-> 0]

At(a, l)   == pc[a] = l
Goto(a, l) == pc' = [pc EXCEPT ![a] = l]

-----------------------------------------------------------------------------
(* The environment: the clock, and index runs, one at a time.              *)

ClockTick ==
  /\ clock < MaxTime
  /\ clock' = clock + 1
  /\ UNCHANGED <<tables, cache, locals, spent>>

\* What an index run leaves alone.
IndexMoves == UNCHANGED <<cache, clock, locals>>

\* SQLite gives a new row the id after the largest in use, so ids come back.
NextRowid(rows) ==
  CHOOSE i \in 1 .. MaxId + 1 : /\ \A j \in i .. MaxId : rows[j] = Nil
                                /\ i > 1 => rows[i - 1] # Nil

\* A transaction of index_project: a file appears, changes or goes away.
Reindex(old, text) ==
  LET kept == [i \in ChunkIds |-> IF i = old THEN Nil ELSE chunkRows[i]]
      new  == NextRowid(kept)
  IN  /\ spent.index < MaxIndex
      /\ IF old = Nil THEN text # Nil ELSE chunkRows[old] # Nil
      /\ text = Nil \/ new \in ChunkIds
      /\ chunkRows' = IF text = Nil THEN kept ELSE [kept EXCEPT ![new] = text]
      /\ marked' = marked \ {old}
      /\ held'   = IF text = Nil THEN held ELSE [held EXCEPT ![new] = @ \cup {text}]
      /\ spent'  = [spent EXCEPT !.index = @ + 1]
      /\ UNCHANGED store
      /\ IndexMoves

\* A row stays whose id is in use, whichever text has it now.
DropOrphans ==
  /\ store' = {r \in store : chunkRows[r.id] # Nil}
  /\ store' # store
  /\ UNCHANGED <<chunkRows, marked, held, spent>>
  /\ IndexMoves

\* add() appends: an older row of the same id stays beside the new one.
Upsert(i) ==
  /\ chunkRows[i] # Nil /\ i \notin marked
  /\ \E at \in 1 .. MaxRows :
       /\ \A r \in store : r.at < at
       /\ at = 1 \/ \E r \in store : r.at = at - 1
       /\ store' = store \cup {[id |-> i, text |-> chunkRows[i], at |-> at]}
  /\ UNCHANGED <<chunkRows, marked, held, spent>>
  /\ IndexMoves

\* Between the two the run may die; the next one then appends the text again.
Mark(i) ==
  /\ chunkRows[i] # Nil /\ i \notin marked
  /\ \E r \in store : r.id = i
  /\ marked' = marked \cup {i}
  /\ UNCHANGED <<chunkRows, store, held, spent>>
  /\ IndexMoves

-----------------------------------------------------------------------------
(* The cache.                                                              *)

Live(e) == e # Nil /\ (e.expires = Nil \/ e.expires > clock)

Expiry == IF TTL = 0 THEN Nil ELSE clock + TTL

\* Live entries with a vector above the threshold, the nearest of them.
Likest(key) ==
  LET near == {k \in Keys : Live(cache[k]) /\ cache[k].vector /\ Alike[key][k] > Threshold}
  IN  {k \in near : \A j \in near : Alike[key][j] <= Alike[key][k]}

Put(key, response) ==
  cache' = [cache EXCEPT ![key] = [response |-> response, expires |-> Expiry, vector |-> Semantic]]

\* Mutant: purges what expires next.
PurgedEarly == [k \in Keys |-> IF /\ cache[k] # Nil
                                  /\ cache[k].expires = Nil \/ cache[k].expires > clock + 1
                               THEN cache[k] ELSE Nil]

Purged == [k \in Keys |-> IF Live(cache[k]) THEN cache[k] ELSE Nil]

\* `brain cache clear`, `brain cache purge`, and the daemon's start.
ClearCache ==
  /\ cache' = [k \in Keys |-> Nil]
  /\ UNCHANGED <<tables, clock, locals, spent>>

PurgeCache ==
  /\ cache' = Purged
  /\ UNCHANGED <<tables, clock, locals, spent>>

-----------------------------------------------------------------------------
(* Retrieval and assembly.                                                 *)

\* estimate_tokens of a hit's lines, or of its text where SQLite has none.
Estimate == [h \in Hit |-> Tokens[IF h.lines = Nil THEN h.text ELSE h.lines]]

Nearer(key, rows) ==
  LET like(r) == Likeness[key][r.text] IN
  {p \in rows \X rows : \/ like(p[1]) > like(p[2])
                        \/ like(p[1]) = like(p[2]) /\ p[1].at < p[2].at}

\* vs.search: rows of LanceDB by likeness, at most top of them.
Nearest(key, top) ==
  LET all == InOrder(store, Nearer(key, store))
  IN  SubSeq(all, 1, IF top < Len(all) THEN top ELSE Len(all))

\* enrich: the text is LanceDB's, lines and estimate are SQLite's.
WithLines(rows) ==
  [n \in DOMAIN rows |->
     [id |-> rows[n].id, text |-> rows[n].text, lines |-> chunkRows[rows[n].id]]]

\* Mutant: stops at the first chunk that does not fit.
AssembleGreedily(list, budget) ==
  LET ctx[n \in 0 .. Len(list)] ==
        IF n = 0 THEN [used |-> 0, shown |-> <<>>, full |-> FALSE]
        ELSE LET was == ctx[n - 1]
                 all == was.used + Estimate[list[n]]
             IN  IF was.full \/ all > budget
                 THEN [was EXCEPT !.full = TRUE]
                 ELSE [was EXCEPT !.used = all, !.shown = Append(@, list[n])]
  IN  ctx[Len(list)]

Add(ctx, h, budget) ==
  IF ctx.used + Estimate[h] <= budget
  THEN [used |-> ctx.used + Estimate[h], shown |-> Append(ctx.shown, h)]
  ELSE ctx

\* The context after each chunk of the list.
Contexts(list, budget) ==
  LET ctx[n \in 0 .. Len(list)] ==
        IF n = 0 THEN [used |-> 0, shown |-> <<>>] ELSE Add(ctx[n - 1], list[n], budget)
  IN  ctx

\* assemble: in rank order, whatever still fits.
Assemble(list, budget) == Contexts(list, budget)[Len(list)]

-----------------------------------------------------------------------------
(* A query.                                                                *)

\* What one step of an asker leaves alone.
others == <<tables, clock, spent>>

First(request) == IF request.cached THEN "exact" ELSE "embed"

Pass(a, l) ==
  /\ Goto(a, l)
  /\ UNCHANGED <<others, cache, ask, hits, found, got, from>>

Ask(a) ==
  /\ At(a, "idle") /\ spent.asks < MaxAsks
  /\ \E request \in Request :
       /\ ask' = [ask EXCEPT ![a] = request]
       /\ Goto(a, IF a = Daemon THEN First(request) ELSE "counts")
  /\ spent' = [spent EXCEPT !.asks = @ + 1]
  /\ UNCHANGED <<tables, cache, clock, hits, found, got, from>>

Forget(a) ==
  /\ Goto(a, "idle")
  /\ ask' = [ask EXCEPT ![a] = Nil] /\ got' = [got EXCEPT ![a] = Nil]
  /\ hits' = [hits EXCEPT ![a] = <<>>] /\ found' = [found EXCEPT ![a] = <<>>]
  /\ from' = [from EXCEPT ![a] = "live"]
  /\ UNCHANGED <<tables, cache, clock, spent>>

\* `brain query` looks first whether there is anything to search.
Counts(a) ==
  /\ At(a, "counts")
  /\ IF marked = {}
     THEN Forget(a)
     ELSE Pass(a, First(ask[a]))

Take(a, key, how) ==
  /\ got'  = [got EXCEPT ![a] = cache[key].response]
  /\ from' = [from EXCEPT ![a] = how]
  /\ Goto(a, "answer")
  /\ UNCHANGED <<others, cache, ask, hits, found>>

\* Mutant: the key is the question alone.
LookupAnyModel(a) ==
  /\ At(a, "exact")
  /\ \E k \in Keys : /\ k[1] = ask[a].key[1]
                     /\ IF Live(cache[k]) THEN Take(a, k, "exact") ELSE Pass(a, "embed")

LookupExact(a) ==
  /\ At(a, "exact")
  /\ IF Live(cache[ask[a].key]) THEN Take(a, ask[a].key, "exact") ELSE Pass(a, "embed")

\* Mutant: --no-cache is forgotten after the first lookup.
EmbedAlways(a) ==
  /\ At(a, "embed")
  /\ Pass(a, IF Semantic THEN "semantic" ELSE "search")

EmbedQuestion(a) ==
  /\ At(a, "embed")
  /\ Pass(a, IF ask[a].cached /\ Semantic THEN "semantic" ELSE "search")

\* The second lookup tries the key again before it compares vectors.
LookupSemantic(a) ==
  LET key == ask[a].key IN
  /\ At(a, "semantic")
  /\ IF Live(cache[key]) THEN Take(a, key, "exact")
     ELSE IF Likest(key) = {} THEN Pass(a, "search")
     ELSE \E k \in Likest(key) : Take(a, k, "semantic")

Search(a) ==
  LET rows == Nearest(ask[a].key, ask[a].top)
      none == [for |-> ask[a].key, shown |-> <<>>]
  IN
  /\ At(a, "search")
  /\ hits'   = [hits EXCEPT ![a] = rows]
  /\ got'    = [got EXCEPT ![a] = IF rows = <<>> THEN none ELSE Nil]
  /\ Goto(a, IF rows = <<>> THEN "answer" ELSE "enrich")
  /\ UNCHANGED <<tables, cache, clock, ask, found, from, spent>>

\* Mutant: SQLite's rows in their own order, not in that of the hits.
EnrichUnordered(a) ==
  LET rows  == hits[a]
      list  == [n \in DOMAIN rows |->
                  [id |-> rows[n].id, text |-> rows[n].text,
                   lines |-> chunkRows[rows[Len(rows) + 1 - n].id]]]
      shown == Assemble(list, ask[a].budget).shown
  IN
  /\ At(a, "enrich")
  /\ found' = [found EXCEPT ![a] = list]
  /\ got'   = [got EXCEPT ![a] = [for |-> ask[a].key, shown |-> shown]]
  /\ Goto(a, IF ask[a].cached /\ shown # <<>> THEN "store" ELSE "answer")
  /\ UNCHANGED <<tables, cache, clock, ask, hits, from, spent>>

\* Mutant: stores an empty context too.
EnrichStoresEmpty(a) ==
  LET list  == WithLines(hits[a])
      shown == Assemble(list, ask[a].budget).shown
  IN
  /\ At(a, "enrich")
  /\ found' = [found EXCEPT ![a] = list]
  /\ got'   = [got EXCEPT ![a] = [for |-> ask[a].key, shown |-> shown]]
  /\ Goto(a, IF ask[a].cached THEN "store" ELSE "answer")
  /\ UNCHANGED <<tables, cache, clock, ask, hits, from, spent>>

Enrich(a) ==
  LET list  == WithLines(hits[a])
      shown == Assemble(list, ask[a].budget).shown
  IN
  /\ At(a, "enrich")
  /\ found' = [found EXCEPT ![a] = list]
  /\ got'   = [got EXCEPT ![a] = [for |-> ask[a].key, shown |-> shown]]
  /\ Goto(a, IF ask[a].cached /\ shown # <<>> THEN "store" ELSE "answer")
  /\ UNCHANGED <<tables, cache, clock, ask, hits, from, spent>>

Store(a) ==
  /\ At(a, "store")
  /\ Put(ask[a].key, got[a])
  /\ Goto(a, "purge")
  /\ UNCHANGED <<others, ask, hits, found, got, from>>

PurgeAfterStore(a) ==
  /\ At(a, "purge")
  /\ cache' = Purged
  /\ Goto(a, "answer")
  /\ UNCHANGED <<others, ask, hits, found, got, from>>

\* A cache that cannot be read is a miss, one that cannot be written is let be.
CacheFails(a) ==
  \/ At(a, "exact")    /\ Pass(a, "embed")
  \/ At(a, "semantic") /\ Pass(a, "search")
  \/ At(a, "store")    /\ Pass(a, "purge")
  \/ At(a, "purge")    /\ Pass(a, "answer")

Answer(a) == At(a, "answer") /\ Forget(a)

\* An error of the embedder or a store, or the end of the process.
Abort(a) == ~At(a, "idle") /\ Forget(a)

\* handle_store: the answer a hook has for a question, without any chunk.  The
\* purge that follows is a step of its own.  One whose embedding or insert fails
\* ends with an error before it has written anything, and is no step here.
StoreGiven(key) ==
  /\ Daemon # Nil /\ At(Daemon, "idle") /\ spent.asks < MaxAsks
  /\ Put(key, [for |-> key, shown |-> <<>>])
  /\ Goto(Daemon, "purge")
  /\ got' = [got EXCEPT ![Daemon] = [for |-> key, shown |-> <<>>]]
  /\ spent' = [spent EXCEPT !.asks = @ + 1]
  /\ UNCHANGED <<tables, clock, ask, hits, found, from>>

-----------------------------------------------------------------------------
QueryStep(a) ==
  \/ Counts(a) \/ LookupExact(a) \/ EmbedQuestion(a) \/ LookupSemantic(a)
  \/ Search(a) \/ Enrich(a) \/ Store(a) \/ PurgeAfterStore(a) \/ Answer(a)

QueryNext ==
  \/ ClockTick \/ DropOrphans \/ ClearCache \/ PurgeCache
  \/ \E old \in ChunkIds \cup {Nil}, text \in Texts \cup {Nil} : Reindex(old, text)
  \/ \E i \in ChunkIds : Upsert(i) \/ Mark(i)
  \/ \E a \in Askers : Ask(a) \/ QueryStep(a) \/ CacheFails(a) \/ Abort(a)
  \/ \E key \in Keys : StoreGiven(key)

QuerySpec == QueryInit /\ [][QueryNext]_queryVars

-----------------------------------------------------------------------------
(* Properties.                                                             *)

\* Every variable stays in its type, marked chunks exist, no two rows of LanceDB
\* share a place, and a query stores only an answer with chunks in it.
QueryTypeOK ==
  /\ chunkRows \in [ChunkIds -> Texts \cup {Nil}] /\ held \in [ChunkIds -> SUBSET Texts]
  /\ store \subseteq VectorRow /\ \A r, s \in store : r.at = s.at => r = s
  /\ \A i \in marked : i \in ChunkIds /\ chunkRows[i] # Nil
  /\ cache \in [Keys -> CacheEntry \cup {Nil}] /\ clock \in 0 .. MaxTime
  /\ pc \in [Askers -> Steps] /\ ask \in [Askers -> Request \cup {Nil}]
  /\ \A a \in Askers :
       /\ hits[a] \in Seq(VectorRow) /\ found[a] \in Seq(Hit)
       /\ got[a] \in Response \cup {Nil} /\ from[a] \in {"live", "exact", "semantic"}
       /\ At(a, "store") => got[a].shown # <<>>

Totals(size, list) ==
  LET total[n \in 0 .. Len(list)] == IF n = 0 THEN 0 ELSE total[n - 1] + size[list[n]]
  IN  total

Total(size, list) == Totals(size, list)[Len(list)]

TextSize == [h \in Hit |-> Tokens[h.text]]

\* No text but this one has ever had the hit's id.
Unshared(h) == held[h.id] = {h.text}

Matches(response) ==
  \A n \in DOMAIN response.shown : LET h == response.shown[n] IN
    Unshared(h) => h.lines \in {h.text, Nil}

Fresh(a) == from[a] = "live" /\ ask[a] # Nil /\ got[a] # Nil

\* A text is cited with its own lines, or with none if its chunk is gone, unless
\* SQLite gave its id to another text as well: that alone can pair a text with
\* the lines of another, whatever index runs and queries interleave and whenever
\* a cached answer is served.  (RetrievedChunk: the text comes from LanceDB, the
\* lines from SQLite, in two reads.)  A live answer of texts with ids of their
\* own then costs no more tokens than its budget.
CitationsMatch ==
  /\ \A k \in Keys : cache[k] # Nil => Matches(cache[k].response)
  /\ \A a \in Askers :
       /\ got[a] # Nil => Matches(got[a])
       /\ Fresh(a) /\ (\A n \in DOMAIN got[a].shown : Unshared(got[a].shown[n]))
            => Total(TextSize, got[a].shown) <= ask[a].budget

\* An assembled context keeps to its budget, and leaves out only what would
\* not fit even into the finished context.
BudgetIsFilled ==
  \A a \in Askers : Fresh(a) =>
    LET used == Total(Estimate, got[a].shown) IN
    /\ used <= ask[a].budget
    /\ \A n \in DOMAIN found[a] :
         \/ \E m \in DOMAIN got[a].shown : got[a].shown[m] = found[a][n]
         \/ used + Estimate[found[a][n]] > ask[a].budget

\* What is cached under a key was made for it, whoever stored it, and an exact
\* hit answers the very question with the very model it was asked with.
KeyedAnswers ==
  /\ \A k \in Keys : cache[k] # Nil => cache[k].response.for = k
  /\ \A a \in Askers : ask[a] # Nil /\ got[a] # Nil /\ from[a] # "semantic"
                         => got[a].for = ask[a].key

Served(k) == IF Live(cache[k]) THEN cache[k].response ELSE Nil

\* As long as the clock stands, an answer that is served stays so, whatever
\* others purge, until it is replaced by a store under its key or cleared: lookup
\* and purge agree on when an entry ends, and no query touches another's entry.
StaysServed ==
  [][\A k \in Keys : clock' = clock /\ Served(k) # Nil =>
       \/ Served(k)' = Served(k)
       \/ ClearCache \/ StoreGiven(k)
       \/ \E a \in Askers : Store(a) /\ ask[a].key = k]_queryVars

\* A query with --no-cache neither takes its answer from the cache nor leaves
\* it there, whatever others do meanwhile.
NoCacheIsApart ==
  [][\A a \in Askers : ask[a] # Nil /\ ~ask[a].cached =>
       /\ from'[a] = "live"
       /\ pc'[a] # pc[a] => cache' = cache]_queryVars
=============================================================================
