-------------------------- MODULE QueryCacheProofs ---------------------------
(***************************************************************************)
(* Whose answer it is (KeyedAnswers, StaysServed, NoCacheIsApart) and what *)
(* is in it (QueryTypeOK, CitationsMatch, BudgetIsFilled), for any         *)
(* askers, keys, index and clock.                                          *)
(***************************************************************************)
EXTENDS QueryCache, DataLemmas, TLAPS

\* The parts of the types the proofs need.
Shapes ==
  /\ cache = [k \in Keys |-> cache[k]]
  /\ pc    = [a \in Askers |-> pc[a]]
  /\ got   = [a \in Askers |-> got[a]]
  /\ from  = [a \in Askers |-> from[a]]
  /\ ask \in [Askers -> Request \cup {Nil}]

\* An asker that looks up, searches or assembles has a request, an idle one has
\* neither request nor answer, and what is about to be stored was made for its
\* asker's key.
Holding ==
  \A a \in Askers :
    /\ pc[a] \in {"counts", "exact", "embed", "semantic", "search", "enrich", "store"}
         => ask[a] # Nil
    /\ At(a, "idle") => ask[a] = Nil /\ got[a] = Nil
    /\ At(a, "store") => got[a].for = ask[a].key

KeyInv == Shapes /\ Holding /\ KeyedAnswers

\* The steps that leave everything KeyInv speaks of alone.
LEMMA Elsewhere ==
  ASSUME KeyInv, UNCHANGED <<cache, locals>>
  PROVE  KeyInv'
  BY DEF KeyInv, Shapes, Holding, KeyedAnswers, At, locals

\* A table that only loses entries keeps its keys.
LEMMA FewerEntries ==
  ASSUME KeyInv, UNCHANGED locals,
         cache' \in [Keys -> {cache[k] : k \in Keys} \cup {Nil}],
         \A k \in Keys : cache'[k] \in {cache[k], Nil}
  PROVE  KeyInv'
  BY DEF KeyInv, Shapes, Holding, KeyedAnswers, At, locals

\* Before the first question nobody has a request and nothing is cached.
THEOREM KeyInvInit == QueryInit => KeyInv
  BY QueryConstants DEF QueryInit, KeyInv, Shapes, Holding, KeyedAnswers, At

\* No lookup, store or purge puts an answer under the key of another request.
THEOREM KeyInvNext == KeyInv /\ [QueryNext]_queryVars => KeyInv'
<1> SUFFICES ASSUME KeyInv, [QueryNext]_queryVars PROVE KeyInv'
  OBVIOUS
<1> USE QueryConstants
<1>1. CASE UNCHANGED queryVars
  BY <1>1, Elsewhere DEF queryVars
<1>2. CASE ClockTick \/ DropOrphans \/ \E i \in ChunkIds : Upsert(i) \/ Mark(i)
  BY <1>2, Elsewhere DEF ClockTick, DropOrphans, Upsert, Mark, IndexMoves
<1>3. CASE \E old \in ChunkIds \cup {Nil}, text \in Texts \cup {Nil} : Reindex(old, text)
  BY <1>3, Elsewhere DEF Reindex, IndexMoves
<1>4. CASE ClearCache \/ PurgeCache
  <2>1. UNCHANGED locals
    BY <1>4 DEF ClearCache, PurgeCache
  <2>2. /\ cache' \in [Keys -> {cache[k] : k \in Keys} \cup {Nil}]
        /\ \A k \in Keys : cache'[k] \in {cache[k], Nil}
    BY <1>4 DEF ClearCache, PurgeCache, Purged
  <2> QED  BY <2>1, <2>2, FewerEntries
<1>5. ASSUME NEW a \in Askers, Ask(a) PROVE KeyInv'
  <2>1. PICK request \in Request :
          /\ ask' = [ask EXCEPT ![a] = request]
          /\ pc' = [pc EXCEPT ![a] = IF a = Daemon THEN First(request) ELSE "counts"]
    BY <1>5 DEF Ask, Goto
  <2>2. got[a] = Nil /\ got' = got /\ cache' = cache /\ from' = from
    BY <1>5 DEF Ask, KeyInv, Holding
  <2>3. pc'[a] \in {"counts", "exact", "embed"}
    BY <2>1 DEF First, KeyInv, Shapes
  <2> QED  BY <2>1, <2>2, <2>3 DEF KeyInv, Shapes, Holding, KeyedAnswers, At
<1>6. ASSUME NEW a \in Askers, Forget(a) PROVE KeyInv'
  BY <1>6 DEF Forget, Goto, KeyInv, Shapes, Holding, KeyedAnswers, At
<1>7. ASSUME NEW a \in Askers, NEW l, Pass(a, l), At(a, "idle") \/ l # "idle", l # "store",
             l \in {"purge", "answer"} \/ ask[a] # Nil
      PROVE  KeyInv'
  BY <1>7 DEF Pass, Goto, KeyInv, Shapes, Holding, KeyedAnswers, At, others
<1>8. ASSUME NEW a \in Askers, NEW key \in Keys, NEW how, Take(a, key, how), ask[a] # Nil,
             cache[key] # Nil, how = "semantic" \/ key = ask[a].key
      PROVE  KeyInv'
  BY <1>8 DEF Take, Goto, KeyInv, Shapes, Holding, KeyedAnswers, At, others
<1>9. ASSUME NEW a \in Askers, QueryStep(a) PROVE KeyInv'
  <2>1. CASE Counts(a)
    BY <2>1, <1>6, <1>7 DEF Counts, First, KeyInv, Holding, At
  <2>2. CASE LookupExact(a)
    <3>1. ask[a] # Nil /\ ask[a].key \in Keys
      BY <2>2 DEF LookupExact, KeyInv, Shapes, Holding, At, Request
    <3> QED  BY <2>2, <3>1, <1>7, <1>8 DEF LookupExact, Live
  <2>3. CASE EmbedQuestion(a)
    BY <2>3, <1>7 DEF EmbedQuestion, KeyInv, Holding, At
  <2>4. CASE LookupSemantic(a)
    <3>1. ask[a] # Nil /\ ask[a].key \in Keys
      BY <2>4 DEF LookupSemantic, KeyInv, Shapes, Holding, At, Request
    <3>2. \A k \in Likest(ask[a].key) : k \in Keys /\ cache[k] # Nil
      BY DEF Likest, Live
    <3>3. \/ Take(a, ask[a].key, "exact") /\ cache[ask[a].key] # Nil
          \/ Pass(a, "search")
          \/ \E k \in Likest(ask[a].key) : Take(a, k, "semantic")
      BY <2>4 DEF LookupSemantic, Live
    <3> QED  BY <3>1, <3>2, <3>3, <1>7, <1>8
  <2>5. CASE Search(a)
    <3>1. /\ pc' = [pc EXCEPT ![a] = pc'[a]] /\ pc'[a] \in {"answer", "enrich"}
          /\ got' = [got EXCEPT ![a] = got'[a]]
          /\ got'[a] # Nil => got'[a].for = ask[a].key
          /\ UNCHANGED <<cache, ask, from>>
      BY <2>5 DEF Search, Goto, KeyInv, Shapes
    <3>2. ask[a] # Nil
      BY <2>5 DEF Search, KeyInv, Holding, At
    <3> QED  BY <3>1, <3>2 DEF KeyInv, Shapes, Holding, KeyedAnswers, At
  <2>6. CASE Enrich(a)
    <3>1. /\ pc' = [pc EXCEPT ![a] = pc'[a]] /\ pc'[a] \in {"answer", "store"}
          /\ got' = [got EXCEPT ![a] = got'[a]]
          /\ got'[a].for = ask[a].key
          /\ UNCHANGED <<cache, ask, from>>
      BY <2>6 DEF Enrich, Goto, KeyInv, Shapes
    <3>2. ask[a] # Nil
      BY <2>6 DEF Enrich, KeyInv, Holding, At
    <3> QED  BY <3>1, <3>2 DEF KeyInv, Shapes, Holding, KeyedAnswers, At
  <2>7. CASE Store(a)
    <3>1. /\ ask[a].key \in Keys /\ got[a].for = ask[a].key
      BY <2>7 DEF Store, KeyInv, Shapes, Holding, At, Request
    <3>2. /\ cache' = [cache EXCEPT ![ask[a].key] = cache'[ask[a].key]]
          /\ cache'[ask[a].key].response = got[a]
      BY <2>7, <3>1 DEF Store, Put, KeyInv, Shapes
    <3>3. pc' = [pc EXCEPT ![a] = "purge"] /\ UNCHANGED <<ask, got, from>>
      BY <2>7 DEF Store, Goto
    <3> QED  BY <3>1, <3>2, <3>3 DEF KeyInv, Shapes, Holding, KeyedAnswers, At
  <2>8. CASE PurgeAfterStore(a)
    <3>1. /\ cache' \in [Keys -> {cache[k] : k \in Keys} \cup {Nil}]
          /\ \A k \in Keys : cache'[k] \in {cache[k], Nil}
      BY <2>8 DEF PurgeAfterStore, Purged
    <3>2. pc' = [pc EXCEPT ![a] = "answer"] /\ UNCHANGED <<ask, got, from>>
      BY <2>8 DEF PurgeAfterStore, Goto
    <3> QED  BY <3>1, <3>2 DEF KeyInv, Shapes, Holding, KeyedAnswers, At
  <2>9. CASE Answer(a)
    BY <2>9, <1>6 DEF Answer
  <2> QED  BY <1>9, <2>1, <2>2, <2>3, <2>4, <2>5, <2>6, <2>7, <2>8, <2>9 DEF QueryStep
<1>10. ASSUME NEW a \in Askers, CacheFails(a) \/ Abort(a) PROVE KeyInv'
  BY <1>10, <1>6, <1>7 DEF CacheFails, Abort, KeyInv, Holding, At
<1>11. ASSUME NEW key \in Keys, StoreGiven(key) PROVE KeyInv'
  <2>1. Daemon \in Askers /\ ask' = ask /\ from' = from /\ ask[Daemon] = Nil
    BY <1>11 DEF StoreGiven, KeyInv, Holding
  <2>2. /\ cache' = [cache EXCEPT ![key] = cache'[key]]
        /\ cache'[key].response.for = key
        /\ got' = [got EXCEPT ![Daemon] = got'[Daemon]]
        /\ pc' = [pc EXCEPT ![Daemon] = "purge"]
    BY <1>11, <2>1 DEF StoreGiven, Put, Goto, KeyInv, Shapes
  <2> QED  BY <2>1, <2>2 DEF KeyInv, Shapes, Holding, KeyedAnswers, At
<1> QED  BY <1>1, <1>2, <1>3, <1>4, <1>5, <1>9, <1>10, <1>11 DEF QueryNext

\* What is cached under a key was made for it, and exact hits answer the very
\* question and model asked, whatever queries, stores, purges and index runs
\* interleave, with or without the semantic cache.
THEOREM KeyedAnswersCorrect == QuerySpec => []KeyedAnswers
<1>1. KeyInv => KeyedAnswers
  BY DEF KeyInv
<1> QED  BY <1>1, KeyInvInit, KeyInvNext, PTL DEF QuerySpec

\* One step takes an answer away only by a store under its key, or a clear.
LEMMA StepServes ==
  ASSUME KeyInv, [QueryNext]_queryVars, clock' = clock, NEW k \in Keys, Served(k) # Nil
  PROVE  \/ Served(k)' = Served(k)
         \/ ClearCache \/ StoreGiven(k)
         \/ \E a \in Askers : Store(a) /\ ask[a].key = k
<1> USE QueryConstants
<1>1. CASE cache' = cache
  BY <1>1 DEF Served, Live
<1>2. CASE cache' = Purged
  <2>1. Live(cache[k]) /\ cache'[k] = cache[k]
    BY <1>2 DEF Served, Purged
  <2> QED  BY <2>1 DEF Served, Live
<1>3. ASSUME NEW key \in Keys, StoreGiven(key), key # k PROVE Served(k)' = Served(k)
  <2>1. cache'[k] = cache[k]
    BY <1>3 DEF StoreGiven, Put, KeyInv, Shapes
  <2> QED  BY <2>1 DEF Served, Live
<1>4. ASSUME NEW a \in Askers, Store(a), ask[a].key # k PROVE Served(k)' = Served(k)
  <2>1. cache'[k] = cache[k]
    BY <1>4 DEF Store, Put, KeyInv, Shapes
  <2> QED  BY <2>1 DEF Served, Live
<1>5. CASE UNCHANGED queryVars
  BY <1>5, <1>1 DEF queryVars
<1>6. CASE QueryNext
  <2>1. CASE ClockTick \/ DropOrphans \/ \E i \in ChunkIds : Upsert(i) \/ Mark(i)
    BY <2>1, <1>1 DEF ClockTick, DropOrphans, Upsert, Mark, IndexMoves
  <2>2. CASE \E old \in ChunkIds \cup {Nil}, text \in Texts \cup {Nil} : Reindex(old, text)
    BY <2>2, <1>1 DEF Reindex, IndexMoves
  <2>3. CASE ClearCache \/ PurgeCache
    BY <2>3, <1>2 DEF PurgeCache
  <2>4. ASSUME NEW a \in Askers, Ask(a) PROVE cache' = cache
    BY <2>4 DEF Ask
  <2>5. ASSUME NEW a \in Askers, QueryStep(a), ~Store(a) PROVE cache' = cache \/ cache' = Purged
    BY <2>5 DEF QueryStep, Counts, Forget, Pass, LookupExact, Take, EmbedQuestion, LookupSemantic,
                Search, Enrich, PurgeAfterStore, Answer
  <2>6. ASSUME NEW a \in Askers, CacheFails(a) \/ Abort(a) PROVE cache' = cache
    BY <2>6 DEF CacheFails, Abort, Forget, Pass
  <2> QED  BY <1>1, <1>2, <1>3, <1>4, <1>6, <2>1, <2>2, <2>3, <2>4, <2>5, <2>6 DEF QueryNext
<1> QED  BY <1>5, <1>6

\* As long as the clock stands, what the cache serves it goes on serving.
THEOREM StaysServedCorrect == QuerySpec => StaysServed
<1>1. KeyInv /\ [QueryNext]_queryVars =>
        [\A k \in Keys : clock' = clock /\ Served(k) # Nil =>
           \/ Served(k)' = Served(k)
           \/ ClearCache \/ StoreGiven(k)
           \/ \E a \in Askers : Store(a) /\ ask[a].key = k]_queryVars
  BY StepServes
<1> QED  BY <1>1, KeyInvInit, KeyInvNext, PTL DEF QuerySpec, StaysServed

\* Where a query with --no-cache may be, and that its answer is its own; an asker
\* takes nothing over from the query before.
Apart ==
  \A a \in Askers :
    /\ ask[a] = Nil => from[a] = "live"
    /\ ask[a] # Nil /\ ~ask[a].cached =>
         from[a] = "live" /\ pc[a] \in {"counts", "embed", "search", "enrich", "answer"}

ApartInv == KeyInv /\ Apart

\* What one step of one asker does to Apart: the others keep theirs.
LEMMA OneAsker ==
  ASSUME ApartInv, NEW a \in Askers,
         \A b \in Askers \ {a} : ask'[b] = ask[b] /\ from'[b] = from[b] /\ pc'[b] = pc[b],
         ask'[a] = Nil => from'[a] = "live",
         ask'[a] # Nil /\ ~ask'[a].cached =>
           from'[a] = "live" /\ pc'[a] \in {"counts", "embed", "search", "enrich", "answer"}
  PROVE  Apart'
  BY DEF ApartInv, Apart

LEMMA ApartInit == QueryInit => ApartInv
  BY KeyInvInit DEF ApartInv, QueryInit, Apart

\* A step of an asker, its request known, and what Apart says of it.
LEMMA ApartStep ==
  ASSUME ApartInv, NEW a \in Askers, QueryStep(a) \/ CacheFails(a) \/ Abort(a)
  PROVE  /\ Apart'
         /\ ask[a] # Nil /\ ~ask[a].cached =>
              from'[a] = "live" /\ (pc'[a] # pc[a] => cache' = cache)
         /\ \A b \in Askers \ {a} : from'[b] = from[b] /\ pc'[b] = pc[b]
<1> DEFINE Fits ==
      /\ \A b \in Askers \ {a} : ask'[b] = ask[b] /\ from'[b] = from[b] /\ pc'[b] = pc[b]
      /\ ask'[a] = Nil => from'[a] = "live"
      /\ ask'[a] # Nil /\ ~ask'[a].cached =>
           from'[a] = "live" /\ pc'[a] \in {"counts", "embed", "search", "enrich", "answer"}
      /\ ask[a] # Nil /\ ~ask[a].cached =>
           from'[a] = "live" /\ (pc'[a] # pc[a] => cache' = cache)
<1> SUFFICES Fits
  BY OneAsker
<1> USE DEF ApartInv, KeyInv, Shapes, Apart, At
<1>1. ASSUME Forget(a) PROVE Fits
  BY <1>1 DEF Forget, Goto
<1>2. ASSUME NEW l, Pass(a, l),
             ask[a] # Nil /\ ~ask[a].cached => l \in {"counts", "embed", "search", "enrich", "answer"}
      PROVE  Fits
  BY <1>2 DEF Pass, Goto
<1>3. ASSUME NEW key, NEW how, Take(a, key, how), ask[a] # Nil, ask[a].cached PROVE Fits
  BY <1>3 DEF Take, Goto
<1>4. CASE Counts(a)
  BY <1>1, <1>2, <1>4 DEF Counts, First
<1>5. CASE LookupExact(a)
  BY <1>2, <1>3, <1>5 DEF LookupExact, Holding
<1>6. CASE EmbedQuestion(a)
  BY <1>2, <1>6 DEF EmbedQuestion
<1>7. CASE LookupSemantic(a)
  BY <1>2, <1>3, <1>7 DEF LookupSemantic, Holding
<1>8. CASE Search(a)
  BY <1>8 DEF Search, Goto, Holding
<1>9. CASE Enrich(a)
  BY <1>9 DEF Enrich, Goto, Holding
<1>10. CASE Store(a)
  BY <1>10 DEF Store, Goto, Holding
<1>11. CASE PurgeAfterStore(a)
  BY <1>11 DEF PurgeAfterStore, Goto
<1>12. CASE Answer(a) \/ Abort(a)
  BY <1>1, <1>12 DEF Answer, Abort
<1>13. CASE CacheFails(a)
  BY <1>2, <1>13 DEF CacheFails
<1> QED
  BY <1>4, <1>5, <1>6, <1>7, <1>8, <1>9, <1>10, <1>11, <1>12, <1>13 DEF QueryStep

\* What NoCacheIsApart says of one step.
LEMMA ApartNext ==
  ASSUME ApartInv, [QueryNext]_queryVars
  PROVE  /\ Apart'
         /\ \A a \in Askers : ask[a] # Nil /\ ~ask[a].cached =>
              /\ from'[a] = "live"
              /\ pc'[a] # pc[a] => cache' = cache
<1>1. CASE UNCHANGED locals
  BY <1>1 DEF ApartInv, Apart, locals
<1>2. CASE \E a \in Askers : QueryStep(a) \/ CacheFails(a) \/ Abort(a)
  BY <1>2, ApartStep DEF ApartInv, Apart
<1>3. ASSUME NEW a \in Askers, Ask(a) PROVE Apart' /\ UNCHANGED <<cache, from>>
  BY <1>3 DEF Ask, Goto, First, ApartInv, Apart, KeyInv, Shapes, Holding, At
<1>4. ASSUME NEW key \in Keys, StoreGiven(key)
      PROVE  /\ Daemon \in Askers /\ ask[Daemon] = Nil /\ UNCHANGED <<ask, from>>
             /\ \A b \in Askers \ {Daemon} : pc'[b] = pc[b]
  BY <1>4, QueryConstants DEF StoreGiven, Goto, ApartInv, KeyInv, Shapes, Holding, At
<1>5. CASE UNCHANGED queryVars
  BY <1>1, <1>5 DEF queryVars
<1>6. CASE ClockTick \/ DropOrphans \/ ClearCache \/ PurgeCache \/ \E i \in ChunkIds : Upsert(i) \/ Mark(i)
  BY <1>1, <1>6 DEF ClockTick, DropOrphans, ClearCache, PurgeCache, Upsert, Mark, IndexMoves
<1>7. CASE \E old \in ChunkIds \cup {Nil}, text \in Texts \cup {Nil} : Reindex(old, text)
  BY <1>1, <1>7 DEF Reindex, IndexMoves
<1>8. CASE \E a \in Askers : Ask(a)
  BY <1>3, <1>8 DEF ApartInv, Apart
<1>9. CASE \E key \in Keys : StoreGiven(key)
  BY <1>4, <1>9 DEF ApartInv, Apart
<1> QED
  BY <1>2, <1>5, <1>6, <1>7, <1>8, <1>9 DEF QueryNext

\* A query with --no-cache neither reads nor writes the cache, whatever steps of
\* others come between its own.
THEOREM NoCacheIsApartCorrect == QuerySpec => NoCacheIsApart
<1>1. ApartInv /\ [QueryNext]_queryVars => ApartInv'
  BY ApartNext, KeyInvNext DEF ApartInv
<1>2. ApartInv /\ [QueryNext]_queryVars =>
        [\A a \in Askers : ask[a] # Nil /\ ~ask[a].cached =>
           /\ from'[a] = "live"
           /\ pc'[a] # pc[a] => cache' = cache]_queryVars
  BY ApartNext
<1> QED
  BY <1>1, <1>2, ApartInit, PTL DEF QuerySpec, NoCacheIsApart

-----------------------------------------------------------------------------
(* Lists: what they cost, and what is assembled of them.                    *)

LEMMA EstimateType == Estimate \in [Hit -> Nat] /\ TextSize \in [Hit -> Nat]
  BY QueryConstants DEF Estimate, TextSize, Hit

LEMMA TotalsEquation ==
  ASSUME NEW size \in [Hit -> Nat], NEW list \in Seq(Hit)
  PROVE  /\ Totals(size, list)[0] = 0
         /\ \A n \in 0 .. Len(list) : Totals(size, list)[n] \in Nat
         /\ \A n \in 1 .. Len(list) : Totals(size, list)[n] = Totals(size, list)[n - 1] + size[list[n]]
<1> DEFINE N == Len(list)
           step == [p \in (1 .. N) \X Nat |-> p[2] + size[list[p[1]]]]
           F(g) == [n \in 0 .. N |-> IF n = 0 THEN 0 ELSE g[n - 1] + size[list[n]]]
<1>1. N \in Nat /\ \A n \in 1 .. N : size[list[n]] \in Nat
  OBVIOUS
<1>2. PICK g : Recurs(g, N, 0, step)
  BY <1>1, Recursion
<1>0. \A n \in 1 .. N, v \in Nat : step[<<n, v>>] = v + size[list[n]]
  OBVIOUS
<1> HIDE DEF step
<1>3. \A n \in 0 .. N : g[n] \in Nat
  <2> DEFINE P == {n \in 0 .. N : g[n] \in Nat}
  <2>1. 0 \in P
    BY <1>1, <1>2 DEF Recurs
  <2>2. ASSUME NEW n \in 1 .. N, n - 1 \in P PROVE n \in P
    <3>1. g[n] = g[n - 1] + size[list[n]]
      BY <1>0, <1>2, <2>2 DEF Recurs
    <3> QED
      BY <1>1, <2>2, <3>1
  <2> HIDE DEF P
  <2>3. \A n \in 0 .. N : n \in P
    BY <1>1, <2>1, <2>2, Upwards
  <2> QED
    BY <2>3 DEF P
<1>4. g = F(g)
  <2>1. ASSUME NEW n \in 1 .. N PROVE g[n] = g[n - 1] + size[list[n]]
    <3>1. n - 1 \in 0 .. N
      BY <1>1
    <3> QED
      BY <1>0, <1>2, <1>3, <3>1 DEF Recurs
  <2>2. g = [n \in 0 .. N |-> g[n]] /\ g[0] = 0
    BY <1>2 DEF Recurs
  <2>3. ASSUME NEW n \in 0 .. N PROVE g[n] = IF n = 0 THEN 0 ELSE g[n - 1] + size[list[n]]
    <3>1. n = 0 \/ n \in 1 .. N
      BY <1>1
    <3> QED
      BY <2>1, <2>2, <3>1
  <2> QED
    BY <2>2, <2>3
<1>5. Totals(size, list) = CHOOSE h : h = F(h)
  BY DEF Totals
<1> HIDE DEF F
<1>6. Totals(size, list) = F(Totals(size, list))
  BY <1>4, <1>5
<1> DEFINE t == Totals(size, list)
<1> HIDE DEF t
<1>7. t = F(t)
  BY <1>6 DEF t
<1>8. t[0] = 0 /\ \A n \in 1 .. N : t[n] = t[n - 1] + size[list[n]]
  BY <1>1, <1>7 DEF F
<1>9. \A n \in 0 .. N : t[n] \in Nat
  <2> DEFINE P == {n \in 0 .. N : t[n] \in Nat}
  <2>1. 0 \in P
    BY <1>1, <1>8
  <2>2. ASSUME NEW n \in 1 .. N, n - 1 \in P PROVE n \in P
    BY <1>1, <1>8, <2>2
  <2> HIDE DEF P
  <2>3. \A n \in 0 .. N : n \in P
    BY <1>1, <2>1, <2>2, Upwards
  <2> QED
    BY <2>3 DEF P
<1> QED
  BY <1>8, <1>9 DEF t

\* A longer list costs what it has more.
LEMMA TotalAppend ==
  ASSUME NEW size \in [Hit -> Nat], NEW list \in Seq(Hit), NEW h \in Hit
  PROVE  Total(size, Append(list, h)) = Total(size, list) + size[h]
<1> DEFINE more == Append(list, h)
           t == Totals(size, list)
           u == Totals(size, more)
           N == Len(list)
<1>1. /\ N \in Nat /\ more \in Seq(Hit) /\ Len(more) = N + 1 /\ more[N + 1] = h
      /\ \A n \in 1 .. N : more[n] = list[n]
  OBVIOUS
<1>2. t[0] = 0 /\ \A n \in 1 .. N : t[n] = t[n - 1] + size[list[n]]
  BY TotalsEquation
<1>3. u[0] = 0 /\ \A n \in 1 .. N + 1 : u[n] = u[n - 1] + size[more[n]]
  BY <1>1, TotalsEquation
<1> HIDE DEF t, u, more
<1> DEFINE P == {n \in 0 .. N : u[n] = t[n]}
<1>4. 0 \in P
  BY <1>1, <1>2, <1>3
<1>5. ASSUME NEW n \in 1 .. N, n - 1 \in P PROVE n \in P
  <2>1. n \in 1 .. N + 1 /\ more[n] = list[n] /\ u[n - 1] = t[n - 1]
    BY <1>1, <1>5
  <2> QED
    BY <1>2, <1>3, <2>1
<1> HIDE DEF P
<1>6. \A n \in 0 .. N : n \in P
  BY <1>1, <1>4, <1>5, Upwards
<1>7. u[N] = t[N] /\ N + 1 \in 1 .. N + 1 /\ (N + 1) - 1 = N
  BY <1>1, <1>6 DEF P
<1>8. u[N + 1] = t[N] + size[h]
  BY <1>1, <1>3, <1>7
<1> QED
  BY <1>1, <1>8 DEF Total, t, u, more

\* Lists cost the same where each of their members does.
LEMMA TotalAgrees ==
  ASSUME NEW size \in [Hit -> Nat], NEW other \in [Hit -> Nat], NEW list \in Seq(Hit),
         \A n \in DOMAIN list : size[list[n]] = other[list[n]]
  PROVE  Total(size, list) = Total(other, list)
<1> DEFINE t == Totals(size, list)
           u == Totals(other, list)
           N == Len(list)
<1>1. N \in Nat /\ DOMAIN list = 1 .. N
  OBVIOUS
<1>2. t[0] = 0 /\ \A n \in 1 .. N : t[n] = t[n - 1] + size[list[n]]
  BY TotalsEquation
<1>3. u[0] = 0 /\ \A n \in 1 .. N : u[n] = u[n - 1] + other[list[n]]
  BY TotalsEquation
<1> HIDE DEF t, u
<1> DEFINE P == {n \in 0 .. N : u[n] = t[n]}
<1>4. 0 \in P
  BY <1>1, <1>2, <1>3
<1>5. ASSUME NEW n \in 1 .. N, n - 1 \in P PROVE n \in P
  <2>1. u[n - 1] = t[n - 1] /\ n \in 0 .. N /\ size[list[n]] = other[list[n]]
    BY <1>1, <1>5
  <2> QED
    BY <1>2, <1>3, <2>1
<1> HIDE DEF P
<1>6. \A n \in 0 .. N : n \in P
  BY <1>1, <1>4, <1>5, Upwards
<1> QED
  BY <1>1, <1>6 DEF P, Total, t, u

\* A context of the first n chunks of the list.
Good(ctx, list, n, budget) ==
  /\ ctx \in [used : Nat, shown : Seq(Hit)]
  /\ ctx.used = Total(Estimate, ctx.shown) /\ ctx.used <= budget
  /\ \A m \in DOMAIN ctx.shown : \E i \in 1 .. n : ctx.shown[m] = list[i]
  /\ \A i \in 1 .. n : \/ \E m \in DOMAIN ctx.shown : ctx.shown[m] = list[i]
                      \/ ctx.used + Estimate[list[i]] > budget

LEMMA AddKeepsGood ==
  ASSUME NEW list \in Seq(Hit), NEW budget \in Nat, NEW n \in 1 .. Len(list), NEW ctx,
         Good(ctx, list, n - 1, budget)
  PROVE  Good(Add(ctx, list[n], budget), list, n, budget)
<1> DEFINE h == list[n]
           new == Add(ctx, h, budget)
<1> SUFFICES Good(new, list, n, budget)
  OBVIOUS
<1>0. /\ n \in Nat /\ h \in Hit /\ Estimate[h] \in Nat /\ Estimate \in [Hit -> Nat]
      /\ \A i \in 1 .. n : list[i] \in Hit /\ Estimate[list[i]] \in Nat
      /\ \A i \in 1 .. n : i = n \/ i \in 1 .. (n - 1)
  BY EstimateType
<1>1. ctx.used \in Nat /\ ctx.shown \in Seq(Hit)
  BY DEF Good
<1>2. CASE ctx.used + Estimate[h] > budget
  <2>1. new = ctx
    BY <1>0, <1>1, <1>2 DEF Add
  <2>2. Good(ctx, list, n, budget)
    BY <1>0, <1>2 DEF Good
  <2> QED
    BY <2>1, <2>2
<1>3. CASE ~(ctx.used + Estimate[h] > budget)
  <2>1. new = [used |-> ctx.used + Estimate[h], shown |-> Append(ctx.shown, h)]
    BY <1>0, <1>1, <1>3 DEF Add
  <2>2. /\ new.used = ctx.used + Estimate[h] /\ new.shown = Append(ctx.shown, h)
        /\ new \in [used : Nat, shown : Seq(Hit)] /\ new.used <= budget
    <3>1. PICK e \in Nat, s \in Seq(Hit), u \in Nat :
            e = Estimate[h] /\ s = ctx.shown /\ u = ctx.used
      BY <1>0, <1>1
    <3>2. u + e <= budget /\ u + e \in Nat
      BY <1>3, <3>1
    <3>3. Append(s, h) \in Seq(Hit)
      BY <1>0
    <3> QED
      BY <2>1, <3>1, <3>2, <3>3
  <2>3. new.used = Total(Estimate, new.shown)
    BY <1>0, <1>1, <2>2, TotalAppend DEF Good
  <2>4. /\ DOMAIN new.shown = 1 .. Len(ctx.shown) + 1 /\ Len(ctx.shown) \in Nat
        /\ DOMAIN ctx.shown = 1 .. Len(ctx.shown)
        /\ new.shown[Len(ctx.shown) + 1] = h
        /\ \A m \in DOMAIN ctx.shown : new.shown[m] = ctx.shown[m]
    <3>1. PICK s \in Seq(Hit) : s = ctx.shown
      BY <1>1
    <3>2. /\ DOMAIN Append(s, h) = 1 .. Len(s) + 1 /\ Len(s) \in Nat /\ DOMAIN s = 1 .. Len(s)
          /\ Append(s, h)[Len(s) + 1] = h
          /\ \A m \in DOMAIN s : Append(s, h)[m] = s[m]
      BY <1>0
    <3> QED
      BY <2>2, <3>1, <3>2
  <2>5. ASSUME NEW m \in DOMAIN new.shown PROVE \E i \in 1 .. n : new.shown[m] = list[i]
    <3>1. m = Len(ctx.shown) + 1 \/ m \in DOMAIN ctx.shown
      BY <2>4
    <3>2. \A j \in 1 .. (n - 1) : j \in 1 .. n
      BY <1>0
    <3> QED
      BY <1>0, <2>4, <3>1, <3>2 DEF Good
  <2>6. ASSUME NEW i \in 1 .. n
        PROVE  \/ \E m \in DOMAIN new.shown : new.shown[m] = list[i]
               \/ new.used + Estimate[list[i]] > budget
    <3>1. CASE i = n
      <4>1. Len(ctx.shown) + 1 \in DOMAIN new.shown
        BY <2>4
      <4> QED
        BY <2>4, <3>1, <4>1
    <3>2. CASE i # n
      <4>1. \/ \E m \in DOMAIN ctx.shown : ctx.shown[m] = list[i]
            \/ ctx.used + Estimate[list[i]] > budget
        BY <1>0, <3>2 DEF Good
      <4>2. \A m \in DOMAIN ctx.shown : m \in DOMAIN new.shown
        BY <2>4
      <4>3. ctx.used + Estimate[list[i]] > budget => new.used + Estimate[list[i]] > budget
        <5>1. PICK e \in Nat, f \in Nat, u \in Nat :
                e = Estimate[list[i]] /\ f = Estimate[h] /\ u = ctx.used
          BY <1>0, <1>1
        <5>2. u + e > budget => (u + f) + e > budget
          OBVIOUS
        <5> QED
          BY <2>2, <5>1, <5>2
      <4> QED
        BY <2>4, <4>1, <4>2, <4>3
    <3> QED
      BY <3>1, <3>2
  <2> HIDE DEF new
  <2> QED
    BY <2>2, <2>3, <2>5, <2>6 DEF Good
<1> QED
  BY <1>2, <1>3

LEMMA Assembled ==
  ASSUME NEW list \in Seq(Hit), NEW budget \in Nat
  PROVE  Good(Assemble(list, budget), list, Len(list), budget)
<1> DEFINE N == Len(list)
           Ctx == [used : Nat, shown : Seq(Hit)]
           empty == [used |-> 0, shown |-> <<>>]
           step == [p \in (1 .. N) \X Ctx |-> Add(p[2], list[p[1]], budget)]
           F(g) == [n \in 0 .. N |-> IF n = 0 THEN empty ELSE Add(g[n - 1], list[n], budget)]
<1>0. N \in Nat
  OBVIOUS
<1>1. Good(empty, list, 0, budget)
  <2>1. <<>> \in Seq(Hit) /\ Len(<<>>) = 0
    OBVIOUS
  <2>2. Totals(Estimate, <<>>)[0] = 0
    BY <2>1, EstimateType, TotalsEquation
  <2> QED
    BY <2>1, <2>2 DEF Good, Total
<1>2. \A n \in 1 .. N, c \in Ctx : step[<<n, c>>] = Add(c, list[n], budget)
  OBVIOUS
<1>3. PICK g : Recurs(g, N, empty, step)
  BY <1>0, Recursion
<1> HIDE DEF step, empty
<1>4. \A n \in 0 .. N : Good(g[n], list, n, budget)
  <2> DEFINE P == {n \in 0 .. N : Good(g[n], list, n, budget)}
  <2>1. 0 \in P
    BY <1>0, <1>1, <1>3 DEF Recurs
  <2>2. ASSUME NEW n \in 1 .. N, n - 1 \in P PROVE n \in P
    <3>1. g[n - 1] \in Ctx
      BY <2>2 DEF Good
    <3>2. g[n] = Add(g[n - 1], list[n], budget)
      BY <1>2, <1>3, <3>1 DEF Recurs
    <3>3. n \in 0 .. N
      BY <1>0
    <3> QED
      BY <2>2, <3>2, <3>3, AddKeepsGood
  <2> HIDE DEF P
  <2>3. \A n \in 0 .. N : n \in P
    BY <1>0, <2>1, <2>2, Upwards
  <2> QED
    BY <2>3 DEF P
<1>5. g = F(g)
  <2>1. ASSUME NEW n \in 0 .. N PROVE g[n] = IF n = 0 THEN empty ELSE Add(g[n - 1], list[n], budget)
    <3>1. CASE n = 0
      BY <1>3, <3>1 DEF Recurs
    <3>2. CASE n # 0
      <4>1. n \in 1 .. N /\ n - 1 \in 0 .. N
        BY <1>0, <3>2
      <4>2. g[n - 1] \in Ctx
        BY <1>4, <4>1 DEF Good
      <4> QED
        BY <1>2, <1>3, <3>2, <4>1, <4>2 DEF Recurs
    <3> QED
      BY <3>1, <3>2
  <2>2. g = [n \in 0 .. N |-> g[n]]
    BY <1>3 DEF Recurs
  <2> QED
    BY <2>1, <2>2
<1> DEFINE c == Contexts(list, budget)
<1>6. c = CHOOSE h : h = F(h)
  BY DEF Contexts, empty
<1> HIDE DEF c, F
<1>7. c = F(c)
  BY <1>5, <1>6
<1>8. \A n \in 0 .. N : Good(c[n], list, n, budget)
  <2> DEFINE P == {n \in 0 .. N : Good(c[n], list, n, budget)}
  <2>1. 0 \in P
    BY <1>0, <1>1, <1>7 DEF F
  <2>2. ASSUME NEW n \in 1 .. N, n - 1 \in P PROVE n \in P
    <3>1. n \in 0 .. N /\ n # 0
      BY <1>0
    <3>2. c[n] = Add(c[n - 1], list[n], budget)
      BY <1>7, <3>1 DEF F
    <3> QED
      BY <2>2, <3>1, <3>2, AddKeepsGood
  <2> HIDE DEF P
  <2>3. \A n \in 0 .. N : n \in P
    BY <1>0, <2>1, <2>2, Upwards
  <2> QED
    BY <2>3 DEF P
<1> QED
  BY <1>0, <1>8 DEF c, Assemble

-----------------------------------------------------------------------------
(* What a search finds.                                                     *)

LEMMA NearestAreRows ==
  ASSUME store \subseteq VectorRow, IsFiniteSet(store), \A r, s \in store : r.at = s.at => r = s,
         NEW key \in Keys, NEW top \in Nat
  PROVE  /\ Nearest(key, top) \in Seq(VectorRow)
         /\ \A n \in DOMAIN Nearest(key, top) : Nearest(key, top)[n] \in store
<1> DEFINE order == Nearer(key, store)
           all == InOrder(store, order)
           k == IF top < Len(all) THEN top ELSE Len(all)
<1>1. \A r \in store : r.at \in Int /\ Likeness[key][r.text] \in Int
  BY QueryConstants DEF VectorRow
<1>2. Orders(order, store)
  <2>1. \A r, s \in store : <<r, s>> \in order <=>
          \/ Likeness[key][r.text] > Likeness[key][s.text]
          \/ Likeness[key][r.text] = Likeness[key][s.text] /\ r.at < s.at
    BY DEF Nearer
  <2> HIDE DEF order
  <2>2. \A r, s \in store : <<r, s>> \in order => <<s, r>> \notin order
    BY <1>1, <2>1
  <2>3. \A r, s, t \in store : <<r, s>> \in order /\ <<s, t>> \in order => <<r, t>> \in order
    BY <1>1, <2>1
  <2>4. \A r, s \in store : r = s \/ <<r, s>> \in order \/ <<s, r>> \in order
    <3> TAKE r, s \in store
    <3>1. r.at < s.at \/ s.at < r.at \/ r = s
      BY <1>1
    <3> QED
      BY <1>1, <2>1, <3>1
  <2> QED
    BY <2>2, <2>3, <2>4 DEF Orders
<1> HIDE DEF order
<1>3. all \in Seq(store) /\ Len(all) \in Nat /\ \A i \in 1 .. Len(all) : all[i] \in store
  BY <1>2, ListInOrder
<1>4. Nearest(key, top) = SubSeq(all, 1, k)
  BY DEF Nearest, order
<1> HIDE DEF all
<1>5. k \in 0 .. Len(all)
  BY <1>3
<1> HIDE DEF k
<1>6. /\ SubSeq(all, 1, k) \in Seq(store) /\ DOMAIN SubSeq(all, 1, k) = 1 .. k
      /\ \A n \in 1 .. k : SubSeq(all, 1, k)[n] = all[n] /\ all[n] \in store
  BY <1>3, <1>5
<1>7. \A S, T : S \subseteq T => Seq(S) \subseteq Seq(T)
  OBVIOUS
<1>8. SubSeq(all, 1, k) \in Seq(VectorRow)
  BY <1>6, <1>7
<1> QED
  BY <1>4, <1>6, <1>8

-----------------------------------------------------------------------------
(* What is in an answer.                                                    *)

Types ==
  /\ chunkRows \in [ChunkIds -> Texts \cup {Nil}] /\ held \in [ChunkIds -> SUBSET Texts]
  /\ store \subseteq VectorRow /\ IsFiniteSet(store) /\ \A r, s \in store : r.at = s.at => r = s
  /\ \A i \in marked : i \in ChunkIds /\ chunkRows[i] # Nil
  /\ cache \in [Keys -> CacheEntry \cup {Nil}] /\ clock \in 0 .. MaxTime
  /\ pc \in [Askers -> Steps] /\ ask \in [Askers -> Request \cup {Nil}]
  /\ hits \in [Askers -> Seq(VectorRow)] /\ found \in [Askers -> Seq(Hit)]
  /\ got \in [Askers -> Response \cup {Nil}]
  /\ from \in [Askers -> {"live", "exact", "semantic"}]

\* What both stores say of an id is about a text that has had it.
Had ==
  /\ \A i \in ChunkIds : chunkRows[i] # Nil => chunkRows[i] \in held[i]
  /\ \A r \in store : r.text \in held[r.id]

\* So is what an answer shows, text and lines.
Known(response) ==
  \A n \in DOMAIN response.shown : LET h == response.shown[n] IN
    h.text \in held[h.id] /\ h.lines \in held[h.id] \cup {Nil}

\* An asker: until it assembles it has no answer; what it stores shows something;
\* its rows and its answer are of texts that have had their ids; and the answer it
\* assembled is that of what it found.
Holds(a) ==
  /\ pc[a] \in {"counts", "exact", "embed", "semantic", "search", "enrich", "store"} => ask[a] # Nil
  /\ pc[a] = "idle" => ask[a] = Nil
  /\ pc[a] \in {"idle", "counts", "exact", "embed", "semantic", "search", "enrich"}
       => got[a] = Nil /\ found[a] = <<>>
  /\ pc[a] = "store" => got[a] # Nil /\ got[a].shown # <<>>
  /\ \A n \in DOMAIN hits[a] : hits[a][n].text \in held[hits[a][n].id]
  /\ Fresh(a) => got[a].shown = Assemble(found[a], ask[a].budget).shown
  /\ got[a] # Nil => Known(got[a])

ContentInv ==
  /\ Types /\ Had
  /\ \A a \in Askers : Holds(a)
  /\ \A k \in Keys : cache[k] # Nil => Known(cache[k].response)

LEMMA ContentStarts == QueryInit => ContentInv
<1> SUFFICES ASSUME QueryInit PROVE ContentInv
  OBVIOUS
<1>1. Types
  <2>1. <<>> \in Seq(VectorRow) /\ <<>> \in Seq(Hit)
    OBVIOUS
  <2>2. \A i \in ChunkIds : i \in 1 .. MaxRows
    BY QueryConstants DEF ChunkIds
  <2>3. \A i \in marked : [id |-> i, text |-> chunkRows[i], at |-> i] \in VectorRow
    BY <2>2 DEF QueryInit, VectorRow
  <2>4. store \subseteq VectorRow /\ \A r, s \in store : r.at = s.at => r = s
    BY <2>3 DEF QueryInit
  <2>5. IsFiniteSet(store)
    <3> DEFINE row == [i \in marked |-> [id |-> i, text |-> chunkRows[i], at |-> i]]
    <3>1. 1 \in Int /\ MaxId \in Int
      BY QueryConstants
    <3>2. IsFiniteSet(marked)
      BY <3>1, FS_Interval, FS_Subset DEF ChunkIds, QueryInit
    <3>3. row \in Surjection(marked, store)
      BY DEF Surjection, QueryInit
    <3> QED
      BY <3>2, <3>3, FS_Surjection
  <2>6. held \in [ChunkIds -> SUBSET Texts]
    BY DEF QueryInit
  <2> QED
    BY <2>1, <2>4, <2>5, <2>6, QueryConstants DEF QueryInit, Types, Steps
<1>3. Had
  BY DEF QueryInit, Had
<1>2. ASSUME NEW a \in Askers PROVE Holds(a)
  BY DEF QueryInit, Holds, Fresh
<1> QED
  BY <1>1, <1>2, <1>3 DEF QueryInit, ContentInv

\* A step of one asker, or of none, that leaves the tables alone.
LEMMA OneHolds ==
  ASSUME ContentInv, NEW a \in Askers, UNCHANGED tables, Types',
         \A b \in Askers \ {a} : /\ pc'[b] = pc[b] /\ ask'[b] = ask[b] /\ hits'[b] = hits[b]
                                 /\ found'[b] = found[b] /\ got'[b] = got[b]
                                 /\ from'[b] = from[b],
         Holds(a)',
         \A k \in Keys : cache'[k] # Nil => \/ cache'[k] = cache[k]
                                             \/ Known(cache'[k].response)
  PROVE  ContentInv'
<1>1. ASSUME NEW b \in Askers \ {a} PROVE Holds(b)'
  BY <1>1 DEF ContentInv, Holds, Fresh, Known, tables
<1>2. ASSUME NEW k \in Keys, cache'[k] # Nil PROVE Known(cache[k].response)'
  BY <1>2 DEF ContentInv, Known, tables
<1>3. Had'
  BY DEF ContentInv, Had, tables
<1> QED
  BY <1>1, <1>2, <1>3 DEF ContentInv

\* The cache keeps, or loses, what it has.
LEMMA FewerHolds ==
  ASSUME ContentInv, UNCHANGED <<tables, locals>>, clock' \in 0 .. MaxTime,
         cache' \in [Keys -> CacheEntry \cup {Nil}],
         \A k \in Keys : cache'[k] \in {cache[k], Nil}
  PROVE  ContentInv'
<1>1. Types'
  BY DEF ContentInv, Types, tables, locals
<1>2. ASSUME NEW a \in Askers PROVE Holds(a)'
  BY DEF ContentInv, Holds, Fresh, Known, tables, locals
<1>3. Had' /\ \A k \in Keys : cache'[k] # Nil => Known(cache[k].response)'
  BY DEF ContentInv, Had, Known, tables
<1> QED
  BY <1>1, <1>2, <1>3 DEF ContentInv

\* An index run moves the stores; an id never loses a text that has had it.
LEMMA MovedHolds ==
  ASSUME ContentInv, IndexMoves,
         chunkRows' \in [ChunkIds -> Texts \cup {Nil}], held' \in [ChunkIds -> SUBSET Texts],
         store' \subseteq VectorRow, IsFiniteSet(store'), \A r, s \in store' : r.at = s.at => r = s,
         \A i \in marked' : i \in ChunkIds /\ chunkRows'[i] # Nil,
         \A i \in ChunkIds : held[i] \subseteq held'[i],
         \A i \in ChunkIds : chunkRows'[i] # Nil => chunkRows'[i] \in held'[i],
         \A r \in store' : r.text \in held'[r.id]
  PROVE  ContentInv'
<1>1. Types' /\ Had'
  BY DEF ContentInv, Types, Had, IndexMoves, locals
<1>2. ASSUME NEW response \in Response, Known(response), NEW n \in DOMAIN response.shown
      PROVE  LET h == response.shown[n] IN
             h.text \in held'[h.id] /\ h.lines \in held'[h.id] \cup {Nil}
  <2>1. PICK s \in Seq(Hit) : s = response.shown
    BY DEF Response
  <2>2. s[n] \in Hit
    BY <2>1
  <2>3. response.shown[n].id \in ChunkIds
    BY <2>1, <2>2 DEF Hit
  <2> QED
    BY <1>2, <2>3 DEF Known
<1>3. ASSUME NEW a \in Askers PROVE Holds(a)'
  <2>1. /\ pc' = pc /\ ask' = ask /\ hits' = hits /\ found' = found /\ got' = got /\ from' = from
    BY DEF IndexMoves, locals
  <2>2. \A n \in DOMAIN hits[a] : hits[a][n].id \in ChunkIds
    <3>1. PICK s \in Seq(VectorRow) : s = hits[a]
      BY DEF ContentInv, Types
    <3>2. \A n \in DOMAIN s : s[n] \in VectorRow
      OBVIOUS
    <3> QED
      BY <3>1, <3>2 DEF VectorRow
  <2>3. \A n \in DOMAIN hits[a] : hits[a][n].text \in held'[hits[a][n].id]
    BY <2>2 DEF ContentInv, Holds
  <2>4. got[a] # Nil => got[a] \in Response /\ Known(got[a])
    BY DEF ContentInv, Holds, Types
  <2>5. got'[a] # Nil => Known(got[a])'
    BY <1>2, <2>1, <2>4 DEF Known
  <2> QED
    BY <2>1, <2>3, <2>5 DEF ContentInv, Holds, Fresh
<1>4. ASSUME NEW k \in Keys, cache'[k] # Nil PROVE Known(cache[k].response)'
  <2>1. cache' = cache /\ cache[k].response \in Response /\ Known(cache[k].response)
    BY <1>4 DEF IndexMoves, ContentInv, Types, CacheEntry
  <2> QED
    BY <1>2, <2>1 DEF Known
<1> QED
  BY <1>1, <1>3, <1>4 DEF ContentInv

LEMMA ReindexHolds ==
  ASSUME ContentInv, NEW old \in ChunkIds \cup {Nil}, NEW text \in Texts \cup {Nil}, Reindex(old, text)
  PROVE  ContentInv'
<1> DEFINE kept == [i \in ChunkIds |-> IF i = old THEN Nil ELSE chunkRows[i]]
           new  == NextRowid(kept)
<1>1. /\ text = Nil \/ new \in ChunkIds
      /\ chunkRows' = IF text = Nil THEN kept ELSE [kept EXCEPT ![new] = text]
      /\ marked' = marked \ {old} /\ store' = store /\ IndexMoves
      /\ held' = IF text = Nil THEN held ELSE [held EXCEPT ![new] = @ \cup {text}]
  BY DEF Reindex
<1>2. kept \in [ChunkIds -> Texts \cup {Nil}] /\ \A i \in ChunkIds : kept[i] \in {chunkRows[i], Nil}
  BY DEF ContentInv, Types
<1>3. \A i \in marked' : i \in ChunkIds /\ kept[i] # Nil
  BY <1>1 DEF ContentInv, Types
<1> HIDE DEF kept, new
<1>4. chunkRows' \in [ChunkIds -> Texts \cup {Nil}] /\ \A i \in marked' : i \in ChunkIds /\ chunkRows'[i] # Nil
  BY <1>1, <1>2, <1>3
<1>5. /\ held \in [ChunkIds -> SUBSET Texts] /\ held' \in [ChunkIds -> SUBSET Texts]
      /\ \A i \in ChunkIds : held[i] \subseteq held'[i]
  BY <1>1 DEF ContentInv, Types
<1>6. \A i \in ChunkIds : chunkRows'[i] # Nil => chunkRows'[i] \in held'[i]
  <2>1. \A i \in ChunkIds : kept[i] # Nil => kept[i] \in held'[i]
    BY <1>2, <1>5 DEF ContentInv, Had
  <2> QED
    BY <1>1, <1>2, <1>5, <2>1
<1>7. store \subseteq VectorRow /\ IsFiniteSet(store) /\ \A r, s \in store : r.at = s.at => r = s
  BY DEF ContentInv, Types
<1>8. \A r \in store : r.text \in held'[r.id]
  BY <1>5, <1>7 DEF ContentInv, Had, VectorRow
<1> QED
  BY <1>1, <1>4, <1>5, <1>6, <1>7, <1>8, MovedHolds

LEMMA UpsertHolds ==
  ASSUME ContentInv, NEW i \in ChunkIds, Upsert(i)
  PROVE  ContentInv'
<1>1. PICK at \in 1 .. MaxRows :
        /\ \A r \in store : r.at < at
        /\ store' = store \cup {[id |-> i, text |-> chunkRows[i], at |-> at]}
  BY DEF Upsert
<1>2. chunkRows[i] # Nil /\ UNCHANGED <<chunkRows, marked, held>> /\ IndexMoves
  BY DEF Upsert
<1> DEFINE row == [id |-> i, text |-> chunkRows[i], at |-> at]
<1>3. row \in VectorRow /\ row.text \in held[row.id] /\ row.at = at
  BY <1>2 DEF ContentInv, Types, Had, VectorRow
<1> HIDE DEF row
<1>4. store' = store \cup {row} /\ \A r \in store : r.at \in Int /\ r.at < at
  BY <1>1 DEF row, ContentInv, Types, VectorRow
<1>5. store' \subseteq VectorRow /\ \A r, s \in store' : r.at = s.at => r = s
  <2>1. \A r \in store : r.at # at
    BY <1>4
  <2> QED
    BY <1>3, <1>4, <2>1 DEF ContentInv, Types
<1>6. IsFiniteSet(store')
  BY <1>4, FS_AddElement DEF ContentInv, Types
<1>7. \A r \in store' : r.text \in held[r.id]
  BY <1>3, <1>4 DEF ContentInv, Had
<1> QED
  BY <1>2, <1>5, <1>6, <1>7, MovedHolds DEF ContentInv, Types, Had

LEMMA DropOrphansHolds ==
  ASSUME ContentInv, DropOrphans
  PROVE  ContentInv'
<1>1. store' \subseteq store /\ UNCHANGED <<chunkRows, marked, held>> /\ IndexMoves
  BY DEF DropOrphans
<1>2. IsFiniteSet(store')
  BY <1>1, FS_Subset DEF ContentInv, Types
<1> QED
  BY <1>1, <1>2, MovedHolds DEF ContentInv, Types, Had

LEMMA MarkHolds ==
  ASSUME ContentInv, NEW i \in ChunkIds, Mark(i)
  PROVE  ContentInv'
<1>1. /\ marked' = marked \cup {i} /\ chunkRows[i] # Nil
      /\ UNCHANGED <<chunkRows, store, held>> /\ IndexMoves
  BY DEF Mark
<1>2. /\ \A j \in marked' : j \in ChunkIds /\ chunkRows'[j] # Nil
      /\ \A j \in ChunkIds : held[j] \subseteq held'[j]
  BY <1>1 DEF ContentInv, Types
<1> QED
  BY <1>1, <1>2, MovedHolds DEF ContentInv, Types, Had

LEMMA PurgedHolds ==
  ASSUME ContentInv
  PROVE  Purged \in [Keys -> CacheEntry \cup {Nil}] /\ \A k \in Keys : Purged[k] \in {cache[k], Nil}
  BY DEF ContentInv, Types, Purged

LEMMA ForgetHolds ==
  ASSUME ContentInv, NEW a \in Askers, Forget(a)
  PROVE  ContentInv'
<1>1. <<>> \in Seq(VectorRow) /\ <<>> \in Seq(Hit)
  OBVIOUS
<1>2. Types'
  BY <1>1 DEF ContentInv, Types, Forget, Goto, Steps, tables
<1>3. Holds(a)'
  BY DEF ContentInv, Types, Forget, Goto, Holds, Fresh
<1> QED
  BY <1>2, <1>3, OneHolds DEF ContentInv, Types, Forget, Goto

LEMMA PassHolds ==
  ASSUME ContentInv, NEW a \in Askers, NEW l \in Steps, Pass(a, l), ~At(a, "idle"),
         \/ l \in {"purge", "answer"}
         \/ l \in {"counts", "exact", "embed", "semantic", "search"} /\ ask[a] # Nil
            /\ pc[a] \in {"counts", "exact", "embed", "semantic"}
  PROVE  ContentInv'
<1>1. Types'
  BY DEF ContentInv, Types, Pass, Goto, others, tables
<1>2. Holds(a)'
  BY DEF ContentInv, Types, Pass, Goto, Holds, Fresh, Known, others, tables, At
<1> QED
  BY <1>1, <1>2, OneHolds DEF ContentInv, Types, Pass, Goto, others

LEMMA TakeHolds ==
  ASSUME ContentInv, NEW a \in Askers, NEW key \in Keys, cache[key] # Nil, ask[a] # Nil,
         NEW how \in {"exact", "semantic"}, Take(a, key, how)
  PROVE  ContentInv'
<1>0. cache[key].response \in Response /\ Known(cache[key].response)
  BY DEF ContentInv, Types, CacheEntry
<1>1. Types'
  BY <1>0 DEF ContentInv, Types, Take, Goto, Steps, others, tables
<1>2. Holds(a)'
  BY <1>0 DEF ContentInv, Types, Take, Goto, Holds, Fresh, Known, others, tables
<1> QED
  BY <1>1, <1>2, OneHolds DEF ContentInv, Types, Take, Goto, others

LEMMA AskHolds ==
  ASSUME ContentInv, NEW a \in Askers, Ask(a)
  PROVE  ContentInv'
<1>1. PICK request \in Request :
        /\ ask' = [ask EXCEPT ![a] = request]
        /\ pc' = [pc EXCEPT ![a] = IF a = Daemon THEN First(request) ELSE "counts"]
  BY DEF Ask, Goto
<1>2. /\ UNCHANGED <<tables, cache, clock, hits, found, got, from>> /\ request # Nil
      /\ pc[a] = "idle" /\ First(request) \in {"exact", "embed"}
  BY QueryConstants DEF Ask, At, First
<1>3. Types'
  BY <1>1, <1>2 DEF ContentInv, Types, Steps, tables
<1>4. Holds(a)'
  BY <1>1, <1>2 DEF ContentInv, Types, Holds, Fresh, Known, tables
<1> QED
  BY <1>1, <1>2, <1>3, <1>4, OneHolds DEF ContentInv, Types

LEMMA SearchHolds ==
  ASSUME ContentInv, NEW a \in Askers, Search(a)
  PROVE  ContentInv'
<1> DEFINE rows == Nearest(ask[a].key, ask[a].top)
           none == [for |-> ask[a].key, shown |-> <<>>]
<1>1. /\ pc[a] = "search" /\ hits' = [hits EXCEPT ![a] = rows]
      /\ got' = [got EXCEPT ![a] = IF rows = <<>> THEN none ELSE Nil]
      /\ pc' = [pc EXCEPT ![a] = IF rows = <<>> THEN "answer" ELSE "enrich"]
      /\ UNCHANGED <<tables, cache, clock, ask, found, from>>
  BY DEF Search, Goto, At
<1>2. ask[a] \in Request /\ ask[a] # Nil /\ ask[a].key \in Keys /\ ask[a].top \in Nat /\ ask[a].budget \in Nat
  BY <1>1, QueryConstants DEF ContentInv, Types, Holds, Request
<1>3. /\ rows \in Seq(VectorRow)
      /\ \A n \in DOMAIN rows : rows[n].text \in held[rows[n].id]
  BY <1>2, NearestAreRows DEF ContentInv, Types, Had
<1>4. none \in Response /\ Known(none) /\ none # Nil
  <2>3. none \in Response /\ DOMAIN none.shown = {}
    BY <1>2 DEF Response
  <2> HIDE DEF none
  <2> QED
    BY <2>3, QueryConstants DEF Known
<1>5. found[a] = <<>> /\ got[a] = Nil
  BY <1>1 DEF ContentInv, Holds
<1>6. Assemble(<<>>, ask[a].budget).shown = <<>>
  <2>1. <<>> \in Seq(Hit) /\ Len(<<>>) = 0
    OBVIOUS
  <2>2. PICK c : c = Assemble(<<>>, ask[a].budget) /\ Good(c, <<>>, 0, ask[a].budget)
    BY <1>2, <2>1, Assembled
  <2>3. PICK s \in Seq(Hit) : s = c.shown
    BY <2>2 DEF Good
  <2>4. DOMAIN s = {}
    BY <2>2, <2>3 DEF Good
  <2>5. s = <<>>
    BY <2>4
  <2> QED
    BY <2>2, <2>3, <2>5
<1> HIDE DEF rows, none
<1>7. none.shown = <<>>
  BY DEF none
<1>8. Types'
  BY <1>1, <1>3, <1>4 DEF ContentInv, Types, Steps, tables
<1>9. \A n \in DOMAIN hits'[a] : hits'[a][n].text \in held'[hits'[a][n].id]
  <2>1. hits'[a] = rows /\ held' = held
    BY <1>1 DEF ContentInv, Types, tables
  <2> QED
    BY <1>3, <2>1
<1>10. CASE rows = <<>>
  <2>1. /\ pc'[a] = "answer" /\ got'[a] = none /\ ask'[a] = ask[a] /\ found'[a] = <<>>
    BY <1>1, <1>5, <1>10 DEF ContentInv, Types
  <2>2. Holds(a)'
    BY <1>1, <1>2, <1>4, <1>6, <1>7, <1>9, <2>1 DEF Holds, Fresh, Known, tables
  <2> QED
    BY <1>1, <1>8, <2>2, OneHolds DEF ContentInv, Types
<1>11. CASE rows # <<>>
  <2>1. /\ pc'[a] = "enrich" /\ got'[a] = Nil /\ ask'[a] = ask[a] /\ found'[a] = <<>>
    BY <1>1, <1>5, <1>11 DEF ContentInv, Types
  <2> QED
    BY <1>1, <1>2, <1>8, <1>9, <2>1, OneHolds DEF ContentInv, Types, Holds, Fresh
<1> QED
  BY <1>10, <1>11

LEMMA EnrichHolds ==
  ASSUME ContentInv, NEW a \in Askers, Enrich(a)
  PROVE  ContentInv'
<1> DEFINE list  == WithLines(hits[a])
           shown == Assemble(list, ask[a].budget).shown
           new   == [for |-> ask[a].key, shown |-> shown]
<1>1. /\ pc[a] = "enrich"
      /\ found' = [found EXCEPT ![a] = list] /\ got' = [got EXCEPT ![a] = new]
      /\ pc' = [pc EXCEPT ![a] = IF ask[a].cached /\ shown # <<>> THEN "store" ELSE "answer"]
      /\ UNCHANGED <<tables, cache, clock, ask, hits, from>>
  BY DEF Enrich, Goto, At
<1>2. ask[a] \in Request /\ ask[a] # Nil /\ ask[a].key \in Keys /\ ask[a].budget \in Nat
  BY <1>1, QueryConstants DEF ContentInv, Types, Holds, Request
<1>3. /\ list \in Seq(Hit) /\ DOMAIN list = DOMAIN hits[a] /\ DOMAIN list = 1 .. Len(list)
      /\ \A n \in DOMAIN list : /\ list[n].text \in held[list[n].id]
                               /\ list[n].lines \in held[list[n].id] \cup {Nil}
  <2>1. PICK h \in Seq(VectorRow) : h = hits[a]
    BY DEF ContentInv, Types
  <2>2. \A n \in DOMAIN h : h[n] \in VectorRow
    OBVIOUS
  <2>3. \A n \in DOMAIN h : [id |-> h[n].id, text |-> h[n].text, lines |-> chunkRows[h[n].id]] \in Hit
    BY <2>2 DEF ContentInv, Types, Hit, VectorRow
  <2>4. list = [n \in DOMAIN h |-> [id |-> h[n].id, text |-> h[n].text, lines |-> chunkRows[h[n].id]]]
    BY <2>1 DEF WithLines
  <2>5. DOMAIN h = 1 .. Len(h) /\ Len(h) \in Nat
    OBVIOUS
  <2>6. \A n \in DOMAIN h : /\ h[n].id \in ChunkIds /\ h[n].text \in held[h[n].id]
                           /\ chunkRows[h[n].id] \in held[h[n].id] \cup {Nil}
    BY <2>1, <2>2 DEF ContentInv, Types, Holds, Had, VectorRow
  <2>7. list \in Seq(Hit) /\ DOMAIN list = DOMAIN h /\ Len(list) = Len(h)
    BY <2>3, <2>4, <2>5
  <2>8. \A n \in DOMAIN h : /\ list[n].id = h[n].id /\ list[n].text = h[n].text
                           /\ list[n].lines = chunkRows[h[n].id]
    BY <2>4
  <2> QED
    BY <2>1, <2>5, <2>6, <2>7, <2>8
<1> HIDE DEF list
<1>4. PICK c : c = Assemble(list, ask[a].budget) /\ Good(c, list, Len(list), ask[a].budget)
  BY <1>2, <1>3, Assembled
<1>5. shown = c.shown /\ shown \in Seq(Hit) /\ \A m \in DOMAIN shown : \E i \in DOMAIN list : shown[m] = list[i]
  BY <1>3, <1>4 DEF Good
<1> HIDE DEF shown
<1>6. /\ new \in Response /\ new # Nil /\ new.shown = shown
  <2>1. new \in Response
    BY <1>2, <1>5 DEF Response
  <2> QED
    BY <2>1, QueryConstants
<1> HIDE DEF new
<1>7. Known(new)
  <2> SUFFICES ASSUME NEW m \in DOMAIN shown
      PROVE  shown[m].text \in held[shown[m].id] /\ shown[m].lines \in held[shown[m].id] \cup {Nil}
    BY <1>6 DEF Known
  <2>1. PICK i \in DOMAIN list : shown[m] = list[i]
    BY <1>5
  <2> QED
    BY <1>3, <2>1
<1>8. Types'
  BY <1>1, <1>3, <1>6 DEF ContentInv, Types, Steps, tables
<1>9. /\ pc'[a] \in {"store", "answer"} /\ (pc'[a] = "store" => shown # <<>>)
      /\ got'[a] = new /\ found'[a] = list /\ ask'[a] = ask[a]
  BY <1>1 DEF ContentInv, Types
<1>10. Holds(a)'
  BY <1>1, <1>2, <1>6, <1>7, <1>9 DEF ContentInv, Holds, Fresh, Known, shown, tables
<1> QED
  BY <1>1, <1>8, <1>10, OneHolds DEF ContentInv, Types

\* What is put in the cache is an entry of it.
LEMMA PutHolds ==
  ASSUME ContentInv, NEW key \in Keys, NEW response \in Response, Put(key, response)
  PROVE  /\ cache' \in [Keys -> CacheEntry \cup {Nil}] /\ cache'[key].response = response
         /\ \A k \in Keys \ {key} : cache'[k] = cache[k]
<1>1. Expiry \in Nat \cup {Nil}
  BY QueryConstants DEF ContentInv, Types, Expiry
<1>2. [response |-> response, expires |-> Expiry, vector |-> Semantic] \in CacheEntry
  BY <1>1, QueryConstants DEF CacheEntry
<1> QED
  BY <1>2 DEF Put, ContentInv, Types

LEMMA StoreHolds ==
  ASSUME ContentInv, NEW a \in Askers, Store(a)
  PROVE  ContentInv'
<1>1. pc[a] = "store" /\ Put(ask[a].key, got[a]) /\ pc' = [pc EXCEPT ![a] = "purge"]
      /\ UNCHANGED <<tables, clock, ask, hits, found, got, from>>
  BY DEF Store, At, Goto, others
<1>2. ask[a].key \in Keys /\ got[a] \in Response /\ Known(got[a])
  BY <1>1 DEF ContentInv, Types, Holds, Request
<1>3. /\ cache' \in [Keys -> CacheEntry \cup {Nil}] /\ cache'[ask[a].key].response = got[a]
      /\ \A k \in Keys \ {ask[a].key} : cache'[k] = cache[k]
  BY <1>1, <1>2, PutHolds
<1>4. Types'
  BY <1>1, <1>3 DEF ContentInv, Types, Steps, tables
<1>5. Holds(a)'
  BY <1>1 DEF ContentInv, Types, Holds, Fresh, Known, tables
<1>6. \A k \in Keys : cache'[k] # Nil => cache'[k] = cache[k] \/ Known(cache'[k].response)
  BY <1>2, <1>3
<1> QED
  BY <1>1, <1>4, <1>5, <1>6, OneHolds DEF ContentInv, Types

LEMMA StoreGivenHolds ==
  ASSUME ContentInv, NEW key \in Keys, StoreGiven(key)
  PROVE  ContentInv'
<1> DEFINE given == [for |-> key, shown |-> <<>>]
<1>1. /\ Daemon \in Askers /\ pc[Daemon] = "idle" /\ Put(key, given)
      /\ pc' = [pc EXCEPT ![Daemon] = "purge"] /\ got' = [got EXCEPT ![Daemon] = given]
      /\ UNCHANGED <<tables, clock, ask, hits, found, from>>
  BY QueryConstants DEF StoreGiven, At, Goto
<1>2. given \in Response /\ Known(given)
  BY DEF Response, Known
<1> HIDE DEF given
<1>3. /\ cache' \in [Keys -> CacheEntry \cup {Nil}] /\ cache'[key].response = given
      /\ \A k \in Keys \ {key} : cache'[k] = cache[k]
  BY <1>1, <1>2, PutHolds
<1>4. Types'
  BY <1>1, <1>2, <1>3 DEF ContentInv, Types, Steps, tables
<1>5. Holds(Daemon)'
  BY <1>1, <1>2 DEF ContentInv, Types, Holds, Fresh, Known, tables
<1>6. \A k \in Keys : cache'[k] # Nil => cache'[k] = cache[k] \/ Known(cache'[k].response)
  BY <1>2, <1>3
<1> QED
  BY <1>1, <1>4, <1>5, <1>6, OneHolds DEF ContentInv, Types

LEMMA PurgeAfterStoreHolds ==
  ASSUME ContentInv, NEW a \in Askers, PurgeAfterStore(a)
  PROVE  ContentInv'
<1>1. /\ pc[a] = "purge" /\ cache' = Purged /\ pc' = [pc EXCEPT ![a] = "answer"]
      /\ UNCHANGED <<tables, clock, ask, hits, found, got, from>>
  BY DEF PurgeAfterStore, At, Goto, others
<1>2. /\ cache' \in [Keys -> CacheEntry \cup {Nil}]
      /\ \A k \in Keys : cache'[k] # Nil => cache'[k] = cache[k] \/ Known(cache'[k].response)
  BY <1>1, PurgedHolds
<1>3. Types'
  BY <1>1, <1>2 DEF ContentInv, Types, Steps, tables
<1>4. Holds(a)'
  BY <1>1 DEF ContentInv, Types, Holds, Fresh, Known, tables
<1> QED
  BY <1>1, <1>2, <1>3, <1>4, OneHolds DEF ContentInv, Types

LEMMA StepHolds ==
  ASSUME ContentInv, NEW a \in Askers, QueryStep(a) \/ CacheFails(a) \/ Abort(a)
  PROVE  ContentInv'
<1>0. {"counts", "exact", "embed", "semantic", "search", "purge", "answer"} \subseteq Steps
  BY DEF Steps
<1>1. CASE Counts(a)
  <2>1. pc[a] = "counts" /\ ask[a] # Nil /\ First(ask[a]) \in {"exact", "embed"}
    BY <1>1 DEF Counts, At, ContentInv, Holds, First
  <2> QED
    BY <1>0, <1>1, <2>1, PassHolds, ForgetHolds DEF Counts, At
<1>2. CASE LookupExact(a)
  <2>1. pc[a] = "exact" /\ ask[a] # Nil /\ ask[a].key \in Keys
    BY <1>2 DEF LookupExact, At, ContentInv, Holds, Types, Request
  <2>2. \/ Pass(a, "embed")
        \/ cache[ask[a].key] # Nil /\ Take(a, ask[a].key, "exact")
    BY <1>2 DEF LookupExact, Live
  <2> QED
    BY <1>0, <2>1, <2>2, PassHolds, TakeHolds DEF At
<1>3. CASE EmbedQuestion(a)
  <2>1. pc[a] = "embed" /\ ask[a] # Nil
    BY <1>3 DEF EmbedQuestion, At, ContentInv, Holds
  <2>2. Pass(a, "semantic") \/ Pass(a, "search")
    BY <1>3 DEF EmbedQuestion
  <2> QED
    BY <1>0, <2>1, <2>2, PassHolds DEF At
<1>4. CASE LookupSemantic(a)
  <2>1. pc[a] = "semantic" /\ ask[a] # Nil /\ ask[a].key \in Keys
    BY <1>4 DEF LookupSemantic, At, ContentInv, Holds, Types, Request
  <2>2. \/ Pass(a, "search")
        \/ cache[ask[a].key] # Nil /\ Take(a, ask[a].key, "exact")
        \/ \E k \in Likest(ask[a].key) : Take(a, k, "semantic")
    BY <1>4 DEF LookupSemantic, Live
  <2>3. \A k \in Likest(ask[a].key) : k \in Keys /\ cache[k] # Nil
    BY DEF Likest, Live
  <2> QED
    BY <1>0, <2>1, <2>2, <2>3, PassHolds, TakeHolds DEF At
<1>5. CASE CacheFails(a)
  <2>1. \/ pc[a] = "exact" /\ Pass(a, "embed")
        \/ pc[a] = "semantic" /\ Pass(a, "search")
        \/ pc[a] = "store" /\ Pass(a, "purge")
        \/ pc[a] = "purge" /\ Pass(a, "answer")
    BY <1>5 DEF CacheFails, At
  <2>2. pc[a] \in {"exact", "semantic"} => ask[a] # Nil
    BY DEF ContentInv, Holds
  <2> QED
    BY <1>0, <2>1, <2>2, PassHolds DEF At
<1> QED
  BY <1>1, <1>2, <1>3, <1>4, <1>5, SearchHolds, EnrichHolds, StoreHolds, PurgeAfterStoreHolds,
     ForgetHolds DEF QueryStep, Answer, Abort

LEMMA ContentNext == ContentInv /\ [QueryNext]_queryVars => ContentInv'
<1> SUFFICES ASSUME ContentInv, [QueryNext]_queryVars PROVE ContentInv'
  OBVIOUS
<1>0. /\ cache \in [Keys -> CacheEntry \cup {Nil}] /\ clock \in 0 .. MaxTime
  BY DEF ContentInv, Types
<1>1. CASE UNCHANGED queryVars
  BY <1>0, <1>1, FewerHolds DEF queryVars
<1>2. CASE ClockTick
  <2>1. clock' \in 0 .. MaxTime
    BY <1>0, <1>2, QueryConstants DEF ClockTick
  <2> QED
    BY <1>0, <1>2, <2>1, FewerHolds DEF ClockTick
<1>3. CASE ClearCache
  BY <1>0, <1>3, FewerHolds DEF ClearCache
<1>4. CASE PurgeCache
  BY <1>0, <1>4, FewerHolds, PurgedHolds DEF PurgeCache
<1>5. CASE DropOrphans
  BY <1>5, DropOrphansHolds
<1>6. CASE \E i \in ChunkIds : Upsert(i) \/ Mark(i)
  BY <1>6, UpsertHolds, MarkHolds
<1> QED
  BY <1>1, <1>2, <1>3, <1>4, <1>5, <1>6, ReindexHolds, AskHolds, StepHolds, StoreGivenHolds DEF QueryNext

LEMMA ContentKept == QuerySpec => []ContentInv
  BY ContentStarts, ContentNext, PTL DEF QuerySpec

\* Every variable keeps its type, whatever the index and others do meanwhile.
THEOREM TypeCorrect == QuerySpec => []QueryTypeOK
<1>1. ContentInv => QueryTypeOK
  BY DEF ContentInv, Types, Holds, QueryTypeOK, At
<1> QED
  BY <1>1, ContentKept, PTL

\* A context keeps to its budget and what it leaves out does not fit, for any
\* hits, budget and estimates: assemble skips, it does not stop.
THEOREM BudgetIsFilledCorrect == QuerySpec => []BudgetIsFilled
<1>1. ASSUME ContentInv PROVE BudgetIsFilled
  <2> SUFFICES ASSUME NEW a \in Askers, Fresh(a)
      PROVE  LET used == Total(Estimate, got[a].shown) IN
             /\ used <= ask[a].budget
             /\ \A n \in DOMAIN found[a] :
                  \/ \E m \in DOMAIN got[a].shown : got[a].shown[m] = found[a][n]
                  \/ used + Estimate[found[a][n]] > ask[a].budget
    BY DEF BudgetIsFilled
  <2>1. ask[a].budget \in Nat /\ found[a] \in Seq(Hit)
    BY <1>1, QueryConstants DEF ContentInv, Types, Fresh, Request
  <2>0. DOMAIN found[a] = 1 .. Len(found[a])
    BY <2>1
  <2>2. PICK c : c = Assemble(found[a], ask[a].budget) /\ Good(c, found[a], Len(found[a]), ask[a].budget)
    BY <2>1, Assembled
  <2>3. got[a].shown = c.shown
    BY <1>1, <2>2 DEF ContentInv, Holds
  <2> QED
    BY <2>0, <2>2, <2>3 DEF Good
<1> QED
  BY <1>1, ContentKept, PTL

\* A text is cited with its own lines or none unless its id was given to another
\* text too, cached or not, for any interleaving of queries and index runs; and
\* texts with ids of their own keep to the budget.
THEOREM CitationsMatchCorrect == QuerySpec => []CitationsMatch
<1>1. ASSUME NEW response, Known(response) PROVE Matches(response)
  BY <1>1 DEF Known, Matches, Unshared
<1>2. ASSUME ContentInv, NEW a \in Askers, Fresh(a),
             \A n \in DOMAIN got[a].shown : Unshared(got[a].shown[n])
      PROVE  Total(TextSize, got[a].shown) <= ask[a].budget
  <2>1. ask[a].budget \in Nat /\ found[a] \in Seq(Hit)
    BY <1>2, QueryConstants DEF ContentInv, Types, Fresh, Request
  <2>2. PICK c : c = Assemble(found[a], ask[a].budget) /\ Good(c, found[a], Len(found[a]), ask[a].budget)
    BY <2>1, Assembled
  <2>3. got[a].shown = c.shown /\ c.shown \in Seq(Hit)
    BY <1>2, <2>2 DEF ContentInv, Holds, Good
  <2>4. Matches(got[a])
    BY <1>1, <1>2 DEF ContentInv, Holds, Fresh
  <2>5. \A n \in DOMAIN c.shown : c.shown[n] \in Hit /\ c.shown[n].lines \in {c.shown[n].text, Nil}
    BY <1>2, <2>3, <2>4 DEF Matches
  <2>6. \A n \in DOMAIN c.shown : TextSize[c.shown[n]] = Estimate[c.shown[n]]
    BY <2>5 DEF TextSize, Estimate
  <2>7. Total(TextSize, c.shown) = Total(Estimate, c.shown)
    BY <2>3, <2>6, EstimateType, TotalAgrees
  <2> QED
    BY <2>2, <2>3, <2>7 DEF Good
<1>3. ASSUME ContentInv PROVE CitationsMatch
  <2>1. \A k \in Keys : cache[k] # Nil => Matches(cache[k].response)
    BY <1>1, <1>3 DEF ContentInv
  <2>2. \A a \in Askers : got[a] # Nil => Matches(got[a])
    BY <1>1, <1>3 DEF ContentInv, Holds
  <2> QED
    BY <1>2, <1>3, <2>1, <2>2 DEF CitationsMatch
<1> QED
  BY <1>3, ContentKept, PTL
=============================================================================
