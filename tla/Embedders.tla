------------------------------ MODULE Embedders -------------------------------
(***************************************************************************)
(* brain-embed: which backend a provider's name stands for, by way of      *)
(* `auto` entries that name a primary and a fallback and may be nested, or *)
(* lead back to themselves.  A backend may refuse (no key, no model) and   *)
(* be there at the next attempt.                                           *)
(***************************************************************************)
EXTENDS Naturals, Sequences

CONSTANTS
  Embeddings, \* the names of providers.json
  Backends,   \* runtimes that are a backend: "local", "api"
  MaxNested   \* BOUND: calls in progress

\* "unknown": no such entry, or a runtime there is no backend for.
Registries ==
  [Embeddings -> [runtime : Backends \cup {"unknown"}, next : {<<>>}]
              \cup [runtime : {"auto"}, next : Embeddings \X Embeddings]]

VARIABLES
  registry,  \* providers.json
  trying,    \* the entry looked at, and the primaries it is the fallback of
  pending,   \* the fallbacks of the calls in progress, innermost first
  refused,   \* backends that refused at some time
  embedder   \* Looking, Failed, or the name of the backend that was built

embedderVars == <<registry, trying, pending, refused, embedder>>

Looking == "looking"
Failed  == "failed"

Asked == CHOOSE p \in Embeddings : TRUE    \* embedding_provider

ASSUME EmbedderConstants ==
  /\ Backends \subseteq {"local", "api"} /\ MaxNested \in Nat
  /\ Asked \in Embeddings /\ Looking \notin Embeddings /\ Failed \notin Embeddings

EmbeddersInit ==
  /\ registry \in Registries
  /\ trying = [name |-> Asked, instead |-> {}]
  /\ pending = <<>> /\ refused = {} /\ embedder = Looking

Entry == registry[trying.name]

\* Mutant: the error of a primary is returned.
Propagate == embedder' = Failed /\ UNCHANGED <<trying, pending>>

\* An error goes to the innermost call that tries its primary.
Fall ==
  IF pending = <<>> THEN /\ embedder' = Failed
                         /\ UNCHANGED <<trying, pending>>
                    ELSE /\ trying' = Head(pending) /\ pending' = Tail(pending)
                         /\ UNCHANGED embedder

BuildBackend ==
  /\ embedder = Looking /\ Entry.runtime \in Backends
  /\ \/ embedder' = trying.name /\ UNCHANGED <<trying, pending, refused>>
     \/ Fall /\ refused' = refused \cup {trying.name}
  /\ UNCHANGED registry

RefuseUnknown ==
  /\ embedder = Looking /\ Entry.runtime = "unknown"
  /\ Fall
  /\ UNCHANGED <<registry, refused>>

TryPrimary ==
  /\ embedder = Looking /\ Entry.runtime = "auto" /\ Len(pending) < MaxNested
  /\ trying'  = [name |-> Entry.next[1], instead |-> trying.instead]
  /\ pending' = <<[name |-> Entry.next[2], instead |-> trying.instead \cup {Entry.next[1]}]>>
                  \o pending
  /\ UNCHANGED <<registry, refused, embedder>>

EmbeddersNext == BuildBackend \/ RefuseUnknown \/ TryPrimary

EmbeddersSpec == EmbeddersInit /\ [][EmbeddersNext]_embedderVars

-----------------------------------------------------------------------------
EmbeddersTypeOK ==
  /\ registry \in Registries
  /\ trying.name \in Embeddings /\ trying.instead \subseteq Embeddings
  /\ refused \subseteq Embeddings /\ embedder \in Embeddings \cup {Looking, Failed}

\* The backends a name may stand for: those of the entries it leads to.
LeadTo(some) ==
  UNION {{registry[p].next[1], registry[p].next[2]} : p \in {q \in some : registry[q].runtime = "auto"}}

Within(S, name) == name \in S /\ LeadTo(S) \subseteq S

Reached(name) ==
  {p \in Embeddings : /\ registry[p].runtime \in Backends
                      /\ \A S \in SUBSET Embeddings : Within(S, name) => p \in S}

\* A fallback is tried, and an embedder missed, only after every backend the
\* primary, or the name that was asked for, leads to has refused; and what is
\* built is one of them (provider.rs: tries primary, falls back to fallback).
FallbackIsLast ==
  /\ \A p \in trying.instead : Reached(p) \subseteq refused
  /\ embedder = Failed => Reached(Asked) \subseteq refused
  /\ embedder \in Embeddings => embedder \in Reached(Asked)
=============================================================================
