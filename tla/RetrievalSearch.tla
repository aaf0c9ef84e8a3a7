-------------------------- MODULE RetrievalSearch --------------------------
(***************************************************************************)
(* The vector half of a retrieval (internal/storage/postgres): searches    *)
(* run concurrently, ask the circuit breaker of the embedding service,     *)
(* look the embedding up in a shared cache or compute it, and report to    *)
(* the breaker.                                                            *)
(*                                                                         *)
(* Time is whether openTimeout has passed since the last failure.  The     *)
(* breaker's cleanup goroutine and Reset are left out: they only act on a  *)
(* breaker that has opened.                                                *)
(***************************************************************************)
EXTENDS Integers, Sequences, FiniteSets

CONSTANTS
  Searches,           \* concurrent calls of searchSingleQuery
  Queries,            \* query texts
  CacheLimit,         \* embeddingCacheSizeLimit
  EmbedThreshold,     \* failureThreshold of the retrieval guard
  EmbedProbes,        \* successThreshold
  MaxListed           \* bound: entries of the access list

VARIABLES
  guard,         \* CircuitBreaker: state, consecutive failures, probe successes, probes in flight
  guardElapsed,  \* openTimeout has passed since lastFailureTime
  cache,         \* embeddingCache, as the set of its keys
  accessList,    \* embeddingCacheAccessList
  searchAt,      \* where each search stands
  query,         \* the query it is for
  failedRow      \* history: embeddings that failed in a row, up to the threshold

retrieval == <<guard, guardElapsed, cache, accessList, searchAt, query, failedRow>>

SearchAt == {"idle", "admitted", "rejected", "computing", "storing", "succeeded"}

RetrievalInit ==
  /\ guard = [state |-> "closed", failures |-> 0, successes |-> 0, inflight |-> 0]
  /\ guardElapsed = TRUE
  /\ cache = {} /\ accessList = <<>>
  /\ searchAt = [s \in Searches |-> "idle"]
  /\ query \in [Searches -> Queries]
  /\ failedRow = 0

SearchGoes(s, where) == searchAt' = [searchAt EXCEPT ![s] = where]

-----------------------------------------------------------------------------
Probing(g) == [g EXCEPT !.state = "halfOpen", !.inflight = 1]

AllowRequest(s) ==
  LET opens == guard.state = "open" /\ guardElapsed
      slot  == guard.state = "halfOpen" /\ guard.inflight = 0 IN
  /\ searchAt[s] = "idle"
  /\ guard' = IF opens THEN [Probing(guard) EXCEPT !.successes = 0]
              ELSE IF slot THEN Probing(guard) ELSE guard
  /\ SearchGoes(s, IF guard.state = "closed" \/ opens \/ slot THEN "admitted" ELSE "rejected")
  /\ \E q \in Queries : query' = [query EXCEPT ![s] = q]
  /\ UNCHANGED <<guardElapsed, cache, accessList, failedRow>>

AfterSuccess(g) ==
  CASE g.state = "closed" -> [g EXCEPT !.failures = 0]
    [] g.state = "open" -> g
    [] g.state = "halfOpen" ->
         IF g.successes + 1 >= EmbedProbes
         THEN [state |-> "closed", failures |-> 0, successes |-> 0, inflight |-> g.inflight - 1]
         ELSE [g EXCEPT !.successes = @ + 1, !.inflight = @ - 1]

AfterFailure(g) ==
  IF g.state = "halfOpen"
  THEN [g EXCEPT !.state = "open", !.inflight = @ - 1]
  ELSE [g EXCEPT !.failures = @ + 1,
                 !.state = IF g.failures + 1 >= EmbedThreshold THEN "open" ELSE @]

\* A search that was admitted ends here, whether it got an embedding or not.
RecordSuccess_(s) ==
  /\ searchAt[s] = "succeeded"
  /\ guard' = AfterSuccess(guard)
  /\ SearchGoes(s, "idle")
  /\ UNCHANGED <<guardElapsed, cache, accessList, query, failedRow>>

\* One that was rejected ends here.
RecordFailure_(s) ==
  /\ searchAt[s] = "rejected"
  /\ guard' = AfterFailure(guard)
  /\ guardElapsed' = FALSE
  /\ SearchGoes(s, "idle")
  /\ UNCHANGED <<cache, accessList, query, failedRow>>

GuardTimeoutPasses ==
  /\ ~ guardElapsed /\ guardElapsed' = TRUE
  /\ UNCHANGED <<guard, cache, accessList, searchAt, query, failedRow>>

-----------------------------------------------------------------------------
LookUpEmbedding(s) ==
  /\ searchAt[s] = "admitted"
  /\ SearchGoes(s, IF query[s] \in cache THEN "succeeded" ELSE "computing")
  /\ UNCHANGED <<guard, guardElapsed, cache, accessList, query, failedRow>>

GetEmbedding(s) ==
  /\ searchAt[s] = "computing"
  /\ SearchGoes(s, "storing") /\ failedRow' = 0
  /\ UNCHANGED <<guard, guardElapsed, cache, accessList, query>>

\* The embedding service fails: the search goes on without an embedding.
GetEmbeddingFails(s) ==
  /\ searchAt[s] = "computing"
  /\ SearchGoes(s, "succeeded")
  /\ failedRow' = IF failedRow = EmbedThreshold THEN failedRow ELSE failedRow + 1
  /\ UNCHANGED <<guard, guardElapsed, cache, accessList, query>>

\* Whether another search has stored the query meanwhile is not asked.
Stored(q, c, list) ==
  LET evicts == Cardinality(c) >= CacheLimit /\ list # <<>> IN
  [cache |-> (IF evicts THEN c \ {Head(list)} ELSE c) \cup {q},
   list  |-> Append(IF evicts THEN Tail(list) ELSE list, q)]

StoreEmbedding(s) ==
  /\ searchAt[s] = "storing" /\ Len(accessList) < MaxListed
  /\ LET new == Stored(query[s], cache, accessList) IN
     cache' = new.cache /\ accessList' = new.list
  /\ SearchGoes(s, "succeeded")
  /\ UNCHANGED <<guard, guardElapsed, query, failedRow>>

RetrievalNext ==
  \/ \E s \in Searches :
       \/ AllowRequest(s) \/ RecordSuccess_(s) \/ RecordFailure_(s)
       \/ LookUpEmbedding(s) \/ GetEmbedding(s) \/ GetEmbeddingFails(s) \/ StoreEmbedding(s)
  \/ GuardTimeoutPasses

RetrievalSpec == RetrievalInit /\ [][RetrievalNext]_retrieval

-----------------------------------------------------------------------------
\* "open after N consecutive failures" (circuit_breaker.go:26): when the
\* embedding service fails that often in a row and the searches that saw it
\* have reported, the breaker is not closed.
FailuresOpenTheBreaker ==
  (failedRow = EmbedThreshold /\ \A s \in Searches : searchAt[s] = "idle")
    => guard.state # "closed"

\* The cache stays within its limit, however searches miss the same query at
\* the same time (retrieval_embedding.go:53).
CacheStaysInLimit == Cardinality(cache) <= CacheLimit
=============================================================================
