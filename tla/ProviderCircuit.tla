-------------------------- MODULE ProviderCircuit --------------------------
(***************************************************************************)
(* Queries to one external provider (provider_data.rs): a cached entry, a  *)
(* circuit breaker and fetches that overlap.  Instants are kept as         *)
(* distances from the current one; a query keeps the instant it began at   *)
(* and judges the cache, the circuit and its own failure by it.            *)
(***************************************************************************)
EXTENDS Integers

CONSTANTS
  Queries,
  Threshold,  \* failure_threshold
  Recovery,   \* recovery_timeout_milliseconds
  Ttl,        \* validity the adapter gives an entry
  MaxStale,   \* maximum_stale_seconds
  Timeout     \* a fetch has ended by then

VARIABLES
  works,     \* what works: "all", "no cache", "no provider"
  breaker,   \* [state, failures, retry]: retry in ticks from now
  entry,     \* ticks until the cached entry's valid_until
  query,     \* what each query is doing
  freshness  \* of the last answer

vars == <<works, breaker, entry, query, freshness>>

NoEntry == 0 - MaxStale - 1
Idle == [pc |-> "idle", age |-> 0, cached |-> NoEntry]
Answer(q, f) == freshness' = f /\ query' = [query EXCEPT ![q] = Idle]

Init ==
  /\ works = "all"
  /\ breaker = [state |-> "closed", failures |-> 0, retry |-> 0]
  /\ entry = NoEntry /\ query = [q \in Queries |-> Idle] /\ freshness = "none"

----------------------------------------------------------------------------
\* An old entry will do for a while.
StaleOrUnavailable(cached) == IF cached + MaxStale >= 0 THEN "stale" ELSE "unavailable"

\* The clock is read, then the cache.
Begin(q) ==
  /\ query[q].pc = "idle"
  /\ query' = [query EXCEPT ![q] = [Idle EXCEPT !.pc = "look"]]
  /\ UNCHANGED <<works, breaker, entry, freshness>>

Look(q) ==
  LET cached == IF entry = NoEntry THEN NoEntry ELSE entry + query[q].age IN
  /\ query[q].pc = "look"
  /\ IF cached >= 0 THEN Answer(q, "fresh")
     ELSE query' = [query EXCEPT ![q].pc = "allow", ![q].cached = cached] /\ UNCHANGED freshness
  /\ UNCHANGED <<works, breaker, entry>>

\* (mutant: a half-open circuit lets nothing through)
AllowClosed(q) ==
  /\ query[q].pc = "allow"
  /\ IF breaker.state = "half open" \/ (breaker.state = "open" /\ breaker.retry + query[q].age > 0)
     THEN Answer(q, StaleOrUnavailable(query[q].cached)) /\ UNCHANGED breaker
     ELSE /\ breaker' = IF breaker.state = "open" THEN [breaker EXCEPT !.state = "half open"] ELSE breaker
          /\ query' = [query EXCEPT ![q].pc = "fetch"] /\ UNCHANGED freshness
  /\ UNCHANGED <<works, entry>>

\* CircuitBreaker::allow: half open lets every query through.
Allow(q) ==
  /\ query[q].pc = "allow"
  /\ IF breaker.state = "open" /\ breaker.retry + query[q].age > 0
     THEN Answer(q, StaleOrUnavailable(query[q].cached)) /\ UNCHANGED breaker
     ELSE /\ breaker' = IF breaker.state = "open" THEN [breaker EXCEPT !.state = "half open"] ELSE breaker
          /\ query' = [query EXCEPT ![q].pc = "fetch"] /\ UNCHANGED freshness
  /\ UNCHANGED <<works, entry>>

\* record_failure counts from the instant the query began, whatever another
\* has recorded since.
RecordFailure(age) ==
  LET failures == IF breaker.failures < Threshold THEN breaker.failures + 1 ELSE Threshold IN
  breaker' = IF failures < Threshold THEN [breaker EXCEPT !.failures = failures]
             ELSE [state |-> "open", failures |-> failures, retry |-> Recovery - age]

\* An error, a time-out, or an entry that does not match the request.
FetchFails(q) ==
  /\ query[q].pc = "fetch" /\ works = "no provider"
  /\ RecordFailure(query[q].age)
  /\ Answer(q, StaleOrUnavailable(query[q].cached))
  /\ UNCHANGED <<works, entry>>

\* The entry replaces the cached one, an older one too.
Put(q) ==
  /\ query[q].pc = "fetch" /\ works = "all"
  /\ entry' = Ttl - query[q].age
  /\ query' = [query EXCEPT ![q].pc = "close"]
  /\ UNCHANGED <<works, breaker, freshness>>

RecordSuccess(q) ==
  /\ query[q].pc = "close"
  /\ breaker' = [state |-> "closed", failures |-> 0, retry |-> 0]
  /\ Answer(q, "fresh")
  /\ UNCHANGED <<works, entry>>

\* The cache cannot be read or written: the query ends, the circuit is not told.
CacheFails(q) ==
  /\ query[q].pc \in {"look", "fetch"} /\ works = "no cache"
  /\ Answer(q, "unavailable")
  /\ UNCHANGED <<works, breaker, entry>>

Change == works' \in {"all", "no cache", "no provider"} \ {works} /\ UNCHANGED <<breaker, entry, query, freshness>>

Tick ==
  /\ \A q \in Queries : query[q].pc # "idle" => query[q].age < Timeout
  /\ entry' = IF entry = NoEntry THEN NoEntry ELSE entry - 1
  /\ breaker' = [breaker EXCEPT !.retry = IF @ > 0 - Timeout /\ breaker.state = "open" THEN @ - 1 ELSE @]
  /\ query' = [q \in Queries |-> IF query[q].pc = "idle" THEN Idle ELSE [query[q] EXCEPT !.age = @ + 1]]
  /\ UNCHANGED <<works, freshness>>

Next ==
  \/ \E q \in Queries : Begin(q) \/ Look(q) \/ Allow(q) \/ FetchFails(q) \/ Put(q) \/ RecordSuccess(q) \/ CacheFails(q)
  \/ Change \/ Tick

Working(q) == Begin(q) \/ Look(q) \/ Allow(q) \/ FetchFails(q) \/ Put(q) \/ RecordSuccess(q)
Spec == Init /\ [][Next]_vars

----------------------------------------------------------------------------
\* When provider and cache work from some time on, the provider is asked again
\* and fresh answers keep coming, although queries that began before fail late
\* and reopen the circuit.
ProviderComesBack == <>[](works = "all") => []<>(freshness = "fresh")
=============================================================================
