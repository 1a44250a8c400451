----------------------------- MODULE PoolRouter -----------------------------
(***************************************************************************)
(* Routing to account databases (sqlite_router.rs): a bounded cache of     *)
(* pools, each with a lane for its one writer.  A repository keeps the     *)
(* handle it was routed to while it reads and writes; a cached pool may be *)
(* dropped once no handle refers to it.  The server makes several routers, *)
(* each with a cache of its own.  The file of an account is taken as fixed *)
(* while it is routed to.                                                  *)
(***************************************************************************)
EXTENDS Naturals, FiniteSets

CONSTANTS
  Routers,
  Accounts,
  Tasks,           \* repositories at work
  MaxPools,        \* max_open_account_pools
  MaxConnections,  \* max_connections_per_account
  IdleTimeout,     \* idle_pool_timeout
  MaxTime,
  MaxPoolsMade     \* bound on pools opened

VARIABLES
  instant,    \* the clock
  routable,   \* accounts whose lifecycle is active
  pools,      \* each router's cached pools: [account, pool, used]
  made,       \* pools opened so far; a pool is its number
  holder,     \* [pc, router, account, at, pool]
  refused     \* history: a router was full although it had a pool nobody used

vars == <<instant, routable, pools, made, holder, refused>>

Idle == [pc |-> "idle", router |-> 0, account |-> "", at |-> 0, pool |-> 0]
Go(t, pc) == holder' = [holder EXCEPT ![t].pc = pc]

\* A handle is the Arc that a task holds besides the cache.
Referenced(pool) == \E t \in Tasks : holder[t].pool = pool
Connections(pool) == Cardinality({t \in Tasks : holder[t].pool = pool /\ holder[t].pc \in {"reading", "writing"}})
Lane(pool) == {t \in Tasks : holder[t].pool = pool /\ holder[t].pc \in {"connect", "writing"}}

Init ==
  /\ instant = 0 /\ routable = Accounts
  /\ pools = [r \in Routers |-> {}] /\ made = 0
  /\ holder = [t \in Tasks |-> Idle] /\ refused = FALSE

----------------------------------------------------------------------------
\* resolve_active_route looks at the lifecycle before the cache is locked;
\* "now" is read in between.
Resolve(t, r, a) ==
  /\ holder[t].pc = "idle" /\ a \in routable
  /\ holder' = [holder EXCEPT ![t] = [Idle EXCEPT !.pc = "route", !.router = r, !.account = a, !.at = instant]]
  /\ UNCHANGED <<instant, routable, pools, made, refused>>

\* (mutant: handles are not looked at)
KeptWhenRecent(cached, now) ==
  {c \in cached : now < c.used + IdleTimeout}

\* evict_eligible
KeptWhenIdle(cached, now) ==
  {c \in cached : Referenced(c.pool) \/ now < c.used + IdleTimeout}

\* evict_oldest_unreferenced: one of the least recently used.
Oldest(cached) ==
  LET free == {c \in cached : ~Referenced(c.pool)}
  IN {c \in free : \A d \in free : c.used <= d.used}

\* route, which holds the lock of the cache throughout.
RouteCached(t) ==
  LET q == holder[t] IN
  /\ q.pc = "route"
  /\ \E c \in pools[q.router] :
       /\ c.account = q.account
       /\ pools' = [pools EXCEPT ![q.router] = (@ \ {c}) \cup {[c EXCEPT !.used = q.at]}]
       /\ holder' = [holder EXCEPT ![t].pc = "handle", ![t].pool = c.pool]
  /\ UNCHANGED <<instant, routable, made, refused>>

RouteNew(t) ==
  LET q == holder[t]
      kept == KeptWhenIdle(pools[q.router], q.at)
  IN
  /\ q.pc = "route" /\ made < MaxPoolsMade
  /\ \A c \in pools[q.router] : c.account # q.account
  /\ \E evicted \in IF Cardinality(kept) >= MaxPools /\ Oldest(kept) # {} THEN {{c} : c \in Oldest(kept)} ELSE {{}} :
       LET left == kept \ evicted IN
       IF Cardinality(left) >= MaxPools
       THEN /\ pools' = [pools EXCEPT ![q.router] = left]
            /\ holder' = [holder EXCEPT ![t] = Idle]
            /\ refused' = (refused \/ \E c \in left : ~Referenced(c.pool))
            /\ UNCHANGED made
       ELSE /\ made' = made + 1
            /\ pools' = [pools EXCEPT ![q.router] = left \cup {[account |-> q.account, pool |-> made + 1, used |-> q.at]}]
            /\ holder' = [holder EXCEPT ![t].pc = "handle", ![t].pool = made + 1]
            /\ UNCHANGED refused
  /\ UNCHANGED <<instant, routable>>

EvictIdle(r) ==
  /\ pools' = [pools EXCEPT ![r] = KeptWhenIdle(@, instant)]
  /\ UNCHANGED <<instant, routable, made, holder, refused>>

----------------------------------------------------------------------------
\* acquire, for reads.
Acquire(t) ==
  /\ holder[t].pc = "handle" /\ Connections(holder[t].pool) < MaxConnections
  /\ Go(t, "reading")
  /\ UNCHANGED <<instant, routable, pools, made, refused>>

\* acquire_writer takes the lane, then a connection ..
TakeLane(t) ==
  /\ holder[t].pc = "handle" /\ Lane(holder[t].pool) = {}
  /\ Go(t, "connect")
  /\ UNCHANGED <<instant, routable, pools, made, refused>>

AcquireWriter(t) ==
  /\ holder[t].pc = "connect" /\ Connections(holder[t].pool) < MaxConnections
  /\ Go(t, "writing")
  /\ UNCHANGED <<instant, routable, pools, made, refused>>

\* .. or fails when the wait for one is over, and the lane is free again.
AcquireFails(t) ==
  /\ holder[t].pc = "connect"
  /\ Go(t, "handle")
  /\ UNCHANGED <<instant, routable, pools, made, refused>>

Release(t) ==
  /\ holder[t].pc \in {"reading", "writing"}
  /\ Go(t, "handle")
  /\ UNCHANGED <<instant, routable, pools, made, refused>>

DropHandle(t) ==
  /\ holder[t].pc = "handle"
  /\ holder' = [holder EXCEPT ![t] = Idle]
  /\ UNCHANGED <<instant, routable, pools, made, refused>>

\* The account is suspended, or active again; handles stay as they are.
SetLifecycle(a) ==
  /\ routable' = IF a \in routable THEN routable \ {a} ELSE routable \cup {a}
  /\ UNCHANGED <<instant, pools, made, holder, refused>>

Tick ==
  /\ instant < MaxTime /\ instant' = instant + 1
  /\ UNCHANGED <<routable, pools, made, holder, refused>>

Next ==
  \/ \E t \in Tasks :
       \/ \E r \in Routers, a \in Accounts : Resolve(t, r, a)
       \/ RouteCached(t) \/ RouteNew(t) \/ Acquire(t) \/ TakeLane(t) \/ AcquireWriter(t)
       \/ AcquireFails(t) \/ Release(t) \/ DropHandle(t)
  \/ \E r \in Routers : EvictIdle(r)
  \/ \E a \in Accounts : SetLifecycle(a)
  \/ Tick

Spec == Init /\ [][Next]_vars

----------------------------------------------------------------------------
Writers(r, a) == {t \in Tasks : holder[t].pc = "writing" /\ holder[t].router = r /\ holder[t].account = a}

\* Through one router an account has one writer at a time, although its pool
\* may be evicted and opened again while tasks come and go, and the router
\* keeps no more pools than its limit and refuses only when all are in use.
OneWriter ==
  /\ \A r \in Routers : /\ Cardinality(pools[r]) <= MaxPools
                        /\ \A a \in Accounts : Cardinality(Writers(r, a)) <= 1
  /\ ~refused

\* The same through all routers of the process.  (It does not hold.)
OneWriterInProcess ==
  \A a \in Accounts : Cardinality({t \in Tasks : holder[t].pc = "writing" /\ holder[t].account = a}) <= 1
=============================================================================
