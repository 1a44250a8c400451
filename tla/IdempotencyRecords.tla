------------------------ MODULE IdempotencyRecords ------------------------
(***************************************************************************)
(* store_idempotency: the first response to a request of one principal,    *)
(* operation and key is kept for a while and replayed to whoever repeats   *)
(* it.  SQLite does its three statements under the writer lock, PostgreSQL *)
(* one by one, so records may expire and appear between them.              *)
(***************************************************************************)
EXTENDS Naturals, FiniteSets

CONSTANTS
  Clients,    \* concurrent callers that use the same key
  Hashes,     \* the requests they make under it
  Lifetime,   \* expires_at - created_at
  MaxTime     \* bound of the clock

None == [client |-> "none"]

VARIABLES
  backend,   \* "sqlite" or "postgres"
  now,       \* the clock; a call uses the time it was made at
  record,    \* the row under the key: who stored it, its request, its expiry
  caller,    \* the calls at work
  reply      \* the last reply, with the record that decided it

vars == <<backend, now, record, caller, reply>>

Idle == [pc |-> "idle"]
Init ==
  /\ backend \in {"sqlite", "postgres"}
  /\ now = 0
  /\ record = None
  /\ caller = [c \in Clients |-> Idle]
  /\ reply = None

Tick == now < MaxTime /\ now' = now + 1 /\ UNCHANGED <<backend, record, caller, reply>>

Call(c, h) ==
  /\ caller[c].pc = "idle"
  /\ caller' = [caller EXCEPT ![c] = [pc |-> "expire", hash |-> h, at |-> now]]
  /\ UNCHANGED <<backend, now, record, reply>>

----------------------------------------------------------------------------
\* The record left by DELETE .. WHERE expires_at <= created_at of call c.
AfterExpiry(c) == IF record # None /\ record.expires <= caller[c].at THEN None ELSE record

Mine(c) == [client |-> c, hash |-> caller[c].hash, expires |-> caller[c].at + Lifetime]

\* A request that meets a record: a replay if it is the same request.
Outcome(c, r) ==
  [client |-> c, hash |-> caller[c].hash,
   outcome |-> IF r.hash = caller[c].hash THEN "replay" ELSE "conflict", of |-> r]

Reply(c, r) == reply' = r /\ caller' = [caller EXCEPT ![c] = Idle]
Store(c) ==
  /\ record' = Mine(c)
  /\ Reply(c, [client |-> c, hash |-> caller[c].hash, outcome |-> "stored", of |-> Mine(c)])

StoreSqlite(c) ==
  /\ backend = "sqlite" /\ caller[c].pc = "expire"
  /\ LET left == AfterExpiry(c) IN
     IF left = None THEN Store(c)
     ELSE record' = left /\ Reply(c, Outcome(c, left))
  /\ UNCHANGED <<backend, now>>

\* PostgreSQL: the DELETE, ..
Expire(c) ==
  /\ backend = "postgres" /\ caller[c].pc = "expire"
  /\ record' = AfterExpiry(c)
  /\ caller' = [caller EXCEPT ![c].pc = "lookup"]
  /\ UNCHANGED <<backend, now, reply>>

\* .. the SELECT, ..
LookUp(c) ==
  /\ caller[c].pc = "lookup"
  /\ IF record = None
     THEN caller' = [caller EXCEPT ![c].pc = "insert"] /\ UNCHANGED reply
     ELSE Reply(c, Outcome(c, record))
  /\ UNCHANGED <<backend, now, record>>

\* (mutant: the conflict of the insert ignored)
InsertOver(c) ==
  /\ caller[c].pc = "insert"
  /\ Store(c)
  /\ UNCHANGED <<backend, now>>

\* .. the INSERT .. ON CONFLICT DO NOTHING, ..
Insert(c) ==
  /\ caller[c].pc = "insert"
  /\ IF record = None THEN Store(c)
     ELSE caller' = [caller EXCEPT ![c].pc = "again"] /\ UNCHANGED <<record, reply>>
  /\ UNCHANGED <<backend, now>>

\* .. and the SELECT again: an error if the record is gone by then.
LookAgain(c) ==
  /\ caller[c].pc = "again"
  /\ Reply(c, IF record = None
              THEN [client |-> c, hash |-> caller[c].hash, outcome |-> "failed", of |-> None]
              ELSE Outcome(c, record))
  /\ UNCHANGED <<backend, now, record>>

Next ==
  \/ Tick
  \/ \E c \in Clients :
       \/ \E h \in Hashes : Call(c, h)
       \/ StoreSqlite(c) \/ Expire(c) \/ LookUp(c) \/ Insert(c) \/ LookAgain(c)

Spec == Init /\ [][Next]_vars

----------------------------------------------------------------------------
\* One key has one first response while it lives: a record is only replaced
\* once some call has seen it expired, however the statements interleave.
FirstResponseStands ==
  [][record' \notin {record, None} => record = None \/ record.expires <= now]_vars

=============================================================================
