----------------------------- MODULE Ingestion -----------------------------
(***************************************************************************)
(* The write path of telemetry: admission, batches, and the repository's   *)
(* idempotent insert with its answer, on SQLite (one statement under the   *)
(* writer lock) and on PostgreSQL (the insert and the look at the row in   *)
(* its way are two statements).  A reading is a record of its identities,  *)
(* the idempotency key and the time (one source), of the hash of its       *)
(* values, and of what validation will say of it.                          *)
(***************************************************************************)
EXTENDS Naturals, Sequences, FiniteSets

CONSTANTS
  Clients,            \* callers with at most one request in flight
  Batches,            \* the requests they make: non-empty sequences of readings
  NoKey,              \* idempotency_identity IS NULL
  MaximumConcurrent,  \* admission limit
  MaximumItems,       \* batch limit
  MaxArchived         \* bound on rows the archive takes

VARIABLES
  engine,       \* "sqlite" or "postgres"
  hot,          \* rows of telemetry_hot, in the order of their insertion
  archived,     \* rows the archive has taken out of it
  invalidated,  \* times with an aggregation_invalidations row, as a sequence
  active,       \* permits handed out
  upload          \* what each client's request is doing

vars == <<engine, hot, archived, invalidated, active, upload>>

Modes == {"atomic", "partial"}
Idle == [pc |-> "idle", mode |-> "atomic", items |-> <<>>, outcomes |-> <<>>]

Init ==
  /\ engine \in {"sqlite", "postgres"}
  /\ hot = <<>> /\ archived = <<>> /\ invalidated = <<>>
  /\ active = 0
  /\ upload = [c \in Clients |-> Idle]

----------------------------------------------------------------------------
Rows == {hot[i] : i \in DOMAIN hot}
Accepted == Rows \cup {archived[i] : i \in DOMAIN archived}

\* A unique constraint puts the row r in the way of reading o.
Clash(r, o) == r.at = o.at \/ (o.key # NoKey /\ r.key = o.key)

\* (mutant: the unique index on the idempotency key missing)
ClashingByTime(o) == {r \in Rows : r.at = o.at}
Clashing(o) == {r \in Rows : Clash(r, o)}

\* The answer once a row stands in the way: SELECT .. LIMIT 1 takes any one
\* of them, or none if all have gone since.
LookUp(o) ==
  IF Clashing(o) = {} THEN {"constraint"}
  ELSE {IF r.hash = o.hash THEN "duplicate" ELSE "conflict" : r \in Clashing(o)}

\* One transaction: the row, the invalidation of its day and the audit event.
Commit(os) ==
  /\ hot' = hot \o os
  /\ invalidated' = invalidated \o [i \in DOMAIN os |-> os[i].at]

Item(c) == upload[c].items[Len(upload[c].outcomes) + 1]
Step(c, pc, outcome) ==
  upload' = [upload EXCEPT ![c].pc = pc, ![c].outcomes = Append(@, outcome)]
AfterItem(c) ==
  IF Len(upload[c].outcomes) + 1 = Len(upload[c].items) THEN "answer" ELSE "insert"

----------------------------------------------------------------------------
\* Admission: a permit if fewer than the limit are out; none is queued.
TryAdmit(c, b, m) ==
  /\ upload[c].pc = "idle"
  /\ active < MaximumConcurrent
  /\ active' = active + 1
  /\ upload' = [upload EXCEPT ![c] = [pc |-> "validate", mode |-> m, items |-> b, outcomes |-> <<>>]]
  /\ UNCHANGED <<engine, archived, hot, invalidated>>

\* Every item is validated before any is written; an atomic batch with an
\* invalid one ends here, and so does a batch over the limit.
Validate(c) ==
  /\ upload[c].pc = "validate"
  /\ LET bad == {i \in DOMAIN upload[c].items : ~upload[c].items[i].valid}
         ends == \/ Len(upload[c].items) > MaximumItems
                 \/ upload[c].mode = "atomic" /\ bad # {}
     IN upload' = [upload EXCEPT ![c].pc = IF ends THEN "answer" ELSE "insert"]
  /\ UNCHANGED <<engine, archived, hot, invalidated, active>>

\* insert_atomic: all items or none.  No implementation is in the tree; it is
\* the repository's transaction over all of them, one after the other: F are
\* those that found no row in their way, earlier ones of the batch included.
InsertAtomic(c) ==
  /\ upload[c].pc = "insert" /\ upload[c].mode = "atomic"
  /\ LET os == upload[c].items
         InWay(i, F) == Clashing(os[i]) \cup {os[j] : j \in {k \in F : k < i /\ Clash(os[k], os[i])}}
     IN \E F \in SUBSET DOMAIN os :
          /\ \A i \in DOMAIN os : i \in F <=> InWay(i, F) = {}
          /\ IF \E i \in DOMAIN os : \E r \in InWay(i, F) : r.hash # os[i].hash
             THEN /\ upload' = [upload EXCEPT ![c].pc = "answer"]
                  /\ UNCHANGED <<hot, invalidated>>
             ELSE /\ \E order \in [1 .. Cardinality(F) -> F] :
                       /\ \A k, l \in DOMAIN order : k < l => order[k] < order[l]
                       /\ Commit([k \in DOMAIN order |-> os[order[k]]])
                  /\ upload' = [upload EXCEPT ![c].pc = "answer",
                                ![c].outcomes = [i \in DOMAIN os |-> IF i \in F THEN "inserted" ELSE "duplicate"]]
  /\ UNCHANGED <<engine, archived, active>>

\* Items of a partial batch go one by one; an invalid one keeps its place.
SkipInvalid(c) ==
  /\ upload[c].pc = "insert" /\ upload[c].mode = "partial"
  /\ ~Item(c).valid
  /\ Step(c, AfterItem(c), "invalid")
  /\ UNCHANGED <<engine, archived, hot, invalidated, active>>

\* SQLite: INSERT OR IGNORE and the look at the row in its way, under the lock.
InsertSqlite(c) ==
  /\ engine = "sqlite"
  /\ upload[c].pc = "insert" /\ upload[c].mode = "partial" /\ Item(c).valid
  /\ IF Clashing(Item(c)) = {}
     THEN Commit(<<Item(c)>>) /\ Step(c, AfterItem(c), "inserted")
     ELSE /\ \E a \in LookUp(Item(c)) : Step(c, AfterItem(c), a)
          /\ UNCHANGED <<hot, invalidated>>
  /\ UNCHANGED <<engine, archived, active>>

\* PostgreSQL: INSERT .. ON CONFLICT DO NOTHING.
InsertPostgres(c) ==
  /\ engine = "postgres"
  /\ upload[c].pc = "insert" /\ upload[c].mode = "partial" /\ Item(c).valid
  /\ IF Clashing(Item(c)) = {}
     THEN Commit(<<Item(c)>>) /\ Step(c, AfterItem(c), "inserted")
     ELSE upload' = [upload EXCEPT ![c].pc = "look"] /\ UNCHANGED <<hot, invalidated>>
  /\ UNCHANGED <<engine, archived, active>>

\* .. and the row that was in its way, if it is still there.
LookPostgres(c) ==
  /\ upload[c].pc = "look"
  /\ \E a \in LookUp(Item(c)) : Step(c, AfterItem(c), a)
  /\ UNCHANGED <<engine, archived, hot, invalidated, active>>

\* An error of the database: this item failed, the batch goes on.
InsertFails(c) ==
  /\ upload[c].pc \in {"insert", "look"} /\ upload[c].mode = "partial" /\ Item(c).valid
  /\ Step(c, AfterItem(c), "failed")
  /\ UNCHANGED <<engine, archived, hot, invalidated, active>>

\* The answer leaves and the permit is dropped.
Answer(c) ==
  /\ upload[c].pc = "answer"
  /\ active' = active - 1
  /\ upload' = [upload EXCEPT ![c] = Idle]
  /\ UNCHANGED <<engine, archived, hot, invalidated>>

\* The caller goes away; dropping the future drops the permit.
Abandon(c) ==
  /\ upload[c].pc # "idle"
  /\ active' = active - 1
  /\ upload' = [upload EXCEPT ![c] = Idle]
  /\ UNCHANGED <<engine, archived, hot, invalidated>>

\* Compaction deletes the oldest row, which a segment holds by then.
Archive ==
  /\ hot # <<>> /\ Len(archived) < MaxArchived
  /\ archived' = Append(archived, Head(hot))
  /\ hot' = Tail(hot)
  /\ UNCHANGED <<engine, invalidated, active, upload>>

Next ==
  \/ Archive
  \/ \E c \in Clients :
      \/ \E b \in Batches, m \in Modes : TryAdmit(c, b, m)
      \/ Validate(c) \/ InsertAtomic(c) \/ SkipInvalid(c)
      \/ InsertSqlite(c) \/ InsertPostgres(c) \/ LookPostgres(c) \/ InsertFails(c)
      \/ Answer(c) \/ Abandon(c)

Spec == Init /\ [][Next]_vars

----------------------------------------------------------------------------
\* Retries, abandoned requests and both engines together never store a
\* reading under an identity a hot row has, and every reading ever stored has
\* its invalidation exactly once: what is counted is counted once.
CountedOnce ==
  /\ \A i, j \in DOMAIN hot : i # j => ~Clash(hot[i], hot[j])
  /\ LET stored == archived \o hot IN invalidated = [i \in DOMAIN stored |-> stored[i].at]

\* What a client is told is true, also when the archive takes the row away
\* between the refused insert and the look at what refused it: a reading
\* reported as inserted or as a duplicate is stored with the values it sent,
\* and one reported as a conflict is shadowed by other values.
AnswersAreTrue ==
  \A c \in Clients : \A i \in DOMAIN upload[c].outcomes :
    LET a == <<upload[c].items[i], upload[c].outcomes[i]>>
        same == {r \in Accepted : Clash(r, a[1])} IN
    /\ a[2] \in {"inserted", "duplicate"} => \E r \in same : r.hash = a[1].hash
    /\ a[2] = "conflict" => \E r \in same : r.hash # a[1].hash

=============================================================================
