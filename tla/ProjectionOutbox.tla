--------------------------- MODULE ProjectionOutbox ---------------------------
(***************************************************************************)
(* How what the instance shows of an account's systems follows the         *)
(* account's own database: the outbox that account transactions append to, *)
(* the reservation that hides a system before its visibility is reduced,   *)
(* and the reconciliation that carries events to the management database.  *)
(*                                                                         *)
(* The two databases share no transaction.  An action is one transaction   *)
(* of one of them; callers and reconciliations interleave and stop between *)
(* them.  Other accounts have their own outbox, inbox and rows, so one     *)
(* account is modelled.                                                    *)
(***************************************************************************)
EXTENDS Integers, Sequences, FiniteSets, FiniteSetsExt

CONSTANTS
  Systems,
  Callers,          \* requests that change the visibility of systems
  Reconcilers,      \* calls of reconcile_account
  Nothing,          \* no row
  Connections,      \* connections of the account's pool
  BatchLimit,       \* max_events
  MaxEvents,        \* bound: committed events
  MaxReservations,  \* bound: reservations
  MaxDisturbances   \* bound: calls that fail or crash half way, and
                    \* requests that keep a connection from the others

ASSUME ConstantsAssumption ==
  /\ Connections \in Nat \ {0} /\ BatchLimit \in Nat \ {0}
  /\ MaxEvents \in Nat /\ MaxReservations \in Nat /\ MaxDisturbances \in Nat

VARIABLES
  visibility,    \* account: each system's visibility
  outbox,        \* account: the events, at their source_sequence
  delivered,     \* account: sequences with a delivered_at
  source,        \* management: the account's checkpoint, source_sequence
  applied,       \* management: its applied_sequence
  inbox,         \* management: the sequences of the inbox
  row,           \* management: what is shown of each system, and since when
  reservations,  \* management: privacy reservations
  caller, task,  \* what callers and reconciliations are doing
  reader,        \* whether a request that only reads has a connection
  disturbances

account == <<visibility, outbox, delivered>>
management == <<source, applied, inbox, row, reservations>>
vars == <<visibility, outbox, delivered, source, applied, inbox, row,
          reservations, caller, task, reader, disturbances>>

Rank == [private |-> 0, unlisted |-> 1, public |-> 2]
Visibility == DOMAIN Rank
NoRow == [shows |-> Nothing, seq |-> 0]
NoTask == [pc |-> "idle", at |-> 0, last |-> 0]
NoCall == [reservation |-> 0, target |-> "public"]

Event == [system : Systems, shows : Visibility, effect : {"keeps", "reduces"},
          reservation : 0..MaxReservations]

TypeOK ==
  /\ visibility \in [Systems -> Visibility]
  /\ outbox \in Seq(Event) /\ Len(outbox) <= MaxEvents
  /\ delivered \subseteq 1..Len(outbox) /\ inbox \subseteq 1..Len(outbox)
  /\ source \in 0..Len(outbox) /\ applied \in 0..source
  /\ row \in [Systems -> [shows : Visibility \cup {Nothing}, seq : 0..MaxEvents]]
  /\ reservations \in Seq([system : Systems, resolved : 0..MaxEvents])
  /\ Len(reservations) <= MaxReservations
  /\ caller \in [Callers -> [reservation : 0..MaxReservations, target : Visibility]]
  /\ task \in [Reconcilers ->
       [pc : {"idle", "record", "position", "repair", "fetch", "apply", "mark"},
        at : 0..MaxEvents, last : 0..MaxEvents]]
  /\ reader \in BOOLEAN
  /\ disturbances \in 0..MaxDisturbances

Init ==
  /\ visibility = [s \in Systems |-> "private"]
  /\ outbox = <<>> /\ delivered = {}
  /\ source = 0 /\ applied = 0 /\ inbox = {}
  /\ row = [s \in Systems |-> NoRow]
  /\ reservations = <<>>
  /\ caller = [c \in Callers |-> NoCall]
  /\ task = [r \in Reconcilers |-> NoTask]
  /\ reader = FALSE /\ disturbances = 0

-----------------------------------------------------------------------------
(* Callers.  The event is committed with the change it tells of.           *)

AppendEvent(s, v, effect, reservation) ==
  /\ Len(outbox) < MaxEvents
  /\ visibility' = [visibility EXCEPT ![s] = v]
  /\ outbox' = Append(outbox, [system |-> s, shows |-> v, effect |-> effect,
                               reservation |-> reservation])
  /\ UNCHANGED delivered

(* An upsert that reduces nothing needs no reservation. *)
Publish(s, v) ==
  /\ v # "private" /\ Rank[v] >= Rank[visibility[s]]
  /\ AppendEvent(s, v, "keeps", 0)
  /\ UNCHANGED <<management, caller, task, reader, disturbances>>

ReservePrivacyInvalidation(c, s, v) ==
  /\ caller[c] = NoCall
  /\ Rank[v] < Rank[visibility[s]]
  /\ Len(reservations) < MaxReservations
  /\ reservations' = Append(reservations, [system |-> s, resolved |-> 0])
  /\ row' = [row EXCEPT ![s] = NoRow]
  /\ caller' = [caller EXCEPT ![c] = [reservation |-> Len(reservations) + 1, target |-> v]]
  /\ UNCHANGED <<account, source, applied, inbox, task, reader, disturbances>>

(* Then the change itself: a reducing upsert, an invalidation, a deletion. *)
Reduce(c) ==
  /\ caller[c] # NoCall
  /\ AppendEvent(reservations[caller[c].reservation].system, caller[c].target, "reduces",
                 caller[c].reservation)
  /\ caller' = [caller EXCEPT ![c] = NoCall]
  /\ UNCHANGED <<management, task, reader, disturbances>>

(* Or the change is dropped, and an upsert shows the system again. *)
Recover(c) ==
  /\ caller[c] # NoCall
  /\ LET s == reservations[caller[c].reservation].system
     IN AppendEvent(s, visibility[s], "keeps", caller[c].reservation)
  /\ caller' = [caller EXCEPT ![c] = NoCall]
  /\ UNCHANGED <<management, task, reader, disturbances>>

-----------------------------------------------------------------------------
(* reconcile_account.  A task holds a pooled connection from its first     *)
(* read to the end of the fetch.                                           *)

Holds(r) == task[r].pc \in {"record", "position", "repair", "fetch"}
FreeConnection ==
  Cardinality({r \in Reconcilers : Holds(r)}) + (IF reader THEN 1 ELSE 0) < Connections

At(r, pc) == task[r].pc = pc
Become(r, t) == task' = [task EXCEPT ![r] = t]
Finish(r) == Become(r, NoTask)

ReadSource(r) ==
  /\ At(r, "idle") /\ FreeConnection
  /\ Become(r, [pc |-> "record", at |-> Len(outbox), last |-> 0])
  /\ UNCHANGED <<account, management, caller, reader, disturbances>>

SourceAfter(n) == Max({source, n})

RecordSourceSequence(r) ==
  /\ At(r, "record")
  /\ source' = SourceAfter(task[r].at)
  /\ Become(r, [pc |-> "position", at |-> 0, last |-> 0])
  /\ UNCHANGED <<account, applied, inbox, row, reservations, caller, reader,
                 disturbances>>

AppliedSequence(r) ==
  /\ At(r, "position")
  /\ Become(r, [pc |-> "repair", at |-> applied, last |-> 0])
  /\ UNCHANGED <<account, management, caller, reader, disturbances>>

RepairedThrough(r) == 1..task[r].at

(* A second connection, unless there is nothing to mark. *)
MarkDeliveredThrough(r) ==
  /\ At(r, "repair")
  /\ task[r].at = 0 \/ FreeConnection
  /\ delivered' = delivered \cup RepairedThrough(r)
  /\ task' = [task EXCEPT ![r].pc = "fetch"]
  /\ UNCHANGED <<visibility, outbox, management, caller, reader, disturbances>>

Fetch(r) ==
  /\ At(r, "fetch")
  /\ LET last == Min({task[r].at + BatchLimit, Len(outbox)})
     IN IF last = task[r].at
        THEN Finish(r)
        ELSE Become(r, [pc |-> "apply", at |-> task[r].at + 1, last |-> last])
  /\ UNCHANGED <<account, management, caller, reader, disturbances>>

-----------------------------------------------------------------------------
(* apply_event: one management transaction.                                *)

IsDuplicate(n) == n <= applied /\ n \in inbox

IsNext(n) == n = applied + 1

(* Mutant: a private upsert leaves the row. *)
RowAfterPublicOnly(n) ==
  LET e == outbox[n] IN
  IF e.shows = "private" THEN row[e.system] ELSE [shows |-> e.shows, seq |-> n]
RowAfter(n) ==
  LET e == outbox[n] IN
  IF e.shows = "private" THEN NoRow ELSE [shows |-> e.shows, seq |-> n]

(* The upsert's WHERE: an existing row must be older. *)
Ownable(n) ==
  outbox[n].shows = "private" \/ row[outbox[n].system].seq < n

(* Mutant: an event without a reservation is refused as well. *)
ResolvableReserved(n) == outbox[n].reservation # 0
Resolvable(n) ==
  LET e == outbox[n] IN
  e.effect = "reduces" => reservations[e.reservation] = [system |-> e.system, resolved |-> 0]

Resolve(n) ==
  LET i == outbox[n].reservation IN
  reservations' = IF i # 0 /\ reservations[i].resolved = 0
                  THEN [reservations EXCEPT ![i].resolved = n]
                  ELSE reservations

(* Mutant: the checkpoint jumps to what the account was seen to have. *)
RecordSourceAsApplied(n) ==
  /\ inbox' = inbox \cup {n}
  /\ source' = SourceAfter(n) /\ applied' = SourceAfter(n)
RecordAppliedEvent(n) ==
  /\ inbox' = inbox \cup {n}
  /\ source' = SourceAfter(n) /\ applied' = n

(* A gap, a conflict, or an unusable reservation ends the reconciliation;  *)
(* EventsAreDelivered holds only because none of the three ever occurs.    *)
ApplyEvent(r) ==
  LET n == task[r].at
      usable == IsNext(n) /\ Ownable(n) /\ Resolvable(n)
  IN
  /\ At(r, "apply")
  /\ IF ~IsDuplicate(n) /\ usable
     THEN /\ row' = [row EXCEPT ![outbox[n].system] = RowAfter(n)]
          /\ Resolve(n)
          /\ RecordAppliedEvent(n)
     ELSE UNCHANGED management
  /\ IF IsDuplicate(n) \/ usable
     THEN task' = [task EXCEPT ![r].pc = "mark"]
     ELSE Finish(r)
  /\ UNCHANGED <<account, caller, reader, disturbances>>

MarkDelivered(r) ==
  /\ At(r, "mark") /\ FreeConnection
  /\ delivered' = delivered \cup {task[r].at}
  /\ IF task[r].at = task[r].last
     THEN Finish(r)
     ELSE Become(r, [pc |-> "apply", at |-> task[r].at + 1, last |-> task[r].last])
  /\ UNCHANGED <<visibility, outbox, management, caller, reader, disturbances>>

(* Waiting for a connection has a limit, then the call fails. *)
AcquireTimesOut(r) ==
  /\ (At(r, "repair") /\ task[r].at # 0) \/ At(r, "mark")
  /\ ~FreeConnection
  /\ Finish(r)
  /\ UNCHANGED <<account, management, caller, reader, disturbances>>

-----------------------------------------------------------------------------
(* What else goes on.                                                      *)

(* Any request of the account that reads takes one connection and gives it *)
(* back.                                                                   *)
AcquireToRead ==
  /\ ~reader /\ FreeConnection
  /\ disturbances < MaxDisturbances /\ disturbances' = disturbances + 1
  /\ reader' = TRUE
  /\ UNCHANGED <<account, management, caller, task>>

Release ==
  /\ reader /\ reader' = FALSE
  /\ UNCHANGED <<account, management, caller, task, disturbances>>

(* A statement fails, or the process dies. *)
ReconcilerFails(r) ==
  /\ ~At(r, "idle")
  /\ disturbances < MaxDisturbances /\ disturbances' = disturbances + 1
  /\ Finish(r)
  /\ UNCHANGED <<account, management, caller, reader>>

CallerFails(c) ==
  /\ caller[c] # NoCall
  /\ disturbances < MaxDisturbances /\ disturbances' = disturbances + 1
  /\ caller' = [caller EXCEPT ![c] = NoCall]
  /\ UNCHANGED <<account, management, task, reader>>

Reconcile(r) ==
  \/ ReadSource(r) \/ RecordSourceSequence(r) \/ AppliedSequence(r)
  \/ MarkDeliveredThrough(r) \/ Fetch(r)
  \/ ApplyEvent(r) \/ MarkDelivered(r) \/ AcquireTimesOut(r)

Next ==
  \/ \E s \in Systems, v \in Visibility : Publish(s, v)
  \/ \E c \in Callers :
       \/ \E s \in Systems, v \in Visibility : ReservePrivacyInvalidation(c, s, v)
       \/ Reduce(c) \/ Recover(c) \/ CallerFails(c)
  \/ \E r \in Reconcilers : Reconcile(r) \/ ReconcilerFails(r)
  \/ AcquireToRead \/ Release

Spec == Init /\ [][Next]_vars

(* Reconciliation runs again and again, its calls run to their end, and    *)
(* requests end.                                                           *)
FairSpec ==
  /\ Spec
  /\ \A r \in Reconcilers : WF_vars(Reconcile(r))
  /\ WF_vars(Release)

-----------------------------------------------------------------------------
(* Correctness.                                                            *)

(* Once every event is applied, no row shows more or less of its system    *)
(* than the account decided last; a row may be missing.                    *)
CaughtUpRowsAreCurrent ==
  applied = Len(outbox) =>
    \A s \in Systems : row[s].shows \in {Nothing, visibility[s]}

(* The outbox as a ProjectedView: "sequence/idempotency checks apply it    *)
(* exactly once"; whatever is repeated, interrupted or overlaps,           *)
(* rows change as if each event had been delivered once, in order.         *)
View == INSTANCE ProjectedView WITH
  Events <- Event, log <- outbox, position <- applied,
  view <- [s \in Systems |-> row[s].shows]

ImplementsProjectedView == View!Spec

(* Every committed event is applied and marked in the end.                 *)
EventsAreDelivered ==
  \A n \in 1..MaxEvents : Len(outbox) >= n ~> n \in delivered

(* ProjectionVisibility::Private: "Must not be represented by a            *)
(* discoverable projection".                                               *)
PrivateStaysHidden ==
  \A s \in Systems : visibility[s] = "private" => row[s].shows = Nothing

=============================================================================
