-------------------------- MODULE SystemLifecycle --------------------------
(***************************************************************************)
(* Systems of one account (system_lifecycle.rs and its repository): a row  *)
(* of the account database, its entry in the registry of the management    *)
(* database and the owner's role assignment, written one after the other,  *)
(* and changes of a row that name the version they expect.  Names,         *)
(* visibility and time zone are abstracted to the version that wrote them. *)
(***************************************************************************)
EXTENDS Naturals

CONSTANTS
  Requests,    \* requests under way
  Systems,     \* ids given to new systems
  MaxVersion,  \* bound on the changes of a row
  MaxFaults    \* bound on calls that fail

VARIABLES
  row,         \* systems: id -> version, 0 when there is none
  lifecycle,   \* .. and its lifecycle
  registry,    \* ids in system_registry
  owned,       \* ids whose creator has the owner's role
  request,     \* what each request is doing
  outcome,     \* history: how the creation of each id went
  lost,        \* history: ids of which a save wrote fields that another had replaced
  faults       \* calls that failed

vars == <<row, lifecycle, registry, owned, request, outcome, lost, faults>>

Idle == [pc |-> "idle", id |-> 0, expected |-> 0, loaded |-> 0, to |-> "active"]
Go(r, pc) == request' = [request EXCEPT ![r].pc = pc]
Done(r) == request' = [request EXCEPT ![r] = Idle]

Init ==
  /\ row = [s \in Systems |-> 0] /\ lifecycle = [s \in Systems |-> "active"]
  /\ registry = {} /\ owned = {}
  /\ request = [r \in Requests |-> Idle]
  /\ outcome = [s \in Systems |-> "none"] /\ lost = {} /\ faults = 0

----------------------------------------------------------------------------
\* Creating.  The repository inserts the row ..
Create(r, s) ==
  /\ request[r].pc = "idle" /\ outcome[s] = "none"
  /\ row' = [row EXCEPT ![s] = 1]
  /\ outcome' = [outcome EXCEPT ![s] = "creating"]
  /\ request' = [request EXCEPT ![r] = [Idle EXCEPT !.pc = "register", !.id = s]]
  /\ UNCHANGED <<lifecycle, registry, owned, lost, faults>>

\* .. and then its entry in the registry.
Register(r) ==
  /\ request[r].pc = "register"
  /\ registry' = registry \cup {request[r].id}
  /\ Go(r, "assign")
  /\ UNCHANGED <<row, lifecycle, owned, outcome, lost, faults>>

Assign(r) ==
  /\ request[r].pc = "assign"
  /\ owned' = owned \cup {request[r].id}
  /\ Go(r, "audit")
  /\ UNCHANGED <<row, lifecycle, registry, outcome, lost, faults>>

\* (mutant: the row stays)
UndoNothing(r) ==
  /\ request[r].pc = "undo"
  /\ outcome' = [outcome EXCEPT ![request[r].id] = "undone"]
  /\ Done(r)
  /\ UNCHANGED <<row, lifecycle, registry, owned, lost, faults>>

\* The row is deleted again, at the version it was created with.
Undo(r) ==
  /\ request[r].pc = "undo"
  /\ row' = IF row[request[r].id] = 1 THEN [row EXCEPT ![request[r].id] = 0] ELSE row
  /\ outcome' = [outcome EXCEPT ![request[r].id] = IF row[request[r].id] > 1 THEN "changed" ELSE "undone"]
  /\ Done(r)
  /\ UNCHANGED <<lifecycle, registry, owned, lost, faults>>

Audit(r) ==
  /\ request[r].pc = "audit"
  /\ outcome' = IF outcome[request[r].id] = "creating" THEN [outcome EXCEPT ![request[r].id] = "created"] ELSE outcome
  /\ Done(r)
  /\ UNCHANGED <<row, lifecycle, registry, owned, lost, faults>>

\* A call fails.  Only that of the role assignment is made up for.
Fail(r) ==
  /\ request[r].pc # "idle" /\ faults < MaxFaults
  /\ faults' = faults + 1
  /\ IF request[r].pc = "assign" THEN Go(r, "undo") /\ UNCHANGED outcome
     ELSE /\ Done(r)
          /\ outcome' = IF outcome[request[r].id] = "creating" /\ request[r].pc \in {"register", "undo", "audit"}
                        THEN [outcome EXCEPT ![request[r].id] = IF request[r].pc = "audit" THEN "created" ELSE "broken"]
                        ELSE outcome
  /\ UNCHANGED <<row, lifecycle, registry, owned, lost>>

----------------------------------------------------------------------------
\* update, archive and restore load the row, which is found by the registry.
\* The version they expect is one their caller was shown.
Load(r, s, expected, to) ==
  /\ request[r].pc = "idle" /\ s \in registry /\ row[s] # 0 /\ expected <= row[s]
  /\ request' = [request EXCEPT ![r] = [pc |-> "save", id |-> s, expected |-> expected, loaded |-> row[s],
                                        to |-> IF to = "as loaded" THEN lifecycle[s] ELSE to]]
  /\ UNCHANGED <<row, lifecycle, registry, owned, outcome, lost, faults>>

\* (mutant: the version not compared)
SaveAnyway(r) ==
  LET q == request[r] IN
  /\ q.pc = "save" /\ row[q.id] < MaxVersion /\ row[q.id] # 0
  /\ row' = [row EXCEPT ![q.id] = @ + 1] /\ lifecycle' = [lifecycle EXCEPT ![q.id] = q.to]
  /\ lost' = IF q.loaded # row[q.id] THEN lost \cup {q.id} ELSE lost
  /\ Go(r, "register again")
  /\ UNCHANGED <<registry, owned, outcome, faults>>

\* One conditional statement.  All fields are written, those that were loaded too.
Save(r) ==
  LET q == request[r] IN
  /\ q.pc = "save" /\ row[q.id] < MaxVersion
  /\ IF row[q.id] = q.expected
     THEN /\ row' = [row EXCEPT ![q.id] = @ + 1] /\ lifecycle' = [lifecycle EXCEPT ![q.id] = q.to]
          /\ lost' = IF q.loaded # row[q.id] THEN lost \cup {q.id} ELSE lost
          /\ Go(r, "register again")
     ELSE Done(r) /\ UNCHANGED <<row, lifecycle, lost>>
  /\ UNCHANGED <<registry, owned, outcome, faults>>

RegisterAgain(r) ==
  /\ request[r].pc = "register again"
  /\ registry' = registry \cup {request[r].id}
  /\ Done(r)
  /\ UNCHANGED <<row, lifecycle, owned, outcome, lost, faults>>

\* Confirmed deletion, in one statement: the row only.
Delete(r, s, expected) ==
  /\ request[r].pc = "idle" /\ s \in registry /\ row[s] # 0 /\ expected <= row[s]
  /\ IF row[s] = expected
     THEN /\ row' = [row EXCEPT ![s] = 0]
          /\ outcome' = [outcome EXCEPT ![s] = IF @ = "created" THEN "deleted" ELSE "gone"]
     ELSE UNCHANGED <<row, outcome>>
  /\ UNCHANGED <<request, lifecycle, registry, owned, lost, faults>>

Next ==
  \E r \in Requests :
    \/ \E s \in Systems :
         \/ Create(r, s)
         \/ \E expected \in 1 .. MaxVersion :
              Delete(r, s, expected) \/ \E to \in {"as loaded", "active", "archived"} : Load(r, s, expected, to)
    \/ Register(r) \/ Assign(r) \/ Undo(r) \/ Audit(r) \/ Fail(r) \/ Save(r) \/ RegisterAgain(r)

Spec == Init /\ [][Next]_vars

----------------------------------------------------------------------------
\* A creation that was answered left all three; one whose role assignment
\* failed left no row, unless someone changed the system in the meantime or
\* the removal failed as well.
CreatedIsWhole ==
  \A s \in Systems :
    /\ outcome[s] = "created" => row[s] # 0 /\ s \in registry /\ s \in owned
    /\ outcome[s] = "undone" => row[s] = 0 /\ s \notin owned

\* No save writes back fields that another request has replaced since they
\* were loaded, archiving and updating included.
NoLostUpdate == lost = {}
=============================================================================
