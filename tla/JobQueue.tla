------------------------------ MODULE JobQueue ------------------------------
(***************************************************************************)
(* The durable per-account job queue: the table account_jobs behind        *)
(* OperationalRepository and the YieldJobCoordinator that enqueues into it *)
(* and executes from it.                                                   *)
(*                                                                         *)
(* Every SQL statement of the repository is atomic (one UPDATE under the   *)
(* account's writer mutex); everything between two statements is not, so   *)
(* enqueue (read, then upsert), execute_one (lease, handler, outcome) and  *)
(* retry_job (read, then update) are split at those points.                *)
(*                                                                         *)
(* Time is relative: a timestamp column is kept as the number of ticks     *)
(* until it is reached, 0 when it is reached.  "wait" stands for           *)
(* available_at, "ttl" for lease_expires_at.  The order in which reached   *)
(* available_at values lie in the past is kept in "line".  Priority is not *)
(* modelled: the coordinator saves every job with priority 0.              *)
(***************************************************************************)
EXTENDS Integers, Sequences, FiniteSets
LOCAL INSTANCE SequencesExt

CONSTANTS
  Jobs,             \* job ids; an id is a function of (account, kind, key)
  Tasks,            \* concurrent execute_one calls
  Owners,           \* lease owner names
  OwnerOf,          \* the owner name a task leases under
  Enqueuers,        \* concurrent enqueue calls
  NoJob, NoOwner,
  Concurrency,      \* permits of one coordinator (policy.concurrency)
  LeaseTime,        \* policy.lease_milliseconds
  MaxDelay,         \* the longest backoff plus jitter
  MaxAttempts,      \* policy.maximum_attempts
  AttemptCap,       \* bound: attempt counts from here on are not told apart
  MaxAbandons,      \* bound: executions that end without reporting
  MaxInterventions  \* bound: operator cancel and requeue commands

ASSUME ConstantsAssumption ==
  /\ NoJob \notin Jobs /\ NoOwner \notin Owners \cup Tasks
  /\ OwnerOf \in [Tasks -> Owners]
  /\ Concurrency \in Nat \ {0}
  /\ LeaseTime \in Nat \ {0}
  /\ MaxDelay \in Nat
  /\ MaxAttempts \in Nat \ {0}
  /\ AttemptCap \in Nat /\ AttemptCap > MaxAttempts
  /\ MaxAbandons \in Nat /\ MaxInterventions \in Nat

VARIABLES
  job,           \* the rows of account_jobs
  line,          \* the jobs by available_at (ORDER BY available_at, id)
  task,          \* what each execute_one call is doing
  enqueuing,     \* the job each enqueue call found missing and is to save
  revoked,       \* history: executing tasks whose lease was taken away by a
                 \* cancellation or by a racing enqueue, not by expiry
  abandons,      \* executions that ended without reporting
  interventions  \* operator commands that changed a job

vars == <<job, line, task, enqueuing, revoked, abandons, interventions>>

(* 'failed' is allowed by the schema and by requeue_job; nothing writes it. *)
JobState ==
  {"absent", "pending", "leased", "retry_wait", "completed", "failed",
   "dead_letter", "cancelled"}

JobRow ==
  [state : JobState, attempts : 0..AttemptCap, wait : 0..MaxDelay,
   owner : Owners \cup {NoOwner}, ttl : 0..LeaseTime]

(* pc "failing": retry_job has read "seen" attempts and not yet written. *)
TaskState ==
  [pc : {"idle", "running", "failing"}, job : Jobs \cup {NoJob},
   ttl : 0..LeaseTime, seen : 0..AttemptCap]

TypeOK ==
  /\ job \in [Jobs -> JobRow]
  /\ task \in [Tasks -> TaskState]
  /\ \A t \in Tasks : task[t].pc # "idle" => task[t].job \in Jobs
  /\ enqueuing \in [Enqueuers -> Jobs \cup {NoJob}]
  /\ revoked \in SUBSET Tasks
  /\ abandons \in 0..MaxAbandons
  /\ interventions \in 0..MaxInterventions

NoRow == [state |-> "absent", attempts |-> 0, wait |-> 0, owner |-> NoOwner, ttl |-> 0]
IdleTask == [pc |-> "idle", job |-> NoJob, ttl |-> 0, seen |-> 0]

Init ==
  /\ job = [j \in Jobs |-> NoRow]
  /\ line = <<>>
  /\ task = [t \in Tasks |-> IdleTask]
  /\ enqueuing = [e \in Enqueuers |-> NoJob]
  /\ revoked = {}
  /\ abandons = 0
  /\ interventions = 0

-----------------------------------------------------------------------------
(* Reading the table.                                                      *)

Executes(t, j) == task[t].pc # "idle" /\ task[t].job = j
ExecutorsOf(j) == {t \in Tasks : Executes(t, j)}

(* Mutants: a lease that has not run out is taken over; or one that has    *)
(* run out is not.                                                         *)
LeasableWhileHeld(j) ==
  job[j].wait = 0 /\ job[j].state \in {"pending", "retry_wait", "leased"}
LeasableUnheld(j) ==
  job[j].wait = 0 /\ job[j].state \in {"pending", "retry_wait"}

(* The WHERE clause of lease_job. *)
Leasable(j) ==
  /\ job[j].wait = 0
  /\ \/ job[j].state \in {"pending", "retry_wait"}
     \/ job[j].state = "leased" /\ job[j].ttl = 0

(* Its ORDER BY ... LIMIT 1.  A call whose "now" is old ("late") does not  *)
(* see that a lease has run out since.                                     *)
FirstLeasable(j, late) ==
  \E i \in DOMAIN line :
    /\ line[i] = j
    /\ Leasable(j)
    /\ \A k \in 1..(i - 1) :
         ~Leasable(line[k]) \/ (late /\ job[line[k]].state = "leased")

(* Mutant: the clause forgets the state. *)
OwnedBy(j, owner) == job[j].owner = owner

(* The WHERE clause of heartbeat, complete and retry: the lease is known   *)
(* by its owner's name.                                                    *)
LeasedBy(j, owner) == job[j].state = "leased" /\ job[j].owner = owner

Position(j) ==
  IF \E i \in DOMAIN line : line[i] = j
  THEN CHOOSE i \in DOMAIN line : line[i] = j
  ELSE 1

(* The place of j after a statement gave it a new available_at, which is   *)
(* never earlier than the old one.  Calls pass a "now" they read before    *)
(* they waited, so among the jobs that are due the place is not fixed.     *)
Relocate(j) ==
  \E p \in Position(j)..(Len(line) + 1) :
    LET moved == InsertAt(Remove(line, j), p, j)
    IN /\ p <= Len(Remove(line, j)) + 1
       /\ \A i, k \in DOMAIN moved : i < k => job'[moved[i]].wait <= job'[moved[k]].wait
       /\ line' = moved

-----------------------------------------------------------------------------
(* enqueue.  A call that finds the row returns its id and changes nothing. *)

EnqueueRead(e, j) ==
  /\ enqueuing[e] = NoJob
  /\ job[j].state = "absent"
  /\ enqueuing' = [enqueuing EXCEPT ![e] = j]
  /\ UNCHANGED <<job, line, task, revoked, abandons, interventions>>

(* save_job is an upsert: it does not look again, and it leaves the lease  *)
(* columns of a row that appeared meanwhile as they are.                   *)
Saved(row) == [row EXCEPT !.state = "pending", !.attempts = 0, !.wait = 0]

EnqueueSave(e) ==
  LET j == enqueuing[e]
  IN /\ j # NoJob
     /\ job' = [job EXCEPT ![j] = Saved(@)]
     /\ Relocate(j)
     /\ revoked' = revoked \cup ExecutorsOf(j)
     /\ enqueuing' = [enqueuing EXCEPT ![e] = NoJob]
     /\ UNCHANGED <<task, abandons, interventions>>

-----------------------------------------------------------------------------
(* execute_one.                                                            *)

PermitFree(t) ==
  Cardinality({u \in Tasks : OwnerOf[u] = OwnerOf[t] /\ task[u].pc # "idle"}) < Concurrency

Bump(n) == IF n < AttemptCap THEN n + 1 ELSE n

(* The caller read "now" before it waited for the permit, so any part of   *)
(* the lease time may be over when the lease begins.                       *)
Lease(t, j) ==
  /\ task[t].pc = "idle"
  /\ PermitFree(t)
  /\ \E ttl \in 0..LeaseTime :
       /\ FirstLeasable(j, ttl < LeaseTime)
       /\ job' = [job EXCEPT ![j].state = "leased", ![j].owner = OwnerOf[t],
                             ![j].ttl = ttl, ![j].attempts = Bump(@)]
       /\ task' = [task EXCEPT ![t] =
                     [pc |-> "running", job |-> j, ttl |-> ttl, seen |-> 0]]
  /\ revoked' = revoked \ {t}
  /\ UNCHANGED <<line, enqueuing, abandons, interventions>>

(* heartbeat_job; execute_one itself never calls it. *)
Heartbeat(t) ==
  LET j == task[t].job
  IN /\ task[t].pc = "running"
     /\ LeasedBy(j, OwnerOf[t])
     /\ job[j].ttl > 0
     /\ job' = [job EXCEPT ![j].ttl = LeaseTime]
     /\ task' = [task EXCEPT ![t].ttl = LeaseTime]
     /\ UNCHANGED <<line, enqueuing, revoked, abandons, interventions>>

Return(t) == task' = [task EXCEPT ![t] = IdleTask]

Unleased(row) == [row EXCEPT !.owner = NoOwner, !.ttl = 0]

(* The handler succeeded.  complete_job tells whether it changed the row;  *)
(* execute_one ignores the answer.                                         *)
Complete(t) ==
  LET j == task[t].job
  IN /\ task[t].pc = "running"
     /\ job' = IF LeasedBy(j, OwnerOf[t]) \/ job[j].state = "completed"
               THEN [job EXCEPT ![j] = [Unleased(@) EXCEPT !.state = "completed"]]
               ELSE job
     /\ Return(t)
     /\ UNCHANGED <<line, enqueuing, revoked, abandons, interventions>>

(* The handler failed: retry_job reads the row ... *)
RetryRead(t) ==
  /\ task[t].pc = "running"
  /\ task' = [task EXCEPT ![t].pc = "failing", ![t].seen = job[task[t].job].attempts]
  /\ UNCHANGED <<job, line, enqueuing, revoked, abandons, interventions>>

(* Mutant: one attempt too many. *)
DispositionOneMore(seen) == IF seen > MaxAttempts THEN "dead_letter" ELSE "retry_wait"

(* ... decides on what it read ... *)
Disposition(seen) == IF seen >= MaxAttempts THEN "dead_letter" ELSE "retry_wait"

(* ... and updates the row if its owner still holds the lease.  The delay  *)
(* counts from before the handler ran, so any part of it may be over.      *)
RetryWrite(t) ==
  LET j == task[t].job
      disposition == Disposition(task[t].seen)
  IN /\ task[t].pc = "failing"
     /\ LeasedBy(j, OwnerOf[t])
     /\ \E delay \in IF disposition = "retry_wait" THEN 0..MaxDelay ELSE {0} :
          job' = [job EXCEPT ![j] = [Unleased(@) EXCEPT !.state = disposition, !.wait = delay]]
     /\ Relocate(j)
     /\ Return(t)
     /\ UNCHANGED <<enqueuing, revoked, abandons, interventions>>

RetryLeaseLost(t) ==
  /\ task[t].pc = "failing"
  /\ ~LeasedBy(task[t].job, OwnerOf[t])
  /\ Return(t)
  /\ UNCHANGED <<job, line, enqueuing, revoked, abandons, interventions>>

(* The process dies, or the payload does not decode, or the outcome cannot *)
(* be stored: the row stays leased.                                        *)
Abandon(t) ==
  /\ task[t].pc # "idle"
  /\ abandons < MaxAbandons
  /\ abandons' = abandons + 1
  /\ Return(t)
  /\ UNCHANGED <<job, line, enqueuing, revoked, interventions>>

-----------------------------------------------------------------------------
(* The operator's "forecast cancel" and "forecast retry".                  *)

Cancel(j) ==
  /\ interventions < MaxInterventions
  /\ job[j].state \notin {"absent", "completed", "cancelled"}
  /\ job' = [job EXCEPT ![j] = [Unleased(@) EXCEPT !.state = "cancelled"]]
  /\ revoked' = revoked \cup ExecutorsOf(j)
  /\ interventions' = interventions + 1
  /\ UNCHANGED <<line, task, enqueuing, abandons>>

Requeue(j) ==
  /\ interventions < MaxInterventions
  /\ job[j].state \in {"dead_letter", "failed", "cancelled"}
  /\ job' = [job EXCEPT ![j] = [Unleased(@) EXCEPT !.state = "pending",
                                                    !.attempts = 0, !.wait = 0]]
  /\ Relocate(j)
  /\ interventions' = interventions + 1
  /\ UNCHANGED <<task, enqueuing, revoked, abandons>>

Less(n) == IF n > 0 THEN n - 1 ELSE 0

Tick ==
  /\ \/ \E j \in Jobs : job[j].wait > 0 \/ job[j].ttl > 0
     \/ \E t \in Tasks : task[t].ttl > 0
  /\ job' = [j \in Jobs |-> [job[j] EXCEPT !.wait = Less(@), !.ttl = Less(@)]]
  /\ task' = [t \in Tasks |-> [task[t] EXCEPT !.ttl = Less(@)]]
  /\ UNCHANGED <<line, enqueuing, revoked, abandons, interventions>>

-----------------------------------------------------------------------------

Report(t) == Complete(t) \/ RetryRead(t) \/ RetryWrite(t) \/ RetryLeaseLost(t)

Next ==
  \/ \E e \in Enqueuers : EnqueueSave(e) \/ \E j \in Jobs : EnqueueRead(e, j)
  \/ \E t \in Tasks : \E j \in Jobs : Lease(t, j)
  \/ \E t \in Tasks : Heartbeat(t) \/ Report(t) \/ Abandon(t)
  \/ \E j \in Jobs : Cancel(j) \/ Requeue(j)
  \/ Tick

Spec == Init /\ [][Next]_vars

(* Workers poll, handlers return, enqueue calls run to their end, and time *)
(* passes.  Operators and failures are under no obligation.                *)
Fairness ==
  /\ \A t \in Tasks : WF_vars(\E j \in Jobs : Lease(t, j)) /\ WF_vars(Report(t))
  /\ \A e \in Enqueuers : WF_vars(EnqueueSave(e))
  /\ WF_vars(Tick)

FairSpec == Spec /\ Fairness

-----------------------------------------------------------------------------
(* Correctness.                                                            *)

LeaseLives(t) == task[t].pc # "idle" /\ task[t].ttl > 0

(* Two executions of one job overlap inside their lease time only if one   *)
(* of them had its lease taken away (cancel, racing enqueue).              *)
LeaseExclusive ==
  \A t, u \in Tasks :
    /\ t # u /\ task[t].job = task[u].job
    /\ LeaseLives(t) /\ LeaseLives(u)
    => t \in revoked \/ u \in revoked

(* An execution inside its lease time that was not revoked is the one the  *)
(* row names, so its outcome will be stored.                               *)
LiveLeaseRecorded ==
  \A t \in Tasks :
    LeaseLives(t) /\ t \notin revoked =>
      /\ LeasedBy(task[t].job, OwnerOf[t])
      /\ job[task[t].job].ttl = task[t].ttl

(* retry_disposition decided on the count the row still has: a job waits   *)
(* for a retry only while it has attempts left, and is dead-lettered only  *)
(* when it has none.                                                       *)
RetryBudget ==
  \A j \in Jobs :
    /\ job[j].state = "retry_wait" => job[j].attempts < MaxAttempts
    /\ job[j].state = "dead_letter" => job[j].attempts >= MaxAttempts

(* An execution that was revoked records no outcome: cancellation          *)
(* "prevents a leased job from recording completion", even when the job    *)
(* was requeued and leased again meanwhile.                                *)
RevokedRecordsNothing ==
  [][\A t \in revoked : task'[t].pc = "idle" =>
       \A j \in Jobs : Executes(t, j) => job'[j] = job[j]]_vars

(* No two tasks share an owner name. *)
OwnNames == \A t, u \in Tasks : OwnerOf[t] = OwnerOf[u] => t = u

(* What the safety properties rest on.  The row names an executing task    *)
(* only while its lease stands, and then still has the count retry_job     *)
(* read; a completed row has no lease.                                     *)
RevokedNotNamed ==
  \A t \in revoked :
    task[t].pc # "idle" => ~LeasedBy(task[t].job, OwnerOf[t])
SeenIsCurrent ==
  \A t \in Tasks :
    /\ task[t].pc = "failing"
    /\ LeasedBy(task[t].job, OwnerOf[t])
    => task[t].seen = job[task[t].job].attempts
CompletedUnleased ==
  \A j \in Jobs :
    job[j].state = "completed" => job[j].owner = NoOwner /\ job[j].ttl = 0

SafetyInv ==
  /\ TypeOK
  /\ LiveLeaseRecorded
  /\ RevokedNotNamed
  /\ SeenIsCurrent
  /\ CompletedUnleased
  /\ RetryBudget

(* "bounded retries": no job is attempted more often than it may be. *)
AttemptsBounded == \A j \in Jobs : job[j].attempts <= MaxAttempts

(* Enqueueing what is already there changes nothing: a completed job is    *)
(* not run again.                                                          *)
CompletedStaysCompleted ==
  [][\A j \in Jobs : job[j].state = "completed" => job'[j].state = "completed"]_vars

(* If from some point on no lease expires under a running handler, every   *)
(* job that was enqueued is completed, dead-lettered or cancelled.         *)
Settled(j) == job[j].state \in {"completed", "dead_letter", "cancelled"}
Timely == \A t \in Tasks : task[t].pc # "idle" => task[t].ttl > 0
EveryJobSettles ==
  <>[]Timely => \A j \in Jobs : (job[j].state # "absent") ~> Settled(j)

-----------------------------------------------------------------------------
(* The queue as an implementation of LeasedWork.                           *)

AbstractStatus(row) ==
  CASE row.state \in {"pending", "retry_wait"} -> "queued"
    [] row.state = "leased" -> "held"
    [] row.state = "completed" -> "done"
    [] row.state = "dead_letter" -> "dead"
    [] OTHER -> row.state
Holders(j) == {t \in Tasks : Executes(t, j) /\ LeasedBy(j, OwnerOf[t])}
HolderOf(j) == IF Holders(j) = {} THEN NoOwner ELSE CHOOSE t \in Holders(j) : TRUE
Lapsed(row) == row.state = "leased" /\ row.ttl = 0

Work == INSTANCE LeasedWork WITH
  Nobody <- NoOwner,
  status <- [j \in Jobs |-> AbstractStatus(job[j])],
  holder <- [j \in Jobs |-> HolderOf(j)],
  lapsed <- [j \in Jobs |-> Lapsed(job[j])]

(* No two enqueue calls are about to save the same job.                    *)
Unraced ==
  \A e, f \in Enqueuers : enqueuing[e] = enqueuing[f] => e = f \/ enqueuing[e] = NoJob

(* As long as enqueue calls do not race, every step of the queue is one of *)
(* LeasedWork or leaves it alone: work is held by at most one worker, it   *)
(* changes hands only after the hold lapsed, and only the holder settles   *)
(* it.                                                                     *)
ImplementsLeasedWork == Work!Spec

=============================================================================
