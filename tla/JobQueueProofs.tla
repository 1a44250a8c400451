--------------------------- MODULE JobQueueProofs ---------------------------
(***************************************************************************)
(* Safety of the job queue for every number of jobs, tasks and enqueuers,  *)
(* and every lease time, delay and attempt limit.                          *)
(***************************************************************************)
EXTENDS JobQueue, TLAPS

(* What each statement writes is a row. *)
LEMMA RowsWritten ==
  ASSUME NEW row \in JobRow
  PROVE  /\ Saved(row) \in JobRow
         /\ Unleased(row) \in JobRow
         /\ \A s \in JobState, w \in 0..MaxDelay :
              [Unleased(row) EXCEPT !.state = s, !.wait = w] \in JobRow
         /\ \A s \in JobState : [Unleased(row) EXCEPT !.state = s] \in JobRow
         /\ \A o \in Owners, ttl \in 0..LeaseTime :
              [row EXCEPT !.state = "leased", !.owner = o, !.ttl = ttl,
                          !.attempts = Bump(@)] \in JobRow
  <1>1. 0 \in 0..AttemptCap /\ 0 \in 0..MaxDelay /\ 0 \in 0..LeaseTime /\ LeaseTime \in 0..LeaseTime
    BY ConstantsAssumption
  <1>2. Saved(row) \in JobRow
    BY <1>1 DEF JobRow, JobState, Saved
  <1>3. Unleased(row) \in JobRow
    BY <1>1 DEF JobRow, Unleased
  <1>4. \A r \in JobRow, s \in JobState, w \in 0..MaxDelay :
          [r EXCEPT !.state = s, !.wait = w] \in JobRow /\ [r EXCEPT !.state = s] \in JobRow
    BY DEF JobRow
  <1>5. Bump(row.attempts) \in 0..AttemptCap
    BY ConstantsAssumption DEF JobRow, Bump
  <1>6. \A o \in Owners, ttl \in 0..LeaseTime, n \in 0..AttemptCap :
          [row EXCEPT !.state = "leased", !.owner = o, !.ttl = ttl, !.attempts = n] \in JobRow
    BY <1>1 DEF JobRow, JobState
  <1> QED BY <1>1, <1>2, <1>3, <1>4, <1>5, <1>6

USE DEF LeasedBy, Unleased, Executes, ExecutorsOf, IdleTask, Return

(* Initially there is no row and no task executes. *)
LEMMA InitEstablishes == Init => SafetyInv
  BY ConstantsAssumption DEF Init, SafetyInv, TypeOK, JobRow, JobState, TaskState, NoRow,
         LiveLeaseRecorded, LeaseLives, RevokedNotNamed, SeenIsCurrent,
         CompletedUnleased, RetryBudget

(* An enqueue call that found no row has written nothing yet. *)
LEMMA EnqueueReadKeeps ==
  ASSUME SafetyInv, NEW e \in Enqueuers, NEW j \in Jobs, EnqueueRead(e, j)
  PROVE  SafetyInv'
  BY ConstantsAssumption DEF EnqueueRead, SafetyInv, TypeOK, LiveLeaseRecorded, LeaseLives,
         RevokedNotNamed, SeenIsCurrent, CompletedUnleased, RetryBudget

(* The upsert may hit a leased row: its executors are revoked with it. *)
LEMMA EnqueueSaveKeeps ==
  ASSUME SafetyInv, NEW e \in Enqueuers, EnqueueSave(e)
  PROVE  SafetyInv'
  <1> DEFINE j == enqueuing[e]
  <1> USE DEF EnqueueSave, Saved
  <1>1. j \in Jobs /\ job[j] \in JobRow
    BY DEF SafetyInv, TypeOK
  <1>2. TypeOK'
    <2>1. Saved(job[j]) \in JobRow
      BY <1>1, RowsWritten
    <2>2. job' \in [Jobs -> JobRow]
      BY <1>1, <2>1 DEF SafetyInv, TypeOK
    <2>3. enqueuing' \in [Enqueuers -> Jobs \cup {NoJob}] /\ revoked' \in SUBSET Tasks
      BY DEF SafetyInv, TypeOK
    <2> QED BY <2>2, <2>3 DEF SafetyInv, TypeOK
  <1>3. /\ \A k \in Jobs \ {j} : job'[k] = job[k]
        /\ job'[j].state = "pending"
    BY <1>1 DEF SafetyInv, TypeOK, JobRow
  <1>4. LiveLeaseRecorded'
    BY <1>1, <1>3 DEF SafetyInv, TypeOK, LiveLeaseRecorded, LeaseLives
  <1>5. RevokedNotNamed'
    BY <1>1, <1>3 DEF SafetyInv, TypeOK, RevokedNotNamed
  <1>6. SeenIsCurrent'
    BY <1>1, <1>3 DEF SafetyInv, TypeOK, SeenIsCurrent
  <1>7. CompletedUnleased' /\ RetryBudget'
    BY <1>1, <1>3 DEF SafetyInv, CompletedUnleased, RetryBudget
  <1> QED BY <1>2, <1>4, <1>5, <1>6, <1>7 DEF SafetyInv

(* lease_job takes a job no unrevoked execution still holds in its time. *)
LEMMA LeaseKeeps ==
  ASSUME OwnNames, SafetyInv, NEW t \in Tasks, NEW j \in Jobs, Lease(t, j)
  PROVE  SafetyInv'
  <1>ttl. PICK ttl \in 0..LeaseTime :
             /\ FirstLeasable(j, ttl < LeaseTime)
             /\ job' = [job EXCEPT ![j].state = "leased", ![j].owner = OwnerOf[t],
                                   ![j].ttl = ttl, ![j].attempts = Bump(@)]
             /\ task' = [task EXCEPT ![t] =
                           [pc |-> "running", job |-> j, ttl |-> ttl, seen |-> 0]]
    BY DEF Lease
  <1>same. /\ revoked' = revoked \ {t}
           /\ UNCHANGED <<line, enqueuing, abandons, interventions>>
    BY DEF Lease
  <1>1. TypeOK'
    <2>1. job[j] \in JobRow /\ OwnerOf[t] \in Owners
      BY ConstantsAssumption DEF SafetyInv, TypeOK
    <2>2. [job[j] EXCEPT !.state = "leased", !.owner = OwnerOf[t],
                         !.ttl = ttl, !.attempts = Bump(@)] \in JobRow
      BY <2>1, RowsWritten
    <2>3. job' \in [Jobs -> JobRow]
      BY <1>ttl, <2>2 DEF SafetyInv, TypeOK
    <2>4. task' \in [Tasks -> TaskState]
      BY <1>ttl, ConstantsAssumption DEF SafetyInv, TypeOK, TaskState
    <2> QED BY <2>3, <2>4, <1>ttl, <1>same DEF SafetyInv, TypeOK
  <1>2. /\ \A k \in Jobs \ {j} : job'[k] = job[k]
        /\ job'[j].state = "leased" /\ job'[j].owner = OwnerOf[t] /\ job'[j].ttl = ttl
        /\ \A u \in Tasks \ {t} : task'[u] = task[u]
        /\ task'[t] = [pc |-> "running", job |-> j, ttl |-> ttl, seen |-> 0]
    BY <1>ttl DEF SafetyInv, TypeOK, JobRow
  <1>3. \A u \in Tasks : OwnerOf[u] = OwnerOf[t] => u = t
    BY DEF OwnNames
  <1>4. \A u \in Tasks \ {t} : LeaseLives(u) /\ u \notin revoked => task[u].job # j
    BY <1>3, <1>ttl DEF SafetyInv, LiveLeaseRecorded, LeaseLives, FirstLeasable, Leasable
  <1>5. LiveLeaseRecorded'
    BY <1>2, <1>4, <1>same DEF SafetyInv, TypeOK, LiveLeaseRecorded, LeaseLives
  <1>6. RevokedNotNamed'
    BY <1>2, <1>3, <1>same DEF SafetyInv, TypeOK, RevokedNotNamed
  <1>7. SeenIsCurrent'
    BY <1>2, <1>3, <1>same DEF SafetyInv, TypeOK, SeenIsCurrent
  <1>8. CompletedUnleased' /\ RetryBudget'
    BY <1>2 DEF SafetyInv, CompletedUnleased, RetryBudget
  <1> QED BY <1>1, <1>5, <1>6, <1>7, <1>8 DEF SafetyInv

(* heartbeat_job renews the row and the task alike. *)
LEMMA HeartbeatKeeps ==
  ASSUME OwnNames, SafetyInv, NEW t \in Tasks, Heartbeat(t)
  PROVE  SafetyInv'
  <1> DEFINE j == task[t].job
  <1> USE DEF Heartbeat
  <1>1. j \in Jobs
    BY DEF SafetyInv, TypeOK
  <1>2. TypeOK'
    BY ConstantsAssumption, <1>1 DEF SafetyInv, TypeOK, JobRow, JobState, TaskState
  <1>3. /\ \A k \in Jobs \ {j} : job'[k] = job[k]
        /\ job'[j] = [job[j] EXCEPT !.ttl = LeaseTime]
        /\ \A u \in Tasks \ {t} : task'[u] = task[u]
        /\ task'[t] = [task[t] EXCEPT !.ttl = LeaseTime]
    BY <1>1 DEF SafetyInv, TypeOK
  <1>4. \A u \in Tasks \ {t} : LeaseLives(u) /\ u \notin revoked => task[u].job # j
    BY <1>1 DEF OwnNames, SafetyInv, LiveLeaseRecorded
  <1>5. LiveLeaseRecorded'
    BY ConstantsAssumption, <1>1, <1>3, <1>4 DEF SafetyInv, TypeOK, JobRow, TaskState,
                             LiveLeaseRecorded, LeaseLives
  <1>6. RevokedNotNamed' /\ SeenIsCurrent'
    BY SMTT(30), <1>1, <1>3 DEF SafetyInv, TypeOK, JobRow, TaskState, RevokedNotNamed, SeenIsCurrent
  <1>7. CompletedUnleased' /\ RetryBudget'
    BY <1>1, <1>3 DEF SafetyInv, TypeOK, JobRow, CompletedUnleased, RetryBudget
  <1> QED BY <1>2, <1>5, <1>6, <1>7 DEF SafetyInv

(* complete_job changes a row only for the owner it names. *)
LEMMA CompleteKeeps ==
  ASSUME OwnNames, SafetyInv, NEW t \in Tasks, Complete(t)
  PROVE  SafetyInv'
  <1> DEFINE j == task[t].job
  <1>1. j \in Jobs /\ job[j] \in JobRow
    BY DEF Complete, SafetyInv, TypeOK
  <1>2. TypeOK'
    <2>1. [Unleased(job[j]) EXCEPT !.state = "completed"] \in JobRow
      BY <1>1, RowsWritten DEF JobState
    <2>2. job' \in [Jobs -> JobRow]
      BY <1>1, <2>1 DEF Complete, SafetyInv, TypeOK
    <2>3. task' \in [Tasks -> TaskState]
      BY ConstantsAssumption DEF Complete, SafetyInv, TypeOK, TaskState
    <2> QED BY <2>2, <2>3 DEF Complete, SafetyInv, TypeOK
  <1>3. /\ \A k \in Jobs \ {j} : job'[k] = job[k]
        /\ \/ /\ LeasedBy(j, OwnerOf[t]) \/ job[j].state = "completed"
              /\ job'[j].state = "completed" /\ job'[j].owner = NoOwner /\ job'[j].ttl = 0
           \/ job'[j] = job[j]
        /\ \A u \in Tasks \ {t} : task'[u] = task[u]
        /\ task'[t] = IdleTask
        /\ revoked' = revoked
    BY <1>1 DEF Complete, SafetyInv, TypeOK, JobRow
  <1>4. \A u \in Tasks \ {t} : OwnerOf[u] # OwnerOf[t]
    BY DEF OwnNames
  <1>5. LiveLeaseRecorded'
    BY <1>1, <1>3, <1>4 DEF SafetyInv, TypeOK, LiveLeaseRecorded, LeaseLives
  <1>6. RevokedNotNamed' /\ SeenIsCurrent'
    BY <1>1, <1>3, <1>4 DEF SafetyInv, TypeOK, RevokedNotNamed, SeenIsCurrent
  <1>7. CompletedUnleased' /\ RetryBudget'
    BY <1>1, <1>3 DEF SafetyInv, CompletedUnleased, RetryBudget
  <1> QED BY <1>2, <1>5, <1>6, <1>7 DEF SafetyInv

(* The count retry_job reads is the current one. *)
LEMMA RetryReadKeeps ==
  ASSUME SafetyInv, NEW t \in Tasks, RetryRead(t)
  PROVE  SafetyInv'
  <1> USE DEF RetryRead
  <1>1. task[t].job \in Jobs /\ job[task[t].job] \in JobRow /\ task[t] \in TaskState
    BY DEF SafetyInv, TypeOK
  <1>2. /\ \A u \in Tasks \ {t} : task'[u] = task[u]
        /\ task'[t] = [task[t] EXCEPT !.pc = "failing", !.seen = job[task[t].job].attempts]
    BY DEF SafetyInv, TypeOK
  <1>3. task'[t] \in TaskState
    <2>1. job[task[t].job].attempts \in 0..AttemptCap
      BY <1>1 DEF JobRow
    <2>2. \A r \in TaskState, n \in 0..AttemptCap :
            [r EXCEPT !.pc = "failing", !.seen = n] \in TaskState
      BY DEF TaskState
    <2>3. [task[t] EXCEPT !.pc = "failing", !.seen = job[task[t].job].attempts] \in TaskState
      BY <1>1, <2>1, <2>2, ZenonT(40)
    <2> QED BY <1>2, <2>3
  <1>4. TypeOK'
    BY <1>1, <1>2, <1>3 DEF SafetyInv, TypeOK
  <1>5. LiveLeaseRecorded' /\ RevokedNotNamed' /\ SeenIsCurrent'
    <2>1. /\ task'[t].job = task[t].job /\ task'[t].ttl = task[t].ttl
          /\ task'[t].pc = "failing" /\ task'[t].seen = job[task[t].job].attempts
      <3> HIDE DEF RetryRead
      <3> DEFINE n == job[task[t].job].attempts
      <3>1. task'[t] = [task[t] EXCEPT !.pc = "failing", !.seen = n]
        BY <1>2, Zenon
      <3> HIDE DEF n
      <3>2. /\ task'[t].job = task[t].job /\ task'[t].ttl = task[t].ttl
            /\ task'[t].pc = "failing" /\ task'[t].seen = n
        BY <1>1, <3>1, SMTT(30) DEF TaskState
      <3> QED BY <3>2, Zenon DEF n
    <2>2. task[t].pc # "idle" /\ job' = job /\ revoked' = revoked /\ revoked \subseteq Tasks
      BY DEF SafetyInv, TypeOK
    <2>3. \A u \in Tasks : /\ task'[u].job = task[u].job /\ task'[u].ttl = task[u].ttl
                           /\ LeaseLives(u)' => LeaseLives(u)
                           /\ task'[u].pc # "idle" => task[u].pc # "idle"
      <3> SUFFICES ASSUME NEW u \in Tasks
                   PROVE  /\ task'[u].job = task[u].job /\ task'[u].ttl = task[u].ttl
                          /\ LeaseLives(u)' => LeaseLives(u)
                          /\ task'[u].pc # "idle" => task[u].pc # "idle"
        OBVIOUS
      <3> HIDE DEF RetryRead
      <3>1. CASE u = t
        BY <2>1, <2>2, <3>1, Zenon DEF LeaseLives
      <3>2. CASE u # t
        BY <1>2, <3>2, Zenon DEF LeaseLives
      <3> QED BY <3>1, <3>2
    <2> HIDE DEF RetryRead
    <2>4. LiveLeaseRecorded'
      BY <2>2, <2>3, ZenonT(40) DEF SafetyInv, LiveLeaseRecorded, LeasedBy
    <2>5. RevokedNotNamed'
      BY <2>2, <2>3, ZenonT(40) DEF SafetyInv, RevokedNotNamed, LeasedBy
    <2>6. SeenIsCurrent'
      BY <1>2, <2>1, <2>2, ZenonT(40) DEF SafetyInv, SeenIsCurrent, LeasedBy
    <2> QED BY <2>4, <2>5, <2>6
  <1>6. CompletedUnleased' /\ RetryBudget'
    BY DEF SafetyInv, CompletedUnleased, RetryBudget
  <1> QED BY <1>4, <1>5, <1>6 DEF SafetyInv

(* ... and still is when the update finds the lease standing. *)
LEMMA RetryWriteKeeps ==
  ASSUME OwnNames, SafetyInv, NEW t \in Tasks, RetryWrite(t)
  PROVE  SafetyInv'
  <1> DEFINE j == task[t].job
             disposition == Disposition(task[t].seen)
  <1>1. /\ j \in Jobs /\ job[j] \in JobRow
        /\ task[t].pc = "failing" /\ LeasedBy(j, OwnerOf[t]) /\ task[t].seen = job[j].attempts
        /\ task' = [task EXCEPT ![t] = IdleTask]
        /\ UNCHANGED <<enqueuing, revoked, abandons, interventions>>
    BY DEF RetryWrite, SafetyInv, TypeOK, SeenIsCurrent
  <1>2. PICK delay \in 0..MaxDelay :
          job' = [job EXCEPT ![j] = [Unleased(@) EXCEPT !.state = disposition, !.wait = delay]]
    <2>1. (IF disposition = "retry_wait" THEN 0..MaxDelay ELSE {0}) \subseteq 0..MaxDelay
      BY ConstantsAssumption
    <2> HIDE DEF disposition, Unleased
    <2>2. \E delay \in IF disposition = "retry_wait" THEN 0..MaxDelay ELSE {0} :
            job' = [job EXCEPT ![j] = [Unleased(@) EXCEPT !.state = disposition, !.wait = delay]]
      BY DEF RetryWrite, disposition
    <2> QED BY <2>1, <2>2
  <1> DEFINE row == [Unleased(job[j]) EXCEPT !.state = disposition, !.wait = delay]
  <1>3. row \in JobRow
    BY <1>1, RowsWritten DEF Disposition, JobState
  <1>4. TypeOK'
    <2>1. job' \in [Jobs -> JobRow]
      BY <1>1, <1>2, <1>3 DEF SafetyInv, TypeOK
    <2>2. task' \in [Tasks -> TaskState]
      BY <1>1, ConstantsAssumption DEF SafetyInv, TypeOK, TaskState
    <2> QED BY <1>1, <2>1, <2>2 DEF SafetyInv, TypeOK
  <1>5. /\ \A k \in Jobs \ {j} : job'[k] = job[k]
        /\ job'[j].state = disposition /\ job'[j].attempts = job[j].attempts
        /\ \A u \in Tasks \ {t} : task'[u] = task[u]
        /\ task'[t] = IdleTask
    BY <1>1, <1>2 DEF SafetyInv, TypeOK, JobRow
  <1>6. \A u \in Tasks \ {t} : OwnerOf[u] # OwnerOf[t]
    BY DEF OwnNames
  <1>7. LiveLeaseRecorded'
    BY <1>1, <1>5, <1>6 DEF SafetyInv, TypeOK, LiveLeaseRecorded, LeaseLives
  <1>8. RevokedNotNamed' /\ SeenIsCurrent'
    BY <1>1, <1>5, <1>6 DEF SafetyInv, TypeOK, RevokedNotNamed, SeenIsCurrent, Disposition
  <1>9. CompletedUnleased' /\ RetryBudget'
    BY <1>1, <1>5, ConstantsAssumption
       DEF SafetyInv, TypeOK, JobRow, CompletedUnleased, RetryBudget, Disposition
  <1> QED BY <1>4, <1>7, <1>8, <1>9 DEF SafetyInv

(* A task that stops without touching the table. *)
LEMMA ReturnKeeps ==
  ASSUME SafetyInv, NEW t \in Tasks, Return(t), abandons' \in 0..MaxAbandons,
         UNCHANGED <<job, enqueuing, revoked, interventions>>
  PROVE  SafetyInv'
  <1>1. /\ \A u \in Tasks \ {t} : task'[u] = task[u]
        /\ task'[t] = IdleTask
    BY DEF SafetyInv, TypeOK
  <1>2. task' \in [Tasks -> TaskState]
    BY ConstantsAssumption DEF SafetyInv, TypeOK, TaskState
  <1>3. TypeOK'
    BY <1>1, <1>2 DEF SafetyInv, TypeOK
  <1>4. LiveLeaseRecorded' /\ RevokedNotNamed' /\ SeenIsCurrent'
    BY <1>1 DEF SafetyInv, TypeOK, LiveLeaseRecorded, LeaseLives, RevokedNotNamed, SeenIsCurrent
  <1>5. CompletedUnleased' /\ RetryBudget'
    BY DEF SafetyInv, CompletedUnleased, RetryBudget
  <1> QED BY <1>3, <1>4, <1>5 DEF SafetyInv

(* A cancelled job names no owner, and its executors are revoked. *)
LEMMA CancelKeeps ==
  ASSUME SafetyInv, NEW j \in Jobs, Cancel(j)
  PROVE  SafetyInv'
  <1>1. job[j] \in JobRow
    BY DEF SafetyInv, TypeOK
  <1>2. TypeOK'
    <2>1. [Unleased(job[j]) EXCEPT !.state = "cancelled"] \in JobRow
      BY <1>1, RowsWritten DEF JobState
    <2>2. job' \in [Jobs -> JobRow]
      BY <2>1 DEF Cancel, SafetyInv, TypeOK
    <2>3. interventions' \in 0..MaxInterventions /\ revoked' \in SUBSET Tasks
      BY ConstantsAssumption DEF Cancel, SafetyInv, TypeOK
    <2> QED BY <2>2, <2>3 DEF Cancel, SafetyInv, TypeOK
  <1>3. /\ \A k \in Jobs \ {j} : job'[k] = job[k]
        /\ job'[j].state = "cancelled"
        /\ task' = task
        /\ revoked' = revoked \cup ExecutorsOf(j)
    BY <1>1 DEF Cancel, SafetyInv, TypeOK, JobRow
  <1>4. LiveLeaseRecorded' /\ RevokedNotNamed' /\ SeenIsCurrent'
    BY <1>3 DEF SafetyInv, TypeOK, LiveLeaseRecorded, LeaseLives, RevokedNotNamed, SeenIsCurrent
  <1>5. CompletedUnleased' /\ RetryBudget'
    BY <1>3 DEF SafetyInv, CompletedUnleased, RetryBudget
  <1> QED BY <1>2, <1>4, <1>5 DEF SafetyInv

(* requeue_job starts from jobs that nobody holds. *)
LEMMA RequeueKeeps ==
  ASSUME SafetyInv, NEW j \in Jobs, Requeue(j)
  PROVE  SafetyInv'
  <1>1. job[j] \in JobRow
    BY DEF SafetyInv, TypeOK
  <1> DEFINE row == [Unleased(job[j]) EXCEPT !.state = "pending", !.attempts = 0, !.wait = 0]
  <1>2. TypeOK'
    <2>1. Unleased(job[j]) \in JobRow
      BY <1>1, RowsWritten
    <2>2. \A r \in JobRow : [r EXCEPT !.state = "pending", !.attempts = 0, !.wait = 0] \in JobRow
      BY RowsWritten DEF Saved
    <2>3. job' \in [Jobs -> JobRow]
      BY <2>1, <2>2 DEF Requeue, SafetyInv, TypeOK
    <2>4. interventions' \in 0..MaxInterventions
      BY ConstantsAssumption DEF Requeue, SafetyInv, TypeOK
    <2> QED BY <2>3, <2>4 DEF Requeue, SafetyInv, TypeOK
  <1>3. /\ \A k \in Jobs \ {j} : job'[k] = job[k]
        /\ job[j].state # "leased" /\ job'[j].state = "pending"
        /\ task' = task /\ revoked' = revoked
    BY <1>1 DEF Requeue, SafetyInv, TypeOK, JobRow
  <1>4. LiveLeaseRecorded' /\ RevokedNotNamed' /\ SeenIsCurrent'
    BY <1>3 DEF SafetyInv, TypeOK, LiveLeaseRecorded, LeaseLives, RevokedNotNamed, SeenIsCurrent
  <1>5. CompletedUnleased' /\ RetryBudget'
    BY <1>3 DEF SafetyInv, CompletedUnleased, RetryBudget
  <1> QED BY <1>2, <1>4, <1>5 DEF SafetyInv

(* Time runs alike for the row and for the execution it names. *)
LEMMA TickKeeps ==
  ASSUME SafetyInv, Tick
  PROVE  SafetyInv'
  <1>1. /\ \A j \in Jobs : job'[j] = [job[j] EXCEPT !.wait = Less(@), !.ttl = Less(@)]
        /\ \A t \in Tasks : task'[t] = [task[t] EXCEPT !.ttl = Less(@)]
        /\ UNCHANGED <<line, enqueuing, revoked, abandons, interventions>>
    BY DEF Tick
  <1>2. \A j \in Jobs :
          /\ job'[j] \in JobRow
          /\ job'[j].state = job[j].state /\ job'[j].owner = job[j].owner
          /\ job'[j].attempts = job[j].attempts /\ job'[j].ttl = Less(job[j].ttl)
    <2> SUFFICES ASSUME NEW j \in Jobs
                 PROVE  /\ job'[j] \in JobRow
                        /\ job'[j].state = job[j].state /\ job'[j].owner = job[j].owner
                        /\ job'[j].attempts = job[j].attempts /\ job'[j].ttl = Less(job[j].ttl)
      OBVIOUS
    <2>1. job[j] \in JobRow
      BY DEF SafetyInv, TypeOK
    <2>2. Less(job[j].wait) \in 0..MaxDelay /\ Less(job[j].ttl) \in 0..LeaseTime
      BY <2>1, ConstantsAssumption DEF JobRow, Less
    <2> QED BY <1>1, <2>1, <2>2 DEF JobRow
  <1>3. \A t \in Tasks :
          /\ task'[t] \in TaskState
          /\ task'[t].pc = task[t].pc /\ task'[t].job = task[t].job
          /\ task'[t].seen = task[t].seen /\ task'[t].ttl = Less(task[t].ttl)
    <2> SUFFICES ASSUME NEW t \in Tasks
                 PROVE  /\ task'[t] \in TaskState
                        /\ task'[t].pc = task[t].pc /\ task'[t].job = task[t].job
                        /\ task'[t].seen = task[t].seen /\ task'[t].ttl = Less(task[t].ttl)
      OBVIOUS
    <2>1. task[t] \in TaskState
      BY DEF SafetyInv, TypeOK
    <2>2. Less(task[t].ttl) \in 0..LeaseTime
      BY <2>1, ConstantsAssumption DEF TaskState, Less
    <2> QED BY <1>1, <2>1, <2>2 DEF TaskState
  <1>4. TypeOK'
    <2>1. job' \in [Jobs -> JobRow] /\ task' \in [Tasks -> TaskState]
      BY <1>2, <1>3 DEF Tick
    <2> QED BY <1>1, <1>3, <2>1 DEF SafetyInv, TypeOK
  <1>5. \A t \in Tasks : task[t].ttl \in Nat
    BY ConstantsAssumption DEF SafetyInv, TypeOK, TaskState
  <1>6. LiveLeaseRecorded'
    <2> SUFFICES ASSUME NEW t \in Tasks, LeaseLives(t)', t \notin revoked'
                 PROVE  /\ LeasedBy(task[t].job, OwnerOf[t])'
                        /\ job'[task'[t].job].ttl = task'[t].ttl
      BY DEF LiveLeaseRecorded
    <2>1. task[t].pc # "idle" /\ task[t].job \in Jobs /\ t \notin revoked
      BY <1>1, <1>3 DEF SafetyInv, TypeOK, LeaseLives
    <2>3. task[t].ttl > 0
      BY <1>3, <1>5 DEF LeaseLives, Less
    <2>2. LeasedBy(task[t].job, OwnerOf[t]) /\ job[task[t].job].ttl = task[t].ttl
      BY <2>1, <2>3 DEF SafetyInv, LiveLeaseRecorded, LeaseLives
    <2> QED BY <1>2, <1>3, <2>1, <2>2
  <1>7. RevokedNotNamed' /\ SeenIsCurrent'
    <2>1. \A t \in Tasks : task[t].pc # "idle" =>
             (LeasedBy(task[t].job, OwnerOf[t])' <=> LeasedBy(task[t].job, OwnerOf[t]))
      BY <1>2, <1>3 DEF SafetyInv, TypeOK
    <2>2. revoked' = revoked /\ revoked \subseteq Tasks
      BY <1>1 DEF SafetyInv, TypeOK
    <2>3. RevokedNotNamed'
      BY <1>3, <2>1, <2>2 DEF SafetyInv, RevokedNotNamed
    <2>4. SeenIsCurrent'
      <3> SUFFICES ASSUME NEW t \in Tasks, task'[t].pc = "failing",
                          LeasedBy(task[t].job, OwnerOf[t])'
                   PROVE  task'[t].seen = job'[task'[t].job].attempts
        BY DEF SeenIsCurrent
      <3>1. task[t].pc = "failing" /\ task[t].job \in Jobs
        BY <1>3 DEF SafetyInv, TypeOK
      <3>2. task[t].seen = job[task[t].job].attempts
        BY <2>1, <3>1 DEF SafetyInv, SeenIsCurrent
      <3> QED BY <1>2, <1>3, <3>1, <3>2
    <2> QED BY <2>3, <2>4
  <1>8. CompletedUnleased' /\ RetryBudget'
    BY <1>2 DEF SafetyInv, CompletedUnleased, RetryBudget, Less
  <1> QED BY <1>4, <1>6, <1>7, <1>8 DEF SafetyInv

-----------------------------------------------------------------------------

(* Every step of the queue keeps the strengthening. *)
LEMMA StepKeeps == ASSUME OwnNames, SafetyInv, [Next]_vars PROVE SafetyInv'
  <1>1. CASE UNCHANGED vars
    BY <1>1 DEF vars, SafetyInv, TypeOK, LiveLeaseRecorded, LeaseLives, RevokedNotNamed,
                SeenIsCurrent, CompletedUnleased, RetryBudget
  <1>2. CASE Next
    <2>1. ASSUME NEW e \in Enqueuers, EnqueueSave(e) \/ \E j \in Jobs : EnqueueRead(e, j)
          PROVE  SafetyInv'
      BY <2>1, EnqueueSaveKeeps, EnqueueReadKeeps
    <2>2. ASSUME NEW t \in Tasks, NEW j \in Jobs, Lease(t, j) PROVE SafetyInv'
      BY <2>2, LeaseKeeps
    <2>3. ASSUME NEW t \in Tasks, Heartbeat(t) \/ Report(t) \/ Abandon(t) PROVE SafetyInv'
      <3>1. CASE RetryLeaseLost(t)
        BY <3>1, ReturnKeeps DEF RetryLeaseLost, SafetyInv, TypeOK
      <3>2. CASE Abandon(t)
        <4>1. abandons' \in 0..MaxAbandons
          BY <3>2, ConstantsAssumption DEF Abandon, SafetyInv, TypeOK
        <4> QED BY <3>2, <4>1, ReturnKeeps DEF Abandon
      <3> QED BY <2>3, <3>1, <3>2, HeartbeatKeeps, CompleteKeeps, RetryReadKeeps, RetryWriteKeeps
             DEF Report
    <2>4. ASSUME NEW j \in Jobs, Cancel(j) \/ Requeue(j) PROVE SafetyInv'
      BY <2>4, CancelKeeps, RequeueKeeps
    <2> QED BY <1>2, <2>1, <2>2, <2>3, <2>4, TickKeeps DEF Next
  <1> QED BY <1>1, <1>2

(* Two executions inside their lease time are told apart by the owner the  *)
(* row names.                                                              *)
LEMMA ExclusiveByRecord == ASSUME OwnNames, LiveLeaseRecorded PROVE LeaseExclusive
  BY DEF OwnNames, LiveLeaseRecorded, LeaseExclusive

(* The whole strengthening is an invariant of the queue. *)
THEOREM SafetyInvariant == ASSUME OwnNames PROVE Spec => []SafetyInv
  <1>1. Init => SafetyInv
    BY InitEstablishes
  <1>2. SafetyInv /\ [Next]_vars => SafetyInv'
    BY StepKeeps
  <1> QED BY <1>1, <1>2, PTL DEF Spec

(* Rows, tasks and counters have their types. *)
THEOREM TypeCorrect == ASSUME OwnNames PROVE Spec => []TypeOK
  <1>1. SafetyInv => TypeOK
    BY DEF SafetyInv
  <1> QED BY <1>1, SafetyInvariant, PTL

(* When no two tasks share an owner name, two executions of one job are    *)
(* inside their lease time together only after a cancellation or a racing  *)
(* enqueue took the lease of one of them.                                  *)
THEOREM Exclusion == ASSUME OwnNames PROVE Spec => []LeaseExclusive
  <1>1. SafetyInv => LeaseExclusive
    BY ExclusiveByRecord DEF SafetyInv
  <1> QED BY <1>1, SafetyInvariant, PTL

(* A job waits for a retry only with attempts left and is dead-lettered    *)
(* only without.                                                           *)
THEOREM BudgetKept == ASSUME OwnNames PROVE Spec => []RetryBudget
  <1>1. SafetyInv => RetryBudget
    BY DEF SafetyInv
  <1> QED BY <1>1, SafetyInvariant, PTL

(* An execution whose lease was revoked changes no row when it reports.    *)
THEOREM RevokedReportsNothing == ASSUME OwnNames PROVE Spec => RevokedRecordsNothing
  <1> DEFINE Quiet == \A t \in revoked : task'[t].pc = "idle" =>
                        \A j \in Jobs : Executes(t, j) => job'[j] = job[j]
  <1>1. SafetyInv /\ [Next]_vars => [Quiet]_vars
    <2> SUFFICES ASSUME SafetyInv, Next, NEW t \in revoked, task'[t].pc = "idle",
                        NEW j \in Jobs, Executes(t, j)
                 PROVE  job'[j] = job[j]
      BY DEF vars
    <2>1. t \in Tasks /\ job[j] \in JobRow /\ ~LeasedBy(j, OwnerOf[t])
      BY DEF SafetyInv, TypeOK, RevokedNotNamed
    <2>2. CASE \E e \in Enqueuers : EnqueueSave(e) \/ \E k \in Jobs : EnqueueRead(e, k)
      BY <2>2 DEF EnqueueSave, EnqueueRead
    <2>3. CASE \E u \in Tasks : \E k \in Jobs : Lease(u, k)
      BY <2>1, <2>3 DEF Lease, SafetyInv, TypeOK
    <2>4. CASE \E u \in Tasks : Heartbeat(u) \/ RetryRead(u)
      BY <2>1, <2>4 DEF Heartbeat, RetryRead, SafetyInv, TypeOK, TaskState
    <2>5. CASE \E u \in Tasks : Complete(u)
      <3>1. PICK u \in Tasks : Complete(u)
        BY <2>5
      <3>2. u = t
        BY <2>1, <3>1 DEF Complete, SafetyInv, TypeOK
      <3>3. job[j].state = "completed" => [Unleased(job[j]) EXCEPT !.state = "completed"] = job[j]
        BY <2>1 DEF SafetyInv, CompletedUnleased, JobRow
      <3> QED BY <2>1, <3>1, <3>2, <3>3 DEF Complete, SafetyInv, TypeOK
    <2>6. CASE \E u \in Tasks : RetryWrite(u)
      BY <2>1, <2>6 DEF RetryWrite, SafetyInv, TypeOK
    <2>7. CASE \E u \in Tasks : RetryLeaseLost(u) \/ Abandon(u)
      BY <2>7 DEF RetryLeaseLost, Abandon
    <2>8. CASE (\E k \in Jobs : Cancel(k) \/ Requeue(k))
      BY <2>8 DEF Cancel, Requeue
    <2>9. CASE Tick
      BY <2>1, <2>9 DEF Tick, SafetyInv, TypeOK, TaskState
    <2> QED BY <2>2, <2>3, <2>4, <2>5, <2>6, <2>7, <2>8, <2>9 DEF Next, Report
  <1> QED BY <1>1, SafetyInvariant, PTL DEF Spec, RevokedRecordsNothing

-----------------------------------------------------------------------------
(* The queue implements LeasedWork as long as enqueue calls do not race,    *)
(* for any jobs, tasks, calls, lease time, delay and attempt limit.         *)

HIDE DEF ExecutorsOf, IdleTask

(* What an enqueue call found missing still is, and nothing has failed.    *)
MissingIsAbsent == \A e \in Enqueuers : enqueuing[e] # NoJob => job[enqueuing[e]].state = "absent"
NothingFailed == \A j \in Jobs : job[j].state # "failed"
QueueInv == SafetyInv /\ MissingIsAbsent /\ NothingFailed

(* Only j's row changes, if any. *)
OnlyRow(j) == \A k \in Jobs \ {j} : job'[k] = job[k]

-----------------------------------------------------------------------------
(* The invariant.                                                          *)

(* A step that keeps rows there and lets none fail.                        *)
LEMMA RowsStay ==
  ASSUME QueueInv, SafetyInv', UNCHANGED enqueuing,
         \A j \in Jobs : job[j].state = "absent" => job'[j].state = "absent",
         \A j \in Jobs : job'[j].state # "failed"
  PROVE  QueueInv'
  <1>1. \A e \in Enqueuers : enqueuing[e] # NoJob => enqueuing[e] \in Jobs
    BY DEF QueueInv, SafetyInv, TypeOK
  <1> QED BY <1>1 DEF QueueInv, MissingIsAbsent, NothingFailed

LEMMA QueueStep == ASSUME OwnNames, QueueInv, Unraced, [Next]_vars PROVE QueueInv'
  <1>1. SafetyInv' /\ \A j \in Jobs : job[j] \in JobRow
    BY StepKeeps DEF QueueInv, SafetyInv, TypeOK
  <1>2. CASE UNCHANGED vars
    BY <1>1, <1>2, RowsStay DEF vars, QueueInv, NothingFailed
  <1>3. CASE \E e \in Enqueuers : EnqueueSave(e)
    <2>1. PICK e \in Enqueuers : EnqueueSave(e)
      BY <1>3
    <2>2. /\ enqueuing[e] \in Jobs /\ OnlyRow(enqueuing[e]) /\ job'[enqueuing[e]].state = "pending"
          /\ enqueuing' = [enqueuing EXCEPT ![e] = NoJob]
      BY <1>1, <2>1 DEF EnqueueSave, Saved, QueueInv, SafetyInv, TypeOK, JobRow, OnlyRow
    <2>3. \A f \in Enqueuers \ {e} : enqueuing'[f] = enqueuing[f] /\ enqueuing[f] # enqueuing[e]
      BY <2>1, <2>2 DEF Unraced, EnqueueSave, QueueInv, SafetyInv, TypeOK
    <2>4. enqueuing'[e] = NoJob
      BY <2>2 DEF QueueInv, SafetyInv, TypeOK
    <2>5. MissingIsAbsent'
      BY <2>2, <2>3, <2>4 DEF MissingIsAbsent, OnlyRow, QueueInv, SafetyInv, TypeOK
    <2> QED BY <1>1, <2>2, <2>5 DEF QueueInv, NothingFailed, OnlyRow
  <1>4. CASE \E e \in Enqueuers, j \in Jobs : EnqueueRead(e, j)
    BY <1>1, <1>4 DEF EnqueueRead, QueueInv, SafetyInv, TypeOK, MissingIsAbsent, NothingFailed
  <1>5. CASE \E t \in Tasks, j \in Jobs : Lease(t, j)
    <2>1. PICK t \in Tasks, j \in Jobs : Lease(t, j)
      BY <1>5
    <2>2. job[j].state # "absent" /\ OnlyRow(j) /\ job'[j].state = "leased" /\ UNCHANGED enqueuing
      BY <1>1, <2>1 DEF Lease, FirstLeasable, Leasable, JobRow, OnlyRow, QueueInv, SafetyInv, TypeOK
    <2> QED BY <1>1, <2>2, RowsStay DEF OnlyRow, QueueInv, NothingFailed
  <1>6. CASE \E t \in Tasks : Heartbeat(t) \/ Report(t) \/ Abandon(t)
    <2>1. PICK t \in Tasks : Heartbeat(t) \/ Report(t) \/ Abandon(t)
      BY <1>6
    <2> DEFINE j == task[t].job
    <2>2. /\ j \in Jobs \/ job' = job
          /\ UNCHANGED enqueuing
      BY <2>1 DEF Heartbeat, Report, Complete, RetryRead, RetryWrite, RetryLeaseLost, Abandon, QueueInv, SafetyInv, TypeOK
    <2>3. ASSUME j \in Jobs
          PROVE  /\ OnlyRow(j)
                 /\ \/ job'[j] = job[j]
                    \/ job[j].state # "absent" /\ job'[j].state # "failed"
      <3>1. CASE Heartbeat(t)
        BY <1>1, <2>3, <3>1 DEF Heartbeat, JobRow, OnlyRow, QueueInv, SafetyInv, TypeOK
      <3>2. CASE Complete(t)
        BY <1>1, <2>3, <3>2 DEF Complete, JobRow, OnlyRow, QueueInv, SafetyInv, TypeOK
      <3>3. CASE RetryWrite(t)
        BY <1>1, <2>3, <3>3 DEF RetryWrite, Disposition, JobRow, OnlyRow, QueueInv, SafetyInv, TypeOK
      <3>4. CASE RetryRead(t) \/ RetryLeaseLost(t) \/ Abandon(t)
        BY <3>4 DEF RetryRead, RetryLeaseLost, Abandon, OnlyRow
      <3> QED BY <2>1, <3>1, <3>2, <3>3, <3>4 DEF Report
    <2> HIDE DEF j
    <2> QED BY <1>1, <2>2, <2>3, RowsStay DEF OnlyRow, QueueInv, NothingFailed
  <1>7. CASE \E j \in Jobs : Cancel(j) \/ Requeue(j)
    <2>1. PICK j \in Jobs : Cancel(j) \/ Requeue(j)
      BY <1>7
    <2>2. job[j].state # "absent" /\ OnlyRow(j) /\ job'[j].state \in {"cancelled", "pending"} /\ UNCHANGED enqueuing
      <3>1. CASE Cancel(j)
        BY <1>1, <3>1 DEF Cancel, JobRow, OnlyRow, QueueInv, SafetyInv, TypeOK
      <3>2. CASE Requeue(j)
        BY <1>1, <3>2 DEF Requeue, JobRow, OnlyRow, QueueInv, SafetyInv, TypeOK
      <3> QED BY <2>1, <3>1, <3>2
    <2> QED BY <1>1, <2>2, RowsStay DEF OnlyRow, QueueInv, NothingFailed
  <1>8. CASE Tick
    <2>1. (\A j \in Jobs : job'[j].state = job[j].state) /\ UNCHANGED enqueuing
      BY <1>1, <1>8 DEF Tick, JobRow
    <2> QED BY <1>1, <2>1, RowsStay DEF QueueInv, NothingFailed
  <1> QED BY <1>2, <1>3, <1>4, <1>5, <1>6, <1>7, <1>8 DEF Next

-----------------------------------------------------------------------------
(* The mapping.                                                            *)

(* Seen as work, job k is what it was.                                     *)
Same(k) ==
  /\ AbstractStatus(job[k])' = AbstractStatus(job[k])
  /\ HolderOf(k)' = HolderOf(k)
  /\ Lapsed(job[k])' = Lapsed(job[k])

(* Only one task can be the owner a row names.                             *)
LEMMA Sole ==
  ASSUME OwnNames, NEW j \in Jobs, NEW t \in Holders(j)
  PROVE  HolderOf(j) = t
  BY DEF OwnNames, Holders, HolderOf

LEMMA Held ==
  ASSUME NEW j \in Jobs
  PROVE  /\ HolderOf(j) \in Tasks => HolderOf(j) \in Holders(j)
         /\ Holders(j) = {} => HolderOf(j) = NoOwner
         /\ HolderOf(j) = NoOwner => Holders(j) = {}
  <1>1. Holders(j) # {} => HolderOf(j) \in Holders(j)
    BY DEF HolderOf
  <1>2. NoOwner \notin Tasks /\ Holders(j) \subseteq Tasks
    BY ConstantsAssumption DEF Holders
  <1> QED BY <1>1, <1>2 DEF HolderOf

LEMMA SameWhenKept ==
  ASSUME NEW k \in Jobs, Holders(k)' = Holders(k),
         job'[k].state = job[k].state, Lapsed(job[k])' = Lapsed(job[k])
  PROVE  Same(k)
  BY DEF Same, AbstractStatus, HolderOf

LEMMA Stutters == ASSUME \A k \in Jobs : Same(k) PROVE UNCHANGED Work!lwVars
  BY DEF Same, Work!lwVars

LEMMA Leaves ==
  ASSUME NEW j \in Jobs, \A k \in Jobs \ {j} : Same(k), NEW s,
         AbstractStatus(job[j])' = s, Holders(j)' = {}, ~Lapsed(job[j])'
  PROVE  Work!Becomes(j, s)
  <1>1. HolderOf(j)' = NoOwner
    BY DEF HolderOf
  <1>2. Lapsed(job[j])' = FALSE
    OBVIOUS
  <1> QED BY <1>1, <1>2 DEF Work!Becomes, Same

-----------------------------------------------------------------------------
(* The steps.                                                              *)

(* A first enqueue submits the job; reading before it changes nothing.     *)
LEMMA EnqueueSaveSubmits ==
  ASSUME QueueInv, NEW e \in Enqueuers, EnqueueSave(e)
  PROVE  Work!Next
  <1>0. PICK j \in Jobs : j = enqueuing[e]
    BY DEF EnqueueSave, QueueInv, SafetyInv, TypeOK
  <1>1. /\ job[j] \in JobRow /\ job[j].state = "absent"
        /\ OnlyRow(j) /\ job'[j].state = "pending" /\ task' = task
    BY <1>0 DEF EnqueueSave, Saved, QueueInv, MissingIsAbsent, SafetyInv, TypeOK, JobRow, OnlyRow
  <1>2. \A k \in Jobs \ {j} : Same(k)
    BY <1>1, SameWhenKept DEF OnlyRow, Holders, Lapsed
  <1>3. Holders(j)' = {} /\ ~Lapsed(job[j])' /\ AbstractStatus(job[j])' = "queued"
    BY <1>1 DEF Holders, Lapsed, AbstractStatus
  <1>4. AbstractStatus(job[j]) = "absent"
    BY <1>1 DEF AbstractStatus
  <1>5. Work!Submit(j)
    BY <1>1, <1>2, <1>3, <1>4, Leaves DEF Work!Submit
  <1> QED BY <1>1, <1>5 DEF Work!Next

LEMMA EnqueueReadStutters ==
  ASSUME NEW e \in Enqueuers, NEW j \in Jobs, EnqueueRead(e, j)
  PROVE  UNCHANGED Work!lwVars
  BY SameWhenKept, Stutters DEF EnqueueRead, Holders, Lapsed

(* A lease takes a job that is queued, or whose lease has lapsed.          *)
LEMMA LeaseTakes ==
  ASSUME OwnNames, QueueInv, NEW t \in Tasks, NEW j \in Jobs, Lease(t, j)
  PROVE  Work!Next
  <1>1. PICK ttl \in 0..LeaseTime :
          /\ Leasable(j)
          /\ job' = [job EXCEPT ![j].state = "leased", ![j].owner = OwnerOf[t],
                                ![j].ttl = ttl, ![j].attempts = Bump(@)]
          /\ task' = [task EXCEPT ![t] = [pc |-> "running", job |-> j, ttl |-> ttl, seen |-> 0]]
    BY DEF Lease, FirstLeasable
  <1>2. /\ OnlyRow(j) /\ job'[j].state = "leased" /\ job'[j].owner = OwnerOf[t] /\ job'[j].ttl = ttl
        /\ \A u \in Tasks \ {t} : task'[u] = task[u]
        /\ task'[t].pc = "running" /\ task'[t].job = j
        /\ task[t].pc = "idle"
    BY <1>1 DEF Lease, QueueInv, SafetyInv, TypeOK, JobRow, OnlyRow
  <1>3. \A k \in Jobs \ {j} : Same(k)
    <2> SUFFICES ASSUME NEW k \in Jobs \ {j} PROVE Same(k)
      OBVIOUS
    <2>1. Holders(k)' = Holders(k)
      BY <1>2 DEF Holders, OnlyRow
    <2> QED BY <1>2, <2>1, SameWhenKept DEF OnlyRow, Lapsed
  <1>4. HolderOf(j)' = t
    <2>1. Holders(j)' = {t}
      BY <1>2 DEF Holders, OwnNames
    <2> QED BY <2>1 DEF HolderOf
  <1>5. \A k \in Jobs : HolderOf(k) # t
    BY <1>2, Held DEF Holders
  <1>6. \/ AbstractStatus(job[j]) = "queued"
        \/ AbstractStatus(job[j]) = "held" /\ Lapsed(job[j])
    BY <1>1 DEF Leasable, AbstractStatus, Lapsed
  <1>7. AbstractStatus(job[j])' = "held"
    BY <1>2 DEF AbstractStatus
  <1>8. Lapsed(job[j])' \in BOOLEAN
    BY DEF Lapsed
  <1>9. Work!Take(j, t)
    <2>1. \/ [i \in Jobs |-> AbstractStatus(job[i])][j] = "queued"
          \/ /\ [i \in Jobs |-> AbstractStatus(job[i])][j] = "held"
             /\ [i \in Jobs |-> Lapsed(job[i])][j]
      BY <1>6
    <2>2. \A k \in Jobs : [i \in Jobs |-> HolderOf(i)][k] # t
      BY <1>5
    <2>3. [i \in Jobs |-> AbstractStatus(job[i])]' = [[i \in Jobs |-> AbstractStatus(job[i])] EXCEPT ![j] = "held"]
      BY <1>3, <1>7 DEF Same
    <2>4. [i \in Jobs |-> HolderOf(i)]' = [[i \in Jobs |-> HolderOf(i)] EXCEPT ![j] = t]
      BY <1>3, <1>4 DEF Same
    <2>5. [i \in Jobs |-> Lapsed(job[i])]' = [[i \in Jobs |-> Lapsed(job[i])] EXCEPT ![j] = Lapsed(job[j])']
      BY <1>3 DEF Same
    <2> QED BY <1>8, <2>1, <2>2, <2>3, <2>4, <2>5 DEF Work!Take
  <1> QED BY <1>9 DEF Work!Next

(* A heartbeat keeps a lease that has not lapsed.                          *)
LEMMA HeartbeatStutters ==
  ASSUME QueueInv, NEW t \in Tasks, Heartbeat(t)
  PROVE  UNCHANGED Work!lwVars
  <1> DEFINE j == task[t].job
  <1>1. /\ j \in Jobs /\ OnlyRow(j)
        /\ job'[j].state = job[j].state /\ job'[j].owner = job[j].owner
        /\ job[j].ttl > 0 /\ job'[j].ttl = LeaseTime
        /\ \A u \in Tasks : task'[u].pc = task[u].pc /\ task'[u].job = task[u].job
    BY DEF Heartbeat, QueueInv, SafetyInv, TypeOK, JobRow, TaskState, OnlyRow
  <1> HIDE DEF j
  <1>2. job[j].ttl # 0 /\ LeaseTime # 0
    BY <1>1, ConstantsAssumption DEF QueueInv, SafetyInv, TypeOK, JobRow
  <1>3. \A k \in Jobs : Same(k)
    BY <1>1, <1>2, SameWhenKept DEF OnlyRow, Holders, Lapsed
  <1> QED BY <1>3, Stutters

(* An execution that ends without its job's row ...                        *)
LEMMA LateStutters ==
  ASSUME QueueInv, NEW t \in Tasks, task[t].pc # "idle", Return(t), job' = job,
         ~LeasedBy(task[t].job, OwnerOf[t])
  PROVE  UNCHANGED Work!lwVars
  <1>1. \A u \in Tasks : task'[u] = IF u = t THEN IdleTask ELSE task[u]
    BY DEF QueueInv, SafetyInv, TypeOK
  <1>2. \A k \in Jobs : Holders(k)' = Holders(k)
    BY <1>1 DEF Holders, IdleTask
  <1>3. \A k \in Jobs : Same(k)
    BY <1>2, SameWhenKept DEF Lapsed
  <1> QED BY <1>3, Stutters

(* ... and one that ends as the holder, with any outcome.                  *)
LEMMA HolderEnds ==
  ASSUME OwnNames, QueueInv, NEW t \in Tasks, NEW j \in Jobs,
         task[t].pc # "idle", task[t].job = j, Return(t), LeasedBy(j, OwnerOf[t]), OnlyRow(j),
         job'[j].state = "leased" => job'[j].owner = OwnerOf[t]
  PROVE  /\ AbstractStatus(job[j]) = "held" /\ HolderOf(j) = t
         /\ Holders(j)' = {} /\ \A k \in Jobs \ {j} : Same(k)
  <1>1. \A u \in Tasks : task'[u] = IF u = t THEN IdleTask ELSE task[u]
    BY DEF QueueInv, SafetyInv, TypeOK
  <1>2. AbstractStatus(job[j]) = "held" /\ HolderOf(j) = t
    <2>1. t \in Holders(j)
      BY DEF Holders
    <2> QED BY <2>1, Sole DEF AbstractStatus
  <1>3. Holders(j)' = {}
    BY <1>1 DEF OwnNames, Holders, IdleTask
  <1>4. \A k \in Jobs \ {j} : Holders(k)' = Holders(k)
    BY <1>1 DEF Holders, IdleTask, OnlyRow
  <1>5. \A k \in Jobs \ {j} : Same(k)
    BY <1>4, SameWhenKept DEF OnlyRow, Lapsed
  <1> QED BY <1>2, <1>3, <1>5

(* Completing, retrying and dead-lettering settle what is held.            *)
LEMMA CompleteSettles ==
  ASSUME OwnNames, QueueInv, NEW t \in Tasks, Complete(t)
  PROVE  [Work!Next]_Work!lwVars
  <1>0. PICK j \in Jobs : task[t].job = j
    BY DEF Complete, QueueInv, SafetyInv, TypeOK
  <1>1. task[t].pc = "running" /\ Return(t) /\ job[j] \in JobRow
    BY DEF Complete, QueueInv, SafetyInv, TypeOK
  <1>2. CASE LeasedBy(j, OwnerOf[t])
    <2>1. OnlyRow(j) /\ job'[j].state = "completed"
      BY <1>0, <1>1, <1>2 DEF Complete, QueueInv, SafetyInv, TypeOK, JobRow, OnlyRow
    <2>2. /\ AbstractStatus(job[j]) = "held" /\ HolderOf(j) = t
          /\ Holders(j)' = {} /\ \A k \in Jobs \ {j} : Same(k)
      BY <1>0, <1>1, <1>2, <2>1, HolderEnds
    <2>3. AbstractStatus(job[j])' = "done" /\ ~Lapsed(job[j])'
      BY <2>1 DEF AbstractStatus, Lapsed
    <2>4. Work!Becomes(j, "done")
      BY <2>2, <2>3, Leaves
    <2>5. Work!Settle(j, t)
      BY <2>2, <2>4 DEF Work!Settle
    <2> QED BY <2>5 DEF Work!Next
  <1>3. CASE ~LeasedBy(j, OwnerOf[t])
    <2>1. job[j].state = "completed" => [Unleased(job[j]) EXCEPT !.state = "completed"] = job[j]
      BY <1>1 DEF QueueInv, SafetyInv, CompletedUnleased, JobRow
    <2>2. job' = job
      BY <1>0, <1>3, <2>1 DEF Complete, QueueInv, SafetyInv, TypeOK
    <2> QED BY <1>0, <1>1, <1>3, <2>2, LateStutters
  <1> QED BY <1>2, <1>3

LEMMA RetryWriteSettles ==
  ASSUME OwnNames, QueueInv, NEW t \in Tasks, RetryWrite(t)
  PROVE  Work!Next
  <1>0. PICK j \in Jobs : task[t].job = j
    BY DEF RetryWrite, QueueInv, SafetyInv, TypeOK
  <1>1. /\ task[t].pc = "failing" /\ Return(t) /\ LeasedBy(j, OwnerOf[t])
        /\ OnlyRow(j) /\ job'[j].state \in {"retry_wait", "dead_letter"}
    BY <1>0 DEF RetryWrite, Disposition, QueueInv, SafetyInv, TypeOK, JobRow, OnlyRow
  <1>2. /\ AbstractStatus(job[j]) = "held" /\ HolderOf(j) = t
        /\ Holders(j)' = {} /\ \A k \in Jobs \ {j} : Same(k)
    BY <1>0, <1>1, HolderEnds
  <1>3. AbstractStatus(job[j])' \in {"queued", "dead"} /\ ~Lapsed(job[j])'
    BY <1>1 DEF AbstractStatus, Lapsed
  <1>4. PICK s \in {"queued", "dead"} : Work!Becomes(j, s)
    BY <1>2, <1>3, Leaves
  <1>5. Work!Settle(j, t)
    BY <1>2, <1>4 DEF Work!Settle
  <1> QED BY <1>5 DEF Work!Next

(* Whoever dies as the holder leaves an orphan.                            *)
LEMMA AbandonOrphans ==
  ASSUME OwnNames, QueueInv, NEW t \in Tasks, Abandon(t)
  PROVE  [Work!Next]_Work!lwVars
  <1>0. PICK j \in Jobs : task[t].job = j
    BY DEF Abandon, QueueInv, SafetyInv, TypeOK
  <1>1. task[t].pc # "idle" /\ Return(t) /\ job' = job
    BY DEF Abandon
  <1>2. CASE LeasedBy(j, OwnerOf[t])
    <2>1. /\ AbstractStatus(job[j]) = "held" /\ HolderOf(j) = t
          /\ Holders(j)' = {} /\ \A k \in Jobs \ {j} : Same(k)
      BY <1>0, <1>1, <1>2, HolderEnds DEF OnlyRow
    <2>2. /\ HolderOf(j)' = NoOwner /\ AbstractStatus(job[j])' = AbstractStatus(job[j])
          /\ Lapsed(job[j])' = Lapsed(job[j])
      BY <1>1, <2>1 DEF HolderOf, AbstractStatus, Lapsed
    <2>3. Work!Orphan(j)
      BY <2>1, <2>2 DEF Work!Orphan, Same
    <2> QED BY <2>3 DEF Work!Next
  <1>3. CASE ~LeasedBy(j, OwnerOf[t])
    BY <1>0, <1>1, <1>3, LateStutters
  <1> QED BY <1>2, <1>3

(* Operators withdraw, and submit again.                                   *)
LEMMA CancelWithdraws ==
  ASSUME QueueInv, NEW j \in Jobs, Cancel(j)
  PROVE  Work!Next
  <1>1. /\ job[j].state \in {"pending", "retry_wait", "leased", "dead_letter"}
        /\ OnlyRow(j) /\ job'[j].state = "cancelled" /\ task' = task
    BY DEF Cancel, QueueInv, NothingFailed, SafetyInv, TypeOK, JobRow, JobState, OnlyRow
  <1>2. \A k \in Jobs \ {j} : Same(k)
    BY <1>1, SameWhenKept DEF OnlyRow, Holders, Lapsed
  <1>3. Holders(j)' = {} /\ ~Lapsed(job[j])' /\ AbstractStatus(job[j])' = "cancelled"
    BY <1>1 DEF Holders, Lapsed, AbstractStatus
  <1>4. AbstractStatus(job[j]) \in {"queued", "held", "dead"}
    BY <1>1 DEF AbstractStatus
  <1>5. Work!Withdraw(j)
    BY <1>2, <1>3, <1>4, Leaves DEF Work!Withdraw
  <1> QED BY <1>5 DEF Work!Next

LEMMA RequeueSubmits ==
  ASSUME QueueInv, NEW j \in Jobs, Requeue(j)
  PROVE  Work!Next
  <1>1. /\ job[j].state \in {"dead_letter", "cancelled"}
        /\ OnlyRow(j) /\ job'[j].state = "pending" /\ task' = task
    BY DEF Requeue, QueueInv, NothingFailed, SafetyInv, TypeOK, JobRow, OnlyRow
  <1>2. \A k \in Jobs \ {j} : Same(k)
    BY <1>1, SameWhenKept DEF OnlyRow, Holders, Lapsed
  <1>3. Holders(j)' = {} /\ ~Lapsed(job[j])' /\ AbstractStatus(job[j])' = "queued"
    BY <1>1 DEF Holders, Lapsed, AbstractStatus
  <1>4. AbstractStatus(job[j]) \in {"dead", "cancelled"}
    BY <1>1 DEF AbstractStatus
  <1>5. Work!Submit(j)
    BY <1>2, <1>3, <1>4, Leaves DEF Work!Submit
  <1> QED BY <1>5 DEF Work!Next

(* Time lets leases lapse.                                                 *)
LEMMA TickLapses ==
  ASSUME QueueInv, Tick
  PROVE  Work!Next
  <1> DEFINE S == {j \in Jobs : Lapsed(job[j])'}
  <1>1. \A j \in Jobs : /\ job'[j].state = job[j].state /\ job'[j].owner = job[j].owner
                        /\ job'[j].ttl = Less(job[j].ttl)
    <2>1. \A j \in Jobs : job[j] \in JobRow
      BY DEF QueueInv, SafetyInv, TypeOK
    <2>2. \A j \in Jobs : job'[j] = [job[j] EXCEPT !.wait = Less(@), !.ttl = Less(@)]
      BY DEF Tick
    <2> QED BY <2>1, <2>2 DEF JobRow
  <1>2. \A t \in Tasks : task'[t].pc = task[t].pc /\ task'[t].job = task[t].job
    BY DEF Tick, QueueInv, SafetyInv, TypeOK, TaskState
  <1>3. \A j \in Jobs : Holders(j)' = Holders(j)
    BY <1>1, <1>2 DEF Holders
  <1>4. \A j \in Jobs : /\ AbstractStatus(job[j])' = AbstractStatus(job[j])
                        /\ HolderOf(j)' = HolderOf(j)
                        /\ Lapsed(job[j])' <=> Lapsed(job[j]) \/ j \in S
    <2>1. \A j \in Jobs : Lapsed(job[j]) => Lapsed(job[j])'
      BY <1>1 DEF Lapsed, Less
    <2>2. \A j \in Jobs : Lapsed(job[j])' <=> Lapsed(job[j]) \/ j \in S
      BY <2>1
    <2>3. \A j \in Jobs : AbstractStatus(job[j])' = AbstractStatus(job[j]) /\ HolderOf(j)' = HolderOf(j)
      <3>1. \A j \in Jobs : HolderOf(j)' = HolderOf(j)
        <4> TAKE j \in Jobs
        <4>1. Holders(j)' = Holders(j)
          BY <1>3
        <4> QED BY <4>1 DEF HolderOf
      <3>2. \A j \in Jobs : AbstractStatus(job[j])' = AbstractStatus(job[j])
        BY <1>1 DEF AbstractStatus
      <3> QED BY <3>1, <3>2
    <2> QED BY <2>2, <2>3
  <1>5. \A j \in S : AbstractStatus(job[j]) = "held"
    BY <1>1 DEF AbstractStatus, Lapsed
  <1>6. \A j \in Jobs : Lapsed(job[j])' = (Lapsed(job[j]) \/ j \in S)
    BY <1>4 DEF Lapsed
  <1>7. Work!Lapse(S)
    <2> HIDE DEF S
    <2>1. S \subseteq Jobs
      BY DEF S
    <2> QED BY <1>4, <1>5, <1>6, <2>1 DEF Work!Lapse
  <1> QED BY <1>7 DEF Work!Next

LEMMA RefinementStep ==
  ASSUME OwnNames, QueueInv, [Next]_vars
  PROVE  [Work!Next]_Work!lwVars
  <1>1. CASE UNCHANGED vars
    BY <1>1, SameWhenKept, Stutters DEF vars, Holders, Lapsed
  <1>2. CASE \E t \in Tasks : RetryRead(t)
    <2>1. /\ \A t \in Tasks : task'[t].job = task[t].job /\ (task'[t].pc # "idle" <=> task[t].pc # "idle")
          /\ job' = job
      BY <1>2 DEF RetryRead, QueueInv, SafetyInv, TypeOK, TaskState
    <2>2. \A k \in Jobs : Holders(k)' = Holders(k)
      BY <2>1 DEF Holders
    <2> QED BY <2>1, <2>2, SameWhenKept, Stutters DEF Lapsed
  <1>3. CASE \E t \in Tasks : RetryLeaseLost(t)
    BY <1>3, LateStutters DEF RetryLeaseLost
  <1> QED
    BY <1>1, <1>2, <1>3, EnqueueSaveSubmits, EnqueueReadStutters, LeaseTakes, HeartbeatStutters,
       CompleteSettles, RetryWriteSettles, AbandonOrphans, CancelWithdraws, RequeueSubmits, TickLapses
       DEF Next, Report

(* Initially there is no work.                                             *)
LEMMA RefinementInit == Init => QueueInv /\ Work!Init
  <1> SUFFICES ASSUME Init PROVE QueueInv /\ Work!Init
    OBVIOUS
  <1>1. QueueInv
    BY InitEstablishes DEF Init, QueueInv, MissingIsAbsent, NothingFailed, NoRow
  <1>2. \A j \in Jobs : Holders(j) = {}
    BY DEF Init, Holders, NoRow, IdleTask
  <1>3. \A j \in Jobs : AbstractStatus(job[j]) = "absent" /\ HolderOf(j) = NoOwner /\ Lapsed(job[j]) = FALSE
    BY <1>2 DEF Init, NoRow, AbstractStatus, HolderOf, Lapsed
  <1> QED BY <1>1, <1>3 DEF Work!Init

(* With an owner name for each task and no two enqueue calls saving the    *)
(* same job, the queue implements LeasedWork: a job is held by one worker  *)
(* at a time, is taken over only after its lease lapsed, and is settled by *)
(* its holder alone, however late workers answer, whatever operators do    *)
(* and whichever executions die (lease_job, complete_job, retry_job).      *)
THEOREM QueueIsLeasedWork == ASSUME OwnNames PROVE Spec /\ []Unraced => ImplementsLeasedWork
  <1>1. Init => QueueInv /\ Work!Init
    BY RefinementInit
  <1>2. QueueInv /\ Unraced /\ [Next]_vars => QueueInv'
    BY QueueStep
  <1>3. QueueInv /\ [Next]_vars => [Work!Next]_Work!lwVars
    BY RefinementStep
  <1> QED BY <1>1, <1>2, <1>3, PTL DEF Spec, ImplementsLeasedWork, Work!Spec

=============================================================================
