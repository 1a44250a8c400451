----------------------------- MODULE Recalculation -----------------------------
(***************************************************************************)
(* "pvlog forecast recalculate": the invalidations of one system, the      *)
(* commands that insert them and ask the coordinator for a rebuild job,    *)
(* and the jobs.  Inserting, reading what is pending and enqueueing are    *)
(* three transactions; commands interleave and stop between them.          *)
(*                                                                         *)
(* An invalidation's id and key are functions of its range, and a job's id *)
(* of the ranges it was made for, so ranges and sets of ranges stand for   *)
(* them.  How a job is leased and retried is JobQueue's subject; here it   *)
(* is worked on, and done or dead.                                         *)
(***************************************************************************)
EXTENDS Integers, FiniteSets

CONSTANTS
  Ranges,    \* the half-open ranges commands are given, start before end
  Calls,     \* concurrent commands
  Limit,     \* the limit of enqueue_pending_rebuild; the command passes 1
  MaxDeaths  \* bound: commands that die half way and jobs that are dead-lettered

VARIABLES
  invalidation,  \* yield_invalidations, by range
  job,           \* rebuild jobs, by the ranges of their payload
  call,          \* what each command is doing
  deaths

vars == <<invalidation, job, call, deaths>>

(* 'leased' and 'failed' are allowed by the schema; nothing writes them. *)
TypeOK ==
  /\ invalidation \in [Ranges -> {"absent", "pending", "completed"}]
  /\ job \in [SUBSET Ranges -> {"absent", "queued", "done", "dead"}]
  /\ call \in [Calls -> [pc : {"idle", "read", "enqueue", "answered"},
                         range : SUBSET Ranges, picked : SUBSET Ranges]]
  /\ \A c \in Calls : Cardinality(call[c].range) = IF call[c].pc = "idle" THEN 0 ELSE 1
  /\ deaths \in 0..MaxDeaths

NoCall == [pc |-> "idle", range |-> {}, picked |-> {}]

Init ==
  /\ invalidation = [R \in Ranges |-> "absent"]
  /\ job = [K \in SUBSET Ranges |-> "absent"]
  /\ call = [c \in Calls |-> NoCall]
  /\ deaths = 0

-----------------------------------------------------------------------------

(* insert_invalidation; one that is there already is left as it is. *)
InsertInvalidation(c, R) ==
  /\ call[c].pc \in {"idle", "answered"}
  /\ invalidation' = IF invalidation[R] = "absent"
                     THEN [invalidation EXCEPT ![R] = "pending"]
                     ELSE invalidation
  /\ call' = [call EXCEPT ![c] = [pc |-> "read", range |-> {R}, picked |-> {}]]
  /\ UNCHANGED <<job, deaths>>

(* Mutant: ranges that only touch count as intersecting. *)
IntersectsOrTouches(A, B) == A.start <= B.end /\ A.end >= B.start
Intersects(A, B) == A.start < B.end /\ A.end > B.start

Pending(R) ==
  {P \in Ranges : invalidation[P] = "pending" /\ Intersects(P, R)}

(* ORDER BY range_start LIMIT; created_at, which decides between equal     *)
(* starts, is read before the call waits for the database.                 *)
PendingInvalidations(c) ==
  \E R \in call[c].range :
    /\ call[c].pc = "read"
    /\ \E S \in SUBSET Pending(R) \ {{}} :
         /\ Cardinality(S) <= Limit
         /\ Cardinality(S) < Limit => S = Pending(R)
         /\ \A x \in S, y \in Pending(R) \ S : x.start <= y.start
         /\ call' = [call EXCEPT ![c].pc = "enqueue", ![c].picked = S]
    /\ UNCHANGED <<invalidation, job, deaths>>

(* "recalculation was not enqueued" *)
NothingPending(c) ==
  /\ call[c].pc = "read"
  /\ \A R \in call[c].range : Pending(R) = {}
  /\ call' = [call EXCEPT ![c] = NoCall]
  /\ UNCHANGED <<invalidation, job, deaths>>

(* A job that is there already, whatever became of it, is the answer. *)
Enqueue(c) ==
  LET K == call[c].picked IN
  /\ call[c].pc = "enqueue"
  /\ job' = IF job[K] = "absent" THEN [job EXCEPT ![K] = "queued"] ELSE job
  /\ call' = [call EXCEPT ![c].pc = "answered"]
  /\ UNCHANGED <<invalidation, deaths>>

CallDies(c) ==
  /\ call[c].pc \in {"read", "enqueue"}
  /\ deaths < MaxDeaths /\ deaths' = deaths + 1
  /\ call' = [call EXCEPT ![c] = NoCall]
  /\ UNCHANGED <<invalidation, job>>

-----------------------------------------------------------------------------
(* A rebuild completes what its payload names, and then its job is done.   *)

CompleteInvalidation(K, R) ==
  /\ job[K] = "queued" /\ R \in K
  /\ invalidation[R] = "pending"
  /\ invalidation' = [invalidation EXCEPT ![R] = "completed"]
  /\ UNCHANGED <<job, call, deaths>>

JobDone(K) ==
  /\ job[K] = "queued"
  /\ \A R \in K : invalidation[R] # "pending"
  /\ job' = [job EXCEPT ![K] = "done"]
  /\ UNCHANGED <<invalidation, call, deaths>>

JobDies(K) ==
  /\ job[K] = "queued"
  /\ deaths < MaxDeaths /\ deaths' = deaths + 1
  /\ job' = [job EXCEPT ![K] = "dead"]
  /\ UNCHANGED <<invalidation, call>>

(* "pvlog forecast retry" *)
Requeue(K) ==
  /\ job[K] = "dead"
  /\ job' = [job EXCEPT ![K] = "queued"]
  /\ UNCHANGED <<invalidation, call, deaths>>

-----------------------------------------------------------------------------

Proceed(c) == PendingInvalidations(c) \/ NothingPending(c) \/ Enqueue(c)
Rebuild(K) == JobDone(K) \/ \E R \in K : CompleteInvalidation(K, R)

Next ==
  \/ \E c \in Calls :
       Proceed(c) \/ CallDies(c) \/ \E R \in Ranges : InsertInvalidation(c, R)
  \/ \E K \in SUBSET Ranges : Rebuild(K) \/ JobDies(K) \/ Requeue(K)

Spec == Init /\ [][Next]_vars

(* Commands run to their end unless they die, and the queue works off its  *)
(* jobs (EveryJobSettles of JobQueue).                                     *)
Fairness ==
  /\ \A c \in Calls : WF_vars(Proceed(c))
  /\ \A K \in SUBSET Ranges : WF_vars(Rebuild(K))

FairSpec == Spec /\ Fairness

-----------------------------------------------------------------------------
(* Correctness.                                                            *)

(* The command inserts "an idempotent model-version invalidation and a     *)
(* coalesced rebuild job": a range whose recalculation was answered with a *)
(* job is rebuilt in the end, unless its job is dead.                      *)
AnsweredIsRebuilt ==
  \A R \in Ranges :
    (\E c \in Calls : call[c].pc = "answered" /\ R \in call[c].range)
      ~> \/ invalidation[R] = "completed"
         \/ \E K \in SUBSET Ranges : R \in K /\ job[K] = "dead"

=============================================================================
