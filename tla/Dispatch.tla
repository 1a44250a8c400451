------------------------------ MODULE Dispatch ------------------------------
(***************************************************************************)
(* Leasing the next job of any account (job_dispatch.rs): a pass asks the  *)
(* accounts' queues in the order of their ids, each in a statement of its  *)
(* own, and stops at the first lease or the first error.  A queue is the   *)
(* number of jobs it could lease; what becomes of leases is module         *)
(* JobQueue.                                                               *)
(***************************************************************************)
EXTENDS Naturals

CONSTANTS
  Accounts,   \* how many, in order of their ids
  Dispatchers,
  MaxJobs     \* bound on the jobs of a queue

VARIABLES
  due,     \* jobs that could be leased, by account
  down,    \* account whose database cannot be reached, 0 for none
  pass     \* account that each pass asks next, 0 when there is none

vars == <<due, down, pass>>

Init ==
  /\ due = [a \in 1 .. Accounts |-> 0]
  /\ down = 0
  /\ pass = [d \in Dispatchers |-> 0]

\* Enqueued, retried, requeued, or its lease has expired.
BecomesDue(a) ==
  /\ due[a] < MaxJobs
  /\ due' = [due EXCEPT ![a] = @ + 1]
  /\ UNCHANGED <<down, pass>>

Begin(d) ==
  /\ pass[d] = 0
  /\ pass' = [pass EXCEPT ![d] = 1]
  /\ UNCHANGED <<due, down>>

Change ==
  /\ down' \in (0 .. Accounts) \ {down}
  /\ UNCHANGED <<due, pass>>

\* (mutant: an account without a job ends the pass)
AskFirst(d) ==
  LET a == pass[d] IN
  /\ a > 0
  /\ due' = IF a # down /\ due[a] > 0 THEN [due EXCEPT ![a] = @ - 1] ELSE due
  /\ pass' = [pass EXCEPT ![d] = 0]
  /\ UNCHANGED down

\* lease_next asks one account: its lease ends the pass, its error too, and
\* the last one's having none.
Ask(d) ==
  LET a == pass[d] IN
  /\ a > 0
  /\ due' = IF a # down /\ due[a] > 0 THEN [due EXCEPT ![a] = @ - 1] ELSE due
  /\ pass' = [pass EXCEPT ![d] = IF a = down \/ due[a] > 0 \/ a = Accounts THEN 0 ELSE a + 1]
  /\ UNCHANGED down

Next ==
  \/ \E a \in 1 .. Accounts : BecomesDue(a)
  \/ \E d \in Dispatchers : Begin(d) \/ Ask(d)
  \/ Change

Spec == Init /\ [][Next]_vars

----------------------------------------------------------------------------
\* An account is served as long as the accounts before it run out of jobs and
\* neither its own database nor one before it fails; behind a first account
\* that always has a job, or whose database is down, the others wait for ever.
ServedInTurn ==
  \A a \in 1 .. Accounts :
    (\A b \in 1 .. a - 1 : <>[](due[b] = 0)) /\ <>[](down \notin 1 .. a) => []<>(due[a] < MaxJobs)
=============================================================================
