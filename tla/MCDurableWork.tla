---------------------------- MODULE MCDurableWork ----------------------------
(* Work that has to end although calls die, on small instances: the job     *)
(* queue, and the provisioning of an account database that no operator      *)
(* deprovisions.  They share no variable: a behaviour exercises the one its *)
(* initial state chooses.  What has to end is asked with one enqueue call,  *)
(* so that none race; what must never happen also with two.                 *)
EXTENDS JobQueue, TLC

CONSTANTS Halves, Procs, NoProc, Deprovisions, SlowOwners, MaxCrashes, MaxFailures

VARIABLES
  half, status, lifecycle, lease, final, temp, quarantine, dbLease, proc, crashes, failures

account == <<status, lifecycle, lease, final, temp, quarantine, dbLease, proc, crashes, failures>>

(* Every task has an owner name of its own.                                 *)
OwnOwner == [t \in Tasks |-> t]

(* Sound for the safety run: nothing orders tasks, jobs or enqueue calls,   *)
(* and OwnOwner is the identity.                                            *)
Symmetry == Permutations(Tasks) \cup Permutations(Jobs) \cup Permutations(Enqueuers)

Account == INSTANCE AccountProvisioning

ASSUME AccountConstants == Account!ConstantsHold

WorkInit == half \in Halves /\ Init /\ Account!Init

WorkNext ==
  /\ \/ half = "queue" /\ Next /\ UNCHANGED account
     \/ half = "provisioning" /\ Account!Next /\ UNCHANGED vars
  /\ UNCHANGED half

\* The fairness of each module, where its half runs.
WorkFairness ==
  /\ \A t \in Tasks : /\ WF_vars(half = "queue" /\ \E j \in Jobs : Lease(t, j))
                      /\ WF_vars(half = "queue" /\ Report(t))
  /\ \A e \in Enqueuers : WF_vars(half = "queue" /\ EnqueueSave(e))
  /\ WF_vars(half = "queue" /\ Tick)
  /\ \A p \in Procs : /\ WF_account(half = "provisioning" /\ Account!Proceed(p))
                      /\ WF_account(half = "provisioning" /\ (Account!Bootstrap(p) \/ Account!Reconcile(p)))
  /\ WF_account(half = "provisioning" /\ Account!LeaseLapses)
  /\ WF_account(half = "provisioning" /\ Account!DbLeaseLapses)

WorkSpec == WorkInit /\ [][WorkNext]_<<half, account, vars>>
FairWorkSpec == WorkSpec /\ WorkFairness

(* An account that can be routed to has a whole, verified database.         *)
ActiveHasDatabase == Account!ActiveHasDatabase
(* When no call is under way, an account that can be routed to is one its   *)
(* user sees as active.                                                     *)
StatusFollowsLifecycle == Account!StatusFollowsLifecycle
(* A provisioning that was interrupted does not stay half way.              *)
InterruptedEnds == half = "provisioning" => Account!ProvisioningEnds
=============================================================================
