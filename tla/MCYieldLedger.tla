---------------------------- MODULE MCYieldLedger ----------------------------
(* YieldLedger and the recalculation command on small instances.  They      *)
(* share no row, so a behaviour exercises one of them: which, it chooses in *)
(* its initial state.                                                       *)
EXTENDS YieldLedger, TLC

CONSTANTS Ranges, Calls, MaxDeaths, Halves
VARIABLES half, invalidation, job, call, deaths

commandVars == <<invalidation, job, call, deaths>>

Command == INSTANCE Recalculation WITH Limit <- 1

(* Ranges that touch, and ranges that overlap. *)
Adjacent == {[start |-> i, end |-> i + 1] : i \in 0..2}
Overlapping == {[start |-> i, end |-> i + 2] : i \in 0..1}

ASSUME RangesAssumption == \A R \in Ranges : R.start < R.end

AllInit == half \in Halves /\ Init /\ Command!Init

AllNext ==
  /\ \/ half = "ledger" /\ Next /\ UNCHANGED commandVars
     \/ half = "command" /\ Command!Next /\ UNCHANGED vars
  /\ UNCHANGED half

AllSpec ==
  /\ AllInit /\ [][AllNext]_<<half, vars, commandVars>>
  /\ Fairness
  /\ Command!Fairness

(* A recalculation that was answered with a job is carried out.             *)
AnsweredIsRebuilt == Command!AnsweredIsRebuilt

=============================================================================
