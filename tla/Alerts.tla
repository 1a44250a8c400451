------------------------------- MODULE Alerts -------------------------------
(***************************************************************************)
(* Evaluation of one alert rule (alert_evaluator.rs, alert_rules.rs).  An  *)
(* evaluation takes the time, reads the rule's state, decides, and commits *)
(* state and transition at once; evaluations overlap.  The condition is    *)
(* what evaluate_alert says of the metrics.  The repository is a trait     *)
(* without an implementation: commit replaces what is there.               *)
(***************************************************************************)
EXTENDS Naturals, FiniteSets

CONSTANTS
  Evaluators,
  Debounce,   \* debounce_seconds
  Cooldown,   \* cooldown_seconds
  MaxTime,
  MaxEvents   \* bound on events opened

VARIABLES
  today,      \* the clock
  state,      \* AlertEvaluationState
  evaluation, \* what each evaluator has read
  opened, resolved, \* events queued for delivery, by id: [at]
  clearAt,    \* history: when the condition was last committed as clear, 0 for never and
              \* once an evaluation that took the time before that has committed
  overtaken   \* history: an evaluation committed over a state newer than the one it read

vars == <<today, state, evaluation, opened, resolved, clearAt, overtaken>>

None == 0
Conditions == {"triggered", "clear", "unknown"}
NewState == [pending |-> None, open |-> None, resolved |-> None]
Idle == [pc |-> "idle", at |-> 0, read |-> NewState, fresh |-> TRUE]
Ids(events) == {e.id : e \in events}

Init ==
  /\ today = 1 /\ state = NewState
  /\ evaluation = [e \in Evaluators |-> Idle]
  /\ opened = {} /\ resolved = {} /\ clearAt = 0 /\ overtaken = FALSE

----------------------------------------------------------------------------
\* evaluate takes the time before it reads.  (What follows a commit over a newer
\* state is not explored: nothing begins then, and the clock stands.)
Begin(e) ==
  /\ ~overtaken /\ evaluation[e].pc = "idle"
  /\ evaluation' = [evaluation EXCEPT ![e] = [Idle EXCEPT !.pc = "read", !.at = today]]
  /\ UNCHANGED <<today, state, opened, resolved, clearAt, overtaken>>

Read(e) ==
  /\ evaluation[e].pc = "read"
  /\ evaluation' = [evaluation EXCEPT ![e].pc = "commit", ![e].read = state, ![e].fresh = TRUE]
  /\ UNCHANGED <<today, state, opened, resolved, clearAt, overtaken>>

\* elapsed saturates at zero.
Elapsed(from, to) == IF to > from THEN to - from ELSE 0

\* (mutant: the cooldown not looked at)
HeldOffNever(s, at) == s.open # None
HeldOff(s, at) == s.open # None \/ (s.resolved # None /\ Elapsed(s.resolved, at) < Cooldown)
Since(s, at) == IF s.pending = None THEN at ELSE s.pending

Recovered(s, at) ==
  [pending |-> None, open |-> None, resolved |-> IF s.open = None THEN s.resolved ELSE at]

Triggered(s, at, id) ==
  IF HeldOff(s, at) THEN s
  ELSE IF Elapsed(Since(s, at), at) < Debounce THEN [s EXCEPT !.pending = Since(s, at)]
  ELSE [s EXCEPT !.pending = None, !.open = id]

\* The new state and the transition, in one transaction.  A disabled rule, a
\* time outside the schedule and a missing metric are all "unknown".
Commit(e, condition) ==
  LET v == evaluation[e]
      id == Cardinality(opened) + 1
      new == CASE condition = "triggered" -> Triggered(v.read, v.at, id)
               [] condition = "clear" -> Recovered(v.read, v.at)
               [] OTHER -> v.read
  IN /\ v.pc = "commit" /\ (new.open = id => id <= MaxEvents)
     /\ state' = new
     /\ opened' = IF new.open = id THEN opened \cup {[id |-> id, at |-> v.at]} ELSE opened
     /\ resolved' = IF condition = "clear" /\ v.read.open # None
                    THEN resolved \cup {[id |-> v.read.open, at |-> v.at]} ELSE resolved
     /\ clearAt' = IF condition = "clear" THEN v.at
                   ELSE IF condition = "triggered" /\ v.at < clearAt THEN 0 ELSE clearAt
     /\ overtaken' = (overtaken \/ ~v.fresh)
     /\ evaluation' = [d \in Evaluators |-> IF d = e THEN Idle ELSE [evaluation[d] EXCEPT !.fresh = @ /\ new = state]]
     /\ UNCHANGED today

\* The evaluation ends before its commit, or the commit fails.
Lose(e) ==
  /\ evaluation[e].pc # "idle"
  /\ evaluation' = [evaluation EXCEPT ![e] = Idle]
  /\ UNCHANGED <<today, state, opened, resolved, clearAt, overtaken>>

Tick ==
  /\ ~overtaken /\ today < MaxTime /\ today' = today + 1
  /\ UNCHANGED <<state, evaluation, opened, resolved, clearAt, overtaken>>

Next ==
  \/ Tick
  \/ \E e \in Evaluators : Begin(e) \/ Read(e) \/ Lose(e) \/ \E condition \in Conditions : Commit(e, condition)

Spec == Init /\ [][Next]_vars

----------------------------------------------------------------------------
\* As long as no evaluation commits over a newer state: at most one event is
\* open, the state names it, each recovers once, and a new one comes only after
\* the cooldown of the last and then the debounce, since nothing is pending
\* before; and the debounce has passed since the condition was clear, unless an
\* evaluation that took the time earlier came between.
OneOpenEvent ==
  overtaken \/
  /\ Ids(opened) \ Ids(resolved) = {state.open} \ {None}
  /\ \A r, s \in resolved : r.id = s.id => r = s
  /\ Cooldown > 0 => \A o \in opened, r \in resolved : o.id = r.id + 1 => o.at >= r.at + Cooldown + Debounce
  /\ state.open # None => \A o \in opened : o.id = state.open => o.at >= clearAt + Debounce
=============================================================================
