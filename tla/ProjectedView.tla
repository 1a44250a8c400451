---------------------------- MODULE ProjectedView ----------------------------
(***************************************************************************)
(* What the account outbox promises the management database: every         *)
(* committed event takes effect there exactly once and in the order the    *)
(* account committed it, and in between a row may only be withdrawn.       *)
(***************************************************************************)
EXTENDS Integers, Sequences

CONSTANTS Systems, Events, Nothing

VARIABLES log, position, view

pvVars == <<log, position, view>>

Init ==
  /\ log = <<>>
  /\ position = 0
  /\ view = [s \in Systems |-> Nothing]

Commit(e) ==
  /\ log' = Append(log, e)
  /\ UNCHANGED <<position, view>>

(* The next event, and no other, decides what is shown of its system. *)
Deliver ==
  /\ position < Len(log)
  /\ position' = position + 1
  /\ LET e == log[position + 1]
     IN view' = [view EXCEPT ![e.system] =
                   IF e.shows = "private" THEN Nothing ELSE e.shows]
  /\ UNCHANGED log

Withdraw(s) ==
  /\ view' = [view EXCEPT ![s] = Nothing]
  /\ UNCHANGED <<log, position>>

Next ==
  \/ \E e \in Events : Commit(e)
  \/ Deliver
  \/ \E s \in Systems : Withdraw(s)

Spec == Init /\ [][Next]_pvVars

=============================================================================
