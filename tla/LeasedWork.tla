----------------------------- MODULE LeasedWork -----------------------------
(***************************************************************************)
(* What the job queue promises its callers: work is held by at most one    *)
(* worker, another may take it over only after the hold lapsed, and only   *)
(* the holder settles it.  A late answer counts as long as nobody else     *)
(* took the work.                                                          *)
(***************************************************************************)
CONSTANTS Jobs, Tasks, Nobody

VARIABLES status, holder, lapsed

lwVars == <<status, holder, lapsed>>

Init ==
  /\ status = [j \in Jobs |-> "absent"]
  /\ holder = [j \in Jobs |-> Nobody]
  /\ lapsed = [j \in Jobs |-> FALSE]

(* The job leaves its holder, if any, for another status. *)
Becomes(j, s) ==
  /\ status' = [status EXCEPT ![j] = s]
  /\ holder' = [holder EXCEPT ![j] = Nobody]
  /\ lapsed' = [lapsed EXCEPT ![j] = FALSE]

Submit(j) ==
  /\ status[j] \in {"absent", "dead", "cancelled"}
  /\ Becomes(j, "queued")

(* Whoever waited long before taking the work may find its hold lapsed. *)
Take(j, t) ==
  /\ status[j] = "queued" \/ (status[j] = "held" /\ lapsed[j])
  /\ \A k \in Jobs : holder[k] # t
  /\ status' = [status EXCEPT ![j] = "held"]
  /\ holder' = [holder EXCEPT ![j] = t]
  /\ \E late \in BOOLEAN : lapsed' = [lapsed EXCEPT ![j] = late]

Settle(j, t) ==
  /\ status[j] = "held" /\ holder[j] = t
  /\ \E s \in {"queued", "done", "dead"} : Becomes(j, s)

(* The holder stops without settling; the work stays held until it lapses. *)
Orphan(j) ==
  /\ status[j] = "held"
  /\ holder' = [holder EXCEPT ![j] = Nobody]
  /\ UNCHANGED <<status, lapsed>>

Lapse(S) ==
  /\ \A j \in S : status[j] = "held"
  /\ lapsed' = [j \in Jobs |-> lapsed[j] \/ j \in S]
  /\ UNCHANGED <<status, holder>>

Withdraw(j) ==
  /\ status[j] \in {"queued", "held", "dead"}
  /\ Becomes(j, "cancelled")

Next ==
  \/ \E j \in Jobs : Submit(j) \/ Orphan(j) \/ Withdraw(j)
  \/ \E j \in Jobs, t \in Tasks : Take(j, t) \/ Settle(j, t)
  \/ \E S \in SUBSET Jobs : Lapse(S)

Spec == Init /\ [][Next]_lwVars

=============================================================================
