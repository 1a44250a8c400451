------------------------- MODULE AccountProvisioning -------------------------
(***************************************************************************)
(* The lifecycle of one account's SQLite database: the account's rows in   *)
(* the management database, its files under the accounts directory, and    *)
(* the processes that provision, reconcile and deprovision it              *)
(* (SqliteAccountProvisioner) or trigger provisioning when its user signs  *)
(* in (provision_personal_account).                                        *)
(*                                                                         *)
(* Every management transaction and every file operation is one action;    *)
(* processes interleave and crash between them.  "seen" is the lifecycle a *)
(* call read when it began and acts on to its end.  Accounts share no      *)
(* state here, so one account is modelled.                                 *)
(***************************************************************************)
EXTENDS Integers, FiniteSets

CONSTANTS
  Procs,        \* concurrent calls
  NoProc,
  Deprovisions, \* whether operators deprovision; nothing in the server does
  SlowOwners,   \* whether a call may still be busy when its lease runs out
  MaxCrashes,   \* bound: calls that die half way
  MaxFailures   \* bound: steps that fail for an outside reason (I/O, busy)

ConstantsHold ==
  /\ NoProc \notin Procs
  /\ Deprovisions \in BOOLEAN /\ SlowOwners \in BOOLEAN
  /\ MaxCrashes \in Nat /\ MaxFailures \in Nat

VARIABLES
  status,      \* accounts.status
  lifecycle,   \* account_database_registry.lifecycle_state
  lease,       \* its migration lease: nobody compares the owner's name
  final,       \* the file at the active path,
  temp,        \* at the temporary path
  quarantine,  \* and at the quarantine path
  dbLease,     \* the migration lease inside the temporary file
  proc,        \* what each call is doing
  crashes, failures

catalog == <<status, lifecycle, lease>>
files == <<final, temp, quarantine, dbLease>>
bounds == <<crashes, failures>>
vars == <<status, lifecycle, lease, final, temp, quarantine, dbLease, proc,
          crashes, failures>>

Status ==
  {"absent", "provisioning", "active", "suspended", "deleting", "quarantined"}

InFlight == {"reserved", "creating", "migrating", "verifying"}
Unsafe == {"unavailable", "quarantined", "deleting"}
Lifecycle == {"none", "active"} \cup InFlight \cup Unsafe

(* "blank": not migrated to the end; "schema": migrated, not yet bound to  *)
(* the account; "used": bound, and holding what the account stored.        *)
File == {"none", "blank", "schema", "bound", "used"}
Verified == {"bound", "used"}

ProvisionStep ==
  {"reserve", "acquire", "locate", "verifyFinal", "creating", "migrating",
   "open", "migrate", "bind", "verifying", "verify", "collision", "rename",
   "activate"}
DeprovisionStep == {"find", "deleting", "vacancy", "moveOut", "quarantined"}
Step ==
  {"idle", "save", "audit", "failed"} \cup ProvisionStep \cup DeprovisionStep

TypeOK ==
  /\ status \in Status
  /\ lifecycle \in Lifecycle
  /\ lease \in {"free", "live", "lapsed"}
  /\ final \in File /\ temp \in File /\ quarantine \in File
  /\ dbLease \in [owner : Procs \cup {NoProc}, live : BOOLEAN]
  /\ proc \in [Procs -> [pc : Step, seen : Lifecycle]]
  /\ crashes \in 0..MaxCrashes /\ failures \in 0..MaxFailures

Idle == [pc |-> "idle", seen |-> "none"]
NoDbLease == [owner |-> NoProc, live |-> FALSE]

Init ==
  /\ status = "absent" /\ lifecycle = "none" /\ lease = "free"
  /\ final = "none" /\ temp = "none" /\ quarantine = "none"
  /\ dbLease = NoDbLease
  /\ proc = [p \in Procs |-> Idle]
  /\ crashes = 0 /\ failures = 0

At(p, pc) == proc[p].pc = pc
Goto(p, pc) == proc' = [proc EXCEPT ![p].pc = pc]
Done(p) == proc' = [proc EXCEPT ![p] = Idle]

-----------------------------------------------------------------------------
(* Sign-in: a user without an active account gets the personal account     *)
(* saved and provisioned.                                                  *)

Bootstrap(p) ==
  /\ At(p, "idle")
  /\ status # "active"
  /\ Goto(p, "save")
  /\ UNCHANGED <<catalog, files, bounds>>

SaveAccount(p) ==
  /\ At(p, "save")
  /\ status' = "provisioning"
  /\ Goto(p, "reserve")
  /\ UNCHANGED <<lifecycle, lease, files, bounds>>

-----------------------------------------------------------------------------
(* provision                                                               *)

Reserve(p) ==
  /\ At(p, "reserve")
  /\ lifecycle' = IF lifecycle = "none" THEN "reserved" ELSE lifecycle
  /\ status' = IF lifecycle' = "active" THEN status ELSE "provisioning"
  /\ proc' = [proc EXCEPT ![p] =
       [seen |-> lifecycle',
        pc |-> CASE lifecycle' = "active" -> "locate"
                 [] lifecycle' \in Unsafe -> "failed"
                 [] OTHER -> "acquire"]]
  /\ UNCHANGED <<lease, files, bounds>>

(* Mutant: a lease that ran out is not taken over. *)
ClaimableWhenFree == lease = "free"

(* The WHERE clause of acquire_provisioning_lease. *)
Claimable == lease \in {"free", "lapsed"}

AcquireLease(p) ==
  /\ At(p, "acquire")
  /\ Claimable
  /\ lease' = "live"
  /\ Goto(p, "locate")
  /\ UNCHANGED <<status, lifecycle, files, bounds>>

(* The one error of provision that does not mark the account unavailable.  *)
LeaseHeld(p) ==
  /\ At(p, "acquire")
  /\ ~Claimable
  /\ Done(p)
  /\ UNCHANGED <<catalog, files, bounds>>

(* Both the repeated call for an active account and the resumed one look   *)
(* for the active file first.                                              *)
LocateFinal(p) ==
  /\ At(p, "locate")
  /\ Goto(p, CASE final # "none" -> "verifyFinal"
               [] final = "none" /\ proc[p].seen = "active" -> "failed"
               [] OTHER -> "creating")
  /\ UNCHANGED <<catalog, files, bounds>>

VerifyFinal(p) ==
  /\ At(p, "verifyFinal")
  /\ IF final \notin Verified THEN Goto(p, "failed")
     ELSE IF proc[p].seen = "active" THEN Done(p)
     ELSE Goto(p, "activate")
  /\ UNCHANGED <<catalog, files, bounds>>

SetPhase(p, phase, next) ==
  /\ At(p, phase)
  /\ lifecycle' = phase
  /\ Goto(p, next)
  /\ UNCHANGED <<status, lease, files, bounds>>

(* apply_sqlite_database: create the file, take the lease inside it ... *)
OpenTemporary(p) ==
  /\ At(p, "open")
  /\ temp' = IF temp = "none" THEN "blank" ELSE temp
  /\ IF dbLease.live
     THEN Goto(p, "failed") /\ UNCHANGED dbLease
     ELSE Goto(p, "migrate") /\ dbLease' = [owner |-> p, live |-> TRUE]
  /\ UNCHANGED <<catalog, final, quarantine, bounds>>

(* ... migrate, and give back the lease if it is still one's own. *)
Migrate(p) ==
  /\ At(p, "migrate")
  /\ temp' = IF temp = "blank" THEN "schema" ELSE temp
  /\ dbLease' = IF dbLease.owner = p THEN NoDbLease ELSE dbLease
  /\ Goto(p, "bind")
  /\ UNCHANGED <<catalog, final, quarantine, bounds>>

Bind(p) ==
  /\ At(p, "bind")
  /\ IF temp \in {"none", "blank"}
     THEN Goto(p, "failed") /\ UNCHANGED temp
     ELSE /\ temp' = IF temp = "schema" THEN "bound" ELSE temp
          /\ Goto(p, "verifying")
  /\ UNCHANGED <<catalog, final, quarantine, dbLease, bounds>>

VerifyTemporary(p) ==
  /\ At(p, "verify")
  /\ Goto(p, IF temp \in Verified THEN "collision" ELSE "failed")
  /\ UNCHANGED <<catalog, files, bounds>>

(* Mutant: activates what is not yet in place. *)
CheckCollisionActivates(p) ==
  /\ At(p, "collision")
  /\ Goto(p, IF final = "none" THEN "activate" ELSE "failed")
  /\ UNCHANGED <<catalog, files, bounds>>

CheckCollision(p) ==
  /\ At(p, "collision")
  /\ Goto(p, IF final = "none" THEN "rename" ELSE "failed")
  /\ UNCHANGED <<catalog, files, bounds>>

(* A rename replaces whatever is at its destination. *)
RenameToFinal(p) ==
  /\ At(p, "rename")
  /\ IF temp = "none"
     THEN Goto(p, "failed") /\ UNCHANGED files
     ELSE /\ final' = temp /\ temp' = "none" /\ dbLease' = NoDbLease
          /\ Goto(p, "activate")
          /\ UNCHANGED quarantine
  /\ UNCHANGED <<catalog, bounds>>

Activate(p) ==
  /\ At(p, "activate")
  /\ lifecycle' = "active" /\ status' = "active" /\ lease' = "free"
  /\ Done(p)
  /\ UNCHANGED <<files, bounds>>

Disabled(s) == IF s = "quarantined" THEN s ELSE "suspended"

MarkUnavailable(p) ==
  /\ At(p, "failed")
  /\ lifecycle' = IF lifecycle = "none" THEN "none" ELSE "unavailable"
  /\ lease' = IF lifecycle = "none" THEN lease ELSE "free"
  /\ status' = Disabled(status)
  /\ Done(p)
  /\ UNCHANGED <<files, bounds>>

Provision(p) ==
  \/ Reserve(p) \/ AcquireLease(p) \/ LeaseHeld(p) \/ LocateFinal(p) \/ VerifyFinal(p)
  \/ SetPhase(p, "creating", "migrating") \/ SetPhase(p, "migrating", "open")
  \/ OpenTemporary(p) \/ Migrate(p) \/ Bind(p)
  \/ SetPhase(p, "verifying", "verify") \/ VerifyTemporary(p)
  \/ CheckCollision(p) \/ RenameToFinal(p) \/ Activate(p)

-----------------------------------------------------------------------------
(* deprovision and reconcile                                               *)

BeginDeprovision(p) ==
  /\ Deprovisions
  /\ At(p, "idle")
  /\ lifecycle # "none"
  /\ proc' = [proc EXCEPT ![p] = [pc |-> "find", seen |-> lifecycle]]
  /\ UNCHANGED <<catalog, files, bounds>>

FindFiles(p) ==
  /\ At(p, "find")
  /\ IF proc[p].seen = "quarantined" /\ quarantine # "none" THEN Done(p)
     ELSE Goto(p, CASE final # "none" -> "deleting"
                    [] final = "none" /\ quarantine # "none" -> "quarantined"
                    [] OTHER -> "failed")
  /\ UNCHANGED <<catalog, files, bounds>>

SetDeleting(p) ==
  /\ At(p, "deleting")
  /\ lifecycle' = "deleting" /\ status' = "deleting"
  /\ Goto(p, "vacancy")
  /\ UNCHANGED <<lease, files, bounds>>

(* Mutant: what is in quarantine may be replaced. *)
CheckVacancyBlind(p) ==
  /\ At(p, "vacancy")
  /\ Goto(p, "moveOut")
  /\ UNCHANGED <<catalog, files, bounds>>

CheckVacancy(p) ==
  /\ At(p, "vacancy")
  /\ IF quarantine = "none" THEN Goto(p, "moveOut") ELSE Done(p)
  /\ UNCHANGED <<catalog, files, bounds>>

MoveOut(p) ==
  /\ At(p, "moveOut")
  /\ IF final = "none"
     THEN Done(p) /\ UNCHANGED files
     ELSE /\ quarantine' = final /\ final' = "none"
          /\ Goto(p, "quarantined")
          /\ UNCHANGED <<temp, dbLease>>
  /\ UNCHANGED <<catalog, bounds>>

SetQuarantined(p) ==
  /\ At(p, "quarantined")
  /\ lifecycle' = "quarantined" /\ status' = "quarantined"
  /\ Done(p)
  /\ UNCHANGED <<lease, files, bounds>>

Deprovision(p) ==
  \/ FindFiles(p) \/ SetDeleting(p) \/ CheckVacancy(p) \/ MoveOut(p) \/ SetQuarantined(p)

(* Reconciliation acts on the lifecycle it listed at its start. *)
Reconcile(p) ==
  /\ At(p, "idle")
  /\ lifecycle \in InFlight \cup {"deleting", "active"}
  /\ proc' = [proc EXCEPT ![p] =
       [seen |-> lifecycle,
        pc |-> CASE lifecycle = "active" -> "audit"
                 [] lifecycle = "deleting" -> "find"
                 [] OTHER -> "reserve"]]
  /\ UNCHANGED <<catalog, files, bounds>>

Audit(p) ==
  /\ At(p, "audit")
  /\ IF final \in Verified THEN Done(p) ELSE Goto(p, "failed")
  /\ UNCHANGED <<catalog, files, bounds>>

-----------------------------------------------------------------------------
(* The account at work, time, and failures.                                *)

(* The router lets an account write when its lifecycle is active. *)
Write ==
  /\ lifecycle = "active" /\ final = "bound"
  /\ final' = "used"
  /\ UNCHANGED <<catalog, temp, quarantine, dbLease, proc, bounds>>

(* Calls between acquiring the lease and giving it back. *)
Inside(p) ==
  /\ proc[p].pc \in {"failed"} \cup (ProvisionStep \ {"reserve", "acquire"})
  /\ proc[p].seen \in InFlight

(* Both leases last 15 minutes by the clock and are never renewed; they    *)
(* begin at different times, and one counts in whole seconds.              *)
LeaseLapses ==
  /\ lease = "live"
  /\ SlowOwners \/ \A p \in Procs : ~Inside(p)
  /\ lease' = "lapsed"
  /\ UNCHANGED <<status, lifecycle, files, proc, bounds>>

DbLeaseLapses ==
  /\ dbLease.live
  /\ SlowOwners \/ \A p \in Procs : ~At(p, "migrate")
  /\ dbLease' = [dbLease EXCEPT !.live = FALSE]
  /\ UNCHANGED <<catalog, final, temp, quarantine, proc, bounds>>

Crash(p) ==
  /\ ~At(p, "idle")
  /\ crashes < MaxCrashes /\ crashes' = crashes + 1
  /\ Done(p)
  /\ UNCHANGED <<catalog, files, failures>>

(* A statement or a file operation fails and changes nothing. *)
Fail(p) ==
  /\ ~At(p, "idle")
  /\ failures < MaxFailures /\ failures' = failures + 1
  /\ IF proc[p].pc \in ProvisionStep THEN Goto(p, "failed") ELSE Done(p)
  /\ UNCHANGED <<catalog, files, crashes>>

-----------------------------------------------------------------------------

Proceed(p) ==
  SaveAccount(p) \/ Provision(p) \/ MarkUnavailable(p) \/ Deprovision(p) \/ Audit(p)

Next ==
  \/ \E p \in Procs :
       \/ Bootstrap(p) \/ BeginDeprovision(p) \/ Reconcile(p)
       \/ Proceed(p) \/ Crash(p) \/ Fail(p)
  \/ Write \/ LeaseLapses \/ DbLeaseLapses

Spec == Init /\ [][Next]_vars

(* Calls run to their end unless they crash, leases run out, and someone   *)
(* tries again: the user signs in, or reconciliation runs.                 *)
Fairness ==
  /\ \A p \in Procs : WF_vars(Proceed(p)) /\ WF_vars(Bootstrap(p) \/ Reconcile(p))
  /\ WF_vars(LeaseLapses) /\ WF_vars(DbLeaseLapses)

FairSpec == Spec /\ Fairness

-----------------------------------------------------------------------------
(* Correctness.                                                            *)

(* "without routing requests to a partial database": the router follows    *)
(* the lifecycle, so an active account has a whole, verified database.     *)
ActiveHasDatabase == lifecycle = "active" => final \in Verified

(* What an account has stored is never overwritten, dropped or moved       *)
(* anywhere but to quarantine, and there only where it replaces nothing.   *)
DataSurvives ==
  [][/\ final = "used" => "used" \in {final', quarantine'}
     /\ quarantine = "used" => quarantine' = "used" /\ (final = "used" => final' = "used")]_vars

(* When no call is under way, an account that can be routed to is one its  *)
(* user sees as active.                                                    *)
StatusFollowsLifecycle ==
  (\A p \in Procs : At(p, "idle")) /\ lifecycle = "active" => status = "active"

(* "startup reconciliation resumes or safely rolls back provisioning": an  *)
(* interrupted provisioning does not stay half way.                        *)
ProvisioningEnds == lifecycle \in InFlight ~> lifecycle \notin InFlight
=============================================================================
