------------------------- MODULE ProvisioningProofs -------------------------
(***************************************************************************)
(* What an account can be routed to is whole, however often calls die,     *)
(* fail or outlive their leases.  This is so for two calls at a time and   *)
(* as long as nobody deprovisions, which nothing in the server does; three *)
(* calls break it.                                                         *)
(***************************************************************************)
EXTENDS MCDurableWork, TLAPS

TwoCalls == ~Deprovisions /\ \A p, q, r \in Procs : p = q \/ q = r \/ p = r

(* Steps on the way to a new file at the active path.                       *)
Building == {"creating", "migrating", "open", "migrate", "bind", "verifying", "verify", "collision", "rename"}

ProvisioningTyped ==
  /\ lifecycle \in {"none", "active", "unavailable"} \cup Account!InFlight
  /\ final \in {"none"} \cup Account!Verified
  /\ temp \in Account!File
  /\ proc \in [Procs -> [pc : Account!Step \ Account!DeprovisionStep, seen : Account!Lifecycle]]

(* A file that was verified stays so until it is renamed, and then whoever  *)
(* was about to rename it finds none: the other call, which did, makes no   *)
(* other one, for it looks for the active file first.                       *)
CallHolds(p) ==
  /\ proc[p].pc = "activate" => final # "none"
  /\ proc[p].pc \in {"collision", "rename"} /\ final = "none" => temp \in Account!Verified
  /\ proc[p].pc = "rename" /\ final # "none" =>
       temp = "none" /\ \A q \in Procs \ {p} : proc[q].pc \in Building => proc[q].pc = "rename"

ProvisioningInv ==
  /\ ProvisioningTyped
  /\ lifecycle = "active" => final # "none"
  /\ \A p \in Procs : CallHolds(p)

-----------------------------------------------------------------------------
LEMMA InitProvisioning == Account!Init => ProvisioningInv
BY DEF Account!Init, Account!Idle, Account!Lifecycle, Account!Step, Account!File, Account!DeprovisionStep, Account!InFlight,
       Account!ProvisionStep, ProvisioningInv, ProvisioningTyped, CallHolds

(* Only p goes on, to a step of provisioning.                               *)
Moved(p) ==
  /\ proc' \in [Procs -> [pc : Account!Step \ Account!DeprovisionStep, seen : Account!Lifecycle]]
  /\ \A q \in Procs \ {p} : proc'[q] = proc[q]

(* Where a call may go, and which record it then is.                        *)
LEMMA GoneTo ==
  ASSUME ProvisioningInv, NEW p \in Procs, NEW pc \in Account!Step \ Account!DeprovisionStep, Account!Goto(p, pc)
  PROVE  Moved(p) /\ proc'[p].pc = pc
BY DEF Account!Goto, ProvisioningInv, ProvisioningTyped, Moved

LEMMA DoneWith ==
  ASSUME ProvisioningInv, NEW p \in Procs, Account!Done(p)
  PROVE  Moved(p) /\ proc'[p].pc = "idle"
<1>1. Account!Idle \in [pc : Account!Step \ Account!DeprovisionStep, seen : Account!Lifecycle] /\ Account!Idle.pc = "idle"
  BY DEF Account!Idle, Account!Step, Account!DeprovisionStep, Account!ProvisionStep, Account!Lifecycle
<1>2. QED
  BY <1>1 DEF Account!Done, ProvisioningInv, ProvisioningTyped, Moved

(* A step that leaves the active file alone, does not undo what was         *)
(* verified, and begins a new file only where there is none.                *)
LEMMA CallsHold ==
  ASSUME ProvisioningInv, NEW p \in Procs, Moved(p), final' = final,
         \/ temp' = temp
         \/ proc[p].pc \in Building \ {"rename"} /\ (temp \in Account!Verified => temp' \in Account!Verified),
         proc'[p].pc \notin {"activate", "collision", "rename"},
         proc'[p].pc \in Building => final = "none" \/ proc[p].pc \in Building \ {"rename"}
  PROVE  \A q \in Procs : CallHolds(q)'
<1> SUFFICES ASSUME NEW q \in Procs PROVE CallHolds(q)'
  OBVIOUS
<1>1. CASE q = p
  BY <1>1 DEF CallHolds
<1>2. CASE q # p
  <2>1. proc'[q] = proc[q] /\ CallHolds(q)
    BY <1>2 DEF Moved, ProvisioningInv
  <2>2. proc[q].pc \in {"collision", "rename"} /\ final = "none" => temp' \in Account!Verified
    BY <2>1 DEF CallHolds
  <2>3. ASSUME proc[q].pc = "rename", final # "none"
        PROVE  temp' = "none" /\ \A r \in Procs \ {q} : proc'[r].pc \in Building => proc'[r].pc = "rename"
    <3>1. temp = "none" /\ \A r \in Procs \ {q} : proc[r].pc \in Building => proc[r].pc = "rename"
      BY <2>1, <2>3 DEF CallHolds
    <3>2. proc[p].pc \notin Building \ {"rename"}
      BY <1>2, <3>1
    <3>3. temp' = "none" /\ proc'[p].pc \notin Building
      BY <2>3, <3>1, <3>2
    <3>4. QED
      BY <3>1, <3>3 DEF Moved
  <2>4. QED
    BY <2>1, <2>2, <2>3 DEF CallHolds
<1>3. QED
  BY <1>1, <1>2

-----------------------------------------------------------------------------
(* Steps that change no file.                                               *)

(* Such a step leaves both files of a provisioning alone.                   *)
Unfiled == UNCHANGED <<final, temp>>

LEMMA PlainStep ==
  ASSUME ProvisioningInv, NEW p \in Procs, Moved(p), Unfiled,
         proc'[p].pc \notin Building \cup {"activate"},
         lifecycle' \in {"none", "active", "unavailable"} \cup Account!InFlight,
         lifecycle' = "active" => final # "none"
  PROVE  ProvisioningInv'
<1>1. proc'[p].pc \notin {"activate", "collision", "rename"}
  BY DEF Building
<1>2. \A q \in Procs : CallHolds(q)'
  BY <1>1, CallsHold DEF Unfiled
<1>3. QED
  BY <1>2 DEF ProvisioningInv, ProvisioningTyped, Unfiled, Moved

LEMMA CallBegins ==
  ASSUME ProvisioningInv, TwoCalls, NEW p \in Procs,
         Account!Bootstrap(p) \/ Account!BeginDeprovision(p) \/ Account!Reconcile(p)
  PROVE  ProvisioningInv'
<1>1. CASE Account!Bootstrap(p)
  <2>1. Moved(p) /\ proc'[p].pc = "save"
    BY <1>1, GoneTo DEF Account!Bootstrap, Account!Step, Account!DeprovisionStep
  <2>2. QED
    BY <1>1, <2>1, PlainStep DEF Account!Bootstrap, Account!catalog, Account!files, Building, ProvisioningInv, ProvisioningTyped, Unfiled
<1>2. CASE Account!BeginDeprovision(p)
  BY <1>2 DEF TwoCalls, Account!BeginDeprovision
<1>3. CASE Account!Reconcile(p)
  <2>1. lifecycle \in Account!InFlight \cup {"active"} /\ lifecycle # "deleting" /\ lifecycle \in Account!Lifecycle
    BY <1>3 DEF Account!Reconcile, ProvisioningInv, ProvisioningTyped, Account!InFlight, Account!Lifecycle
  <2>2. PICK pc \in {"audit", "reserve"} :
          proc' = [proc EXCEPT ![p] = [seen |-> lifecycle, pc |-> pc]]
    <3>1. CASE lifecycle = "active"
      BY <1>3, <3>1 DEF Account!Reconcile
    <3>2. CASE lifecycle \in Account!InFlight
      BY <1>3, <3>2 DEF Account!Reconcile, Account!InFlight
    <3>3. QED
      BY <2>1, <3>1, <3>2
  <2>3. Moved(p) /\ proc'[p].pc = pc
    BY <2>1, <2>2 DEF Moved, ProvisioningInv, ProvisioningTyped, Account!Step, Account!DeprovisionStep, Account!ProvisionStep
  <2>4. Unfiled /\ lifecycle' = lifecycle
    BY <1>3 DEF Account!Reconcile, Account!catalog, Account!files, Unfiled
  <2>5. QED
    BY <2>2, <2>3, <2>4, PlainStep DEF Building, ProvisioningInv, ProvisioningTyped
<1>4. QED
  BY <1>1, <1>2, <1>3

LEMMA CallStops ==
  ASSUME ProvisioningInv, NEW p \in Procs,
         Account!Crash(p) \/ Account!Fail(p) \/ Account!LeaseHeld(p) \/ Account!Audit(p)
  PROVE  ProvisioningInv'
<1>1. Unfiled /\ lifecycle' = lifecycle
  BY DEF Account!Crash, Account!Fail, Account!LeaseHeld, Account!Audit, Account!catalog, Account!files, Unfiled
<1>2. Account!Done(p) \/ Account!Goto(p, "failed")
  BY DEF Account!Crash, Account!Fail, Account!LeaseHeld, Account!Audit
<1>3. "failed" \in Account!Step \ Account!DeprovisionStep
  BY DEF Account!Step, Account!DeprovisionStep
<1>4. Moved(p) /\ proc'[p].pc \in {"idle", "failed"}
  BY <1>2, <1>3, DoneWith, GoneTo
<1>5. QED
  BY <1>1, <1>4, PlainStep DEF Building, ProvisioningInv, ProvisioningTyped

(* The transactions on the account's rows before any file is looked at, and *)
(* those that end a call.                                                   *)
LEMMA CatalogSteps ==
  ASSUME ProvisioningInv, NEW p \in Procs,
         \/ Account!SaveAccount(p) \/ Account!AcquireLease(p)
         \/ Account!Activate(p) \/ Account!MarkUnavailable(p)
  PROVE  ProvisioningInv'
<1>1. Unfiled
  BY DEF Account!SaveAccount, Account!AcquireLease, Account!Activate, Account!MarkUnavailable, Account!files, Unfiled
<1>2. {"reserve", "locate"} \subseteq Account!Step \ Account!DeprovisionStep
  BY DEF Account!Step, Account!DeprovisionStep, Account!ProvisionStep
<1>3. Account!Goto(p, "reserve") \/ Account!Goto(p, "locate") \/ Account!Done(p)
  BY DEF Account!SaveAccount, Account!AcquireLease, Account!Activate, Account!MarkUnavailable
<1>4. Moved(p) /\ proc'[p].pc \in {"reserve", "locate", "idle"}
  BY <1>2, <1>3, DoneWith, GoneTo
<1>5. CASE lifecycle' = lifecycle
  BY <1>1, <1>4, <1>5, PlainStep DEF Building, ProvisioningInv, ProvisioningTyped
<1>6. CASE Account!Activate(p)
  BY <1>1, <1>4, <1>6, PlainStep DEF Account!Activate, Account!At, Building, ProvisioningInv, CallHolds
<1>7. CASE Account!MarkUnavailable(p)
  BY <1>1, <1>4, <1>7, PlainStep DEF Account!MarkUnavailable, Building
<1>8. QED
  BY <1>5, <1>6, <1>7 DEF Account!SaveAccount, Account!AcquireLease

LEMMA ReserveStep ==
  ASSUME ProvisioningInv, NEW p \in Procs, Account!Reserve(p)
  PROVE  ProvisioningInv'
<1>1. /\ lifecycle' \in {"none", "active", "unavailable"} \cup Account!InFlight
      /\ lifecycle' \in Account!Lifecycle
      /\ lifecycle' = "active" => lifecycle = "active"
  BY DEF Account!Reserve, ProvisioningInv, ProvisioningTyped, Account!InFlight, Account!Lifecycle, Account!Unsafe
<1>2. PICK pc \in {"locate", "failed", "acquire"} : proc' = [proc EXCEPT ![p] = [seen |-> lifecycle', pc |-> pc]]
  <2>1. CASE lifecycle' = "active"
    BY <2>1 DEF Account!Reserve, Account!Unsafe
  <2>2. CASE lifecycle' \in Account!Unsafe
    BY <2>2 DEF Account!Reserve, Account!Unsafe
  <2>3. CASE lifecycle' # "active" /\ lifecycle' \notin Account!Unsafe
    BY <2>3 DEF Account!Reserve
  <2>4. QED
    BY <2>1, <2>2, <2>3
<1>3. Moved(p) /\ proc'[p].pc = pc
  BY <1>1, <1>2 DEF Moved, ProvisioningInv, ProvisioningTyped, Account!Step, Account!DeprovisionStep, Account!ProvisionStep
<1>4. Unfiled
  BY DEF Account!Reserve, Account!files, Unfiled
<1>5. lifecycle' = "active" => final # "none"
  BY <1>1 DEF ProvisioningInv
<1>6. QED
  BY <1>1, <1>2, <1>3, <1>4, <1>5, PlainStep DEF Building

LEMMA FinalSteps ==
  ASSUME ProvisioningInv, NEW p \in Procs, Account!LocateFinal(p) \/ Account!VerifyFinal(p)
  PROVE  ProvisioningInv'
<1>1. Unfiled /\ lifecycle' = lifecycle
  BY DEF Account!LocateFinal, Account!VerifyFinal, Account!catalog, Account!files, Unfiled
<1>2. {"verifyFinal", "failed", "creating", "activate"} \subseteq Account!Step \ Account!DeprovisionStep
  BY DEF Account!Step, Account!DeprovisionStep, Account!ProvisionStep
<1>3. CASE Account!LocateFinal(p)
  <2>1. \/ Account!Goto(p, "verifyFinal") \/ Account!Goto(p, "failed")
        \/ final = "none" /\ Account!Goto(p, "creating")
    BY <1>3 DEF Account!LocateFinal
  <2>2. /\ Moved(p) /\ proc'[p].pc \in {"verifyFinal", "failed", "creating"}
        /\ proc'[p].pc = "creating" => final = "none"
    BY <1>2, <2>1, GoneTo
  <2>3. \A q \in Procs : CallHolds(q)'
    BY <1>1, <2>2, CallsHold DEF Unfiled, Building
  <2>4. QED
    BY <1>1, <2>2, <2>3 DEF Moved, ProvisioningInv, ProvisioningTyped, Unfiled
<1>4. CASE Account!VerifyFinal(p)
  <2>1. \/ Account!Goto(p, "failed") \/ Account!Done(p)
        \/ final \in Account!Verified /\ Account!Goto(p, "activate")
    BY <1>4 DEF Account!VerifyFinal
  <2>2. CASE Account!Goto(p, "failed") \/ Account!Done(p)
    <3>1. Moved(p) /\ proc'[p].pc \in {"failed", "idle"}
      BY <1>2, <2>2, DoneWith, GoneTo
    <3>2. QED
      BY <1>1, <3>1, PlainStep DEF Building, ProvisioningInv, ProvisioningTyped
  <2>3. CASE final \in Account!Verified /\ Account!Goto(p, "activate")
    <3>1. Moved(p) /\ proc'[p].pc = "activate" /\ final' # "none"
      BY <1>1, <1>2, <2>3, GoneTo DEF Account!Verified, Unfiled
    <3>2. \A q \in Procs : CallHolds(q)'
      BY <1>1, <3>1 DEF CallHolds, Moved, Building, ProvisioningInv, Unfiled
    <3>3. QED
      BY <1>1, <3>1, <3>2 DEF Moved, ProvisioningInv, ProvisioningTyped, Unfiled
  <2>4. QED
    BY <2>1, <2>2, <2>3
<1>5. QED
  BY <1>3, <1>4

LEMMA PhaseStep ==
  ASSUME ProvisioningInv, NEW p \in Procs, NEW phase \in {"creating", "migrating", "verifying"},
         NEW next \in {"migrating", "open", "verify"}, Account!SetPhase(p, phase, next)
  PROVE  ProvisioningInv'
<1>1. Unfiled /\ lifecycle' = phase /\ proc[p].pc = phase
  BY DEF Account!SetPhase, Account!files, Account!At, Unfiled
<1>2. Moved(p) /\ proc'[p].pc = next
  BY GoneTo DEF Account!SetPhase, Account!Step, Account!DeprovisionStep, Account!ProvisionStep
<1>3. \A q \in Procs : CallHolds(q)'
  BY <1>1, <1>2, CallsHold DEF Building, Unfiled
<1>4. QED
  BY <1>1, <1>2, <1>3 DEF Moved, ProvisioningInv, ProvisioningTyped, Unfiled, Account!InFlight

-----------------------------------------------------------------------------
(* Steps that make a file.                                                  *)

(* What a step on the temporary file leaves to show: the file stays what it *)
(* was verified to be, and the call is not yet past its verification.       *)
LEMMA TemporaryStep ==
  ASSUME ProvisioningInv, NEW p \in Procs, Moved(p),
         UNCHANGED <<lifecycle, final>>, temp' \in Account!File,
         proc[p].pc \in {"open", "migrate", "bind"}, proc'[p].pc \in {"failed", "migrate", "bind", "verifying"},
         temp \in Account!Verified => temp' \in Account!Verified
  PROVE  ProvisioningInv'
<1>1. \A q \in Procs : CallHolds(q)'
  BY CallsHold DEF Building
<1>2. QED
  BY <1>1 DEF Moved, ProvisioningInv, ProvisioningTyped

LEMMA TemporarySteps ==
  ASSUME ProvisioningInv, NEW p \in Procs, Account!OpenTemporary(p) \/ Account!Migrate(p) \/ Account!Bind(p)
  PROVE  ProvisioningInv'
<1>1. UNCHANGED <<lifecycle, final>> /\ proc[p].pc \in {"open", "migrate", "bind"}
  BY DEF Account!OpenTemporary, Account!Migrate, Account!Bind, Account!At, Account!catalog
<1>2. \E pc \in {"failed", "migrate", "bind", "verifying"} : Account!Goto(p, pc)
  BY DEF Account!OpenTemporary, Account!Migrate, Account!Bind
<1>3. Moved(p) /\ proc'[p].pc \in {"failed", "migrate", "bind", "verifying"}
  BY <1>2, GoneTo DEF Account!Step, Account!DeprovisionStep, Account!ProvisionStep
<1>4. temp' \in Account!File /\ (temp \in Account!Verified => temp' \in Account!Verified)
  BY DEF Account!OpenTemporary, Account!Migrate, Account!Bind, Account!File, Account!Verified, ProvisioningInv, ProvisioningTyped
<1>5. QED
  BY <1>1, <1>3, <1>4, TemporaryStep

LEMMA CheckSteps ==
  ASSUME ProvisioningInv, NEW p \in Procs, Account!VerifyTemporary(p) \/ Account!CheckCollision(p)
  PROVE  ProvisioningInv'
<1>1. Unfiled /\ lifecycle' = lifecycle
  BY DEF Account!VerifyTemporary, Account!CheckCollision, Account!catalog, Account!files, Unfiled
<1>2. {"collision", "rename", "failed"} \subseteq Account!Step \ Account!DeprovisionStep
  BY DEF Account!Step, Account!DeprovisionStep, Account!ProvisionStep
<1>3. CASE Account!Goto(p, "failed")
  <2>1. Moved(p) /\ proc'[p].pc = "failed"
    BY <1>2, <1>3, GoneTo
  <2>2. QED
    BY <1>1, <2>1, PlainStep DEF Building, ProvisioningInv, ProvisioningTyped
<1>4. CASE \E pc \in {"collision", "rename"} : Account!Goto(p, pc)
  <2>1. Moved(p) /\ proc'[p].pc \in {"collision", "rename"}
    BY <1>2, <1>4, GoneTo
  <2>2. /\ final = "none" => temp \in Account!Verified
        /\ final = "none" \/ proc'[p].pc = "collision"
        /\ proc[p].pc \in {"verify", "collision"}
    BY <1>4, <1>2, GoneTo DEF Account!VerifyTemporary, Account!CheckCollision, Account!At, CallHolds, ProvisioningInv
  <2>3. \A q \in Procs : CallHolds(q)'
    <3> SUFFICES ASSUME NEW q \in Procs PROVE CallHolds(q)'
      OBVIOUS
    <3>1. CASE q = p
      BY <1>1, <2>1, <2>2, <3>1 DEF CallHolds, Unfiled
    <3>2. CASE q # p
      <4>1. proc'[q] = proc[q] /\ CallHolds(q)
        BY <2>1, <3>2 DEF Moved, ProvisioningInv
      <4>2. proc[q].pc = "rename" /\ final # "none" => FALSE
        BY <2>2, <3>2, <4>1 DEF CallHolds, Building
      <4>3. QED
        BY <1>1, <4>1, <4>2 DEF CallHolds, Unfiled
    <3>3. QED
      BY <3>1, <3>2
  <2>4. QED
    BY <1>1, <2>1, <2>3 DEF Moved, ProvisioningInv, ProvisioningTyped, Unfiled
<1>5. QED
  BY <1>3, <1>4 DEF Account!VerifyTemporary, Account!CheckCollision

(* The file at the active path is never replaced: a call that finds the     *)
(* path taken finds no file of its own to move there.                       *)
LEMMA RenameStep ==
  ASSUME ProvisioningInv, TwoCalls, NEW p \in Procs, Account!RenameToFinal(p)
  PROVE  ProvisioningInv'
<1>1. UNCHANGED lifecycle /\ proc[p].pc = "rename"
  BY DEF Account!RenameToFinal, Account!catalog, Account!files, Account!At
<1>2. {"activate", "failed"} \subseteq Account!Step \ Account!DeprovisionStep
  BY DEF Account!Step, Account!DeprovisionStep, Account!ProvisionStep
<1>3. CASE temp = "none"
  <2>1. Unfiled /\ Account!Goto(p, "failed")
    BY <1>3 DEF Account!RenameToFinal, Account!files, Unfiled
  <2>2. Moved(p) /\ proc'[p].pc = "failed"
    BY <1>2, <2>1, GoneTo
  <2>3. QED
    BY <1>1, <2>1, <2>2, PlainStep DEF Building, ProvisioningInv, ProvisioningTyped, Unfiled
<1>4. CASE temp # "none"
  <2>1. final = "none" /\ temp \in Account!Verified
    BY <1>1, <1>4 DEF ProvisioningInv, CallHolds
  <2>2. final' = temp /\ temp' = "none" /\ Account!Goto(p, "activate")
    BY <1>4 DEF Account!RenameToFinal
  <2>3. Moved(p) /\ proc'[p].pc = "activate"
    BY <1>2, <2>2, GoneTo
  <2>4. final' # "none"
    BY <1>4, <2>2
  <2>5. \A q \in Procs : CallHolds(q)'
    <3> SUFFICES ASSUME NEW q \in Procs PROVE CallHolds(q)'
      OBVIOUS
    <3>1. \A r \in Procs \ {q} : proc'[q].pc = "rename" => r = p
      BY <2>3 DEF TwoCalls
    <3>2. QED
      BY <2>2, <2>3, <2>4, <3>1 DEF CallHolds, Building
  <2>6. QED
    BY <1>1, <2>1, <2>2, <2>3, <2>4, <2>5 DEF Moved, ProvisioningInv, ProvisioningTyped, Account!File
<1>5. QED
  BY <1>3, <1>4

-----------------------------------------------------------------------------
(* Every step.                                                              *)

LEMMA ElsewhereSteps ==
  ASSUME ProvisioningInv, Account!Write \/ Account!LeaseLapses \/ Account!DbLeaseLapses
  PROVE  ProvisioningInv'
<1>1. /\ UNCHANGED <<lifecycle, temp, proc>>
      /\ final' = final \/ (final = "bound" /\ final' = "used")
  BY DEF Account!Write, Account!LeaseLapses, Account!DbLeaseLapses, Account!catalog, Account!files
<1>2. /\ final' # "none" <=> final # "none"
      /\ final' \in {"none"} \cup Account!Verified
  BY <1>1 DEF ProvisioningInv, ProvisioningTyped, Account!Verified
<1>3. \A q \in Procs : CallHolds(q)'
  BY <1>1, <1>2 DEF CallHolds, ProvisioningInv
<1>4. QED
  BY <1>1, <1>2, <1>3 DEF ProvisioningInv, ProvisioningTyped

LEMMA ProvisioningStep ==
  ASSUME TwoCalls, ProvisioningInv, Account!Next
  PROVE  ProvisioningInv'
<1>1. ASSUME NEW p \in Procs, Account!Provision(p)
      PROVE  ProvisioningInv'
  <2>1. CASE Account!Reserve(p)
    BY <2>1, ReserveStep
  <2>2. CASE Account!AcquireLease(p) \/ Account!Activate(p)
    BY <2>2, CatalogSteps
  <2>3. CASE Account!LeaseHeld(p)
    BY <2>3, CallStops
  <2>4. CASE Account!LocateFinal(p) \/ Account!VerifyFinal(p)
    BY <2>4, FinalSteps
  <2>5. CASE Account!SetPhase(p, "creating", "migrating") \/ Account!SetPhase(p, "migrating", "open")
             \/ Account!SetPhase(p, "verifying", "verify")
    BY <2>5, PhaseStep
  <2>6. CASE Account!OpenTemporary(p) \/ Account!Migrate(p) \/ Account!Bind(p)
    BY <2>6, TemporarySteps
  <2>7. CASE Account!VerifyTemporary(p) \/ Account!CheckCollision(p)
    BY <2>7, CheckSteps
  <2>8. CASE Account!RenameToFinal(p)
    BY <2>8, RenameStep
  <2>9. QED
    BY <1>1, <2>1, <2>2, <2>3, <2>4, <2>5, <2>6, <2>7, <2>8 DEF Account!Provision
<1>2. ASSUME NEW p \in Procs, Account!Proceed(p)
      PROVE  ProvisioningInv'
  <2>1. ~Account!Deprovision(p)
    BY DEF Account!Deprovision, Account!FindFiles, Account!SetDeleting, Account!CheckVacancy, Account!MoveOut, Account!SetQuarantined,
           Account!At, Account!DeprovisionStep, ProvisioningInv, ProvisioningTyped
  <2>2. CASE Account!SaveAccount(p) \/ Account!MarkUnavailable(p)
    BY <2>2, CatalogSteps
  <2>3. CASE Account!Audit(p)
    BY <2>3, CallStops
  <2>4. QED
    BY <1>1, <1>2, <2>1, <2>2, <2>3 DEF Account!Proceed
<1>3. ASSUME NEW p \in Procs, Account!Bootstrap(p) \/ Account!BeginDeprovision(p) \/ Account!Reconcile(p)
      PROVE  ProvisioningInv'
  BY <1>3, CallBegins
<1>4. ASSUME NEW p \in Procs, Account!Crash(p) \/ Account!Fail(p)
      PROVE  ProvisioningInv'
  BY <1>4, CallStops
<1>5. CASE Account!Write \/ Account!LeaseLapses \/ Account!DbLeaseLapses
  BY <1>5, ElsewhereSteps
<1>6. QED
  BY <1>2, <1>3, <1>4, <1>5 DEF Account!Next

(* With two calls, a file that was verified is not lost before it is in     *)
(* place, and nothing replaces what is in place                             *)
(* (SqliteAccountProvisioner::provision).                                   *)
THEOREM ProvisioningInvariant == ASSUME TwoCalls PROVE Account!Spec => []ProvisioningInv
<1>1. ProvisioningInv /\ [Account!Next]_Account!vars => ProvisioningInv'
  <2>1. CASE UNCHANGED Account!vars
    BY <2>1 DEF Account!vars, ProvisioningInv, ProvisioningTyped, CallHolds
  <2>2. QED
    BY <2>1, ProvisioningStep
<1>2. QED
  BY <1>1, InitProvisioning, PTL DEF Account!Spec

(* The router follows the lifecycle: an account it lets through has its     *)
(* whole database in place, although both calls may be slower than their    *)
(* leases, and die or fail anywhere.                                        *)
THEOREM RoutedAreWhole == ASSUME TwoCalls PROVE Account!Spec => []ActiveHasDatabase
<1>1. ProvisioningInv => ActiveHasDatabase
  BY DEF ProvisioningInv, ProvisioningTyped, ActiveHasDatabase, Account!ActiveHasDatabase
<1>2. QED
  BY <1>1, ProvisioningInvariant, PTL

=============================================================================
