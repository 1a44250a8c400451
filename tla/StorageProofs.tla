--------------------------- MODULE StorageProofs ----------------------------
(***************************************************************************)
(* What requests store: systems and their equipment, pools of account      *)
(* databases and the databases themselves, idempotency records, alert      *)
(* events and readings; for any number of requests, however they           *)
(* interleave, except two at a time where a section says so.  One section  *)
(* for each.                                                               *)
(***************************************************************************)
EXTENDS Services, SequenceTheorems, FiniteSetTheorems, WellFoundedInduction, TLAPS

-----------------------------------------------------------------------------
(* A created system is whole and no change undoes another, for any         *)
(* requests, systems and faults (module SystemLifecycle).                  *)

Creating == {"register", "assign", "undo", "audit"}
Outcomes == {"none", "creating", "created", "undone", "broken", "changed", "gone", "deleted"}

SystemRequest ==
  [pc : {"idle", "save", "register again"} \cup Creating, id : Systems \cup {0},
   expected : Nat, loaded : Nat, to : {"active", "archived"}]

(* The types, and which requests name a system.                            *)
FleetTyped ==
  /\ row \in [Systems -> Nat] /\ lifecycle \in [Systems -> {"active", "archived"}]
  /\ registry \subseteq Systems /\ owned \subseteq Systems
  /\ request \in [Requests -> SystemRequest]
  /\ outcome \in [Systems -> Outcomes] /\ lost \subseteq Systems /\ faults \in Nat
  /\ \A r \in Requests : request[r].pc # "idle" => request[r].id \in Systems

(* Each system is created by one request, and how far that has come tells  *)
(* what is there.                                                          *)
Creation ==
  /\ \A r, q \in Requests :
       request[r].pc \in Creating /\ request[q].pc \in Creating /\ request[r].id = request[q].id => r = q
  /\ \A r \in Requests : request[r].pc \in Creating =>
       /\ outcome[request[r].id] \in {"creating", "gone"}
       /\ request[r].pc # "register" => request[r].id \in registry
       /\ request[r].pc = "audit" <=> request[r].id \in owned
  /\ \A r \in Requests : request[r].pc # "idle" => outcome[request[r].id] # "none"
  /\ \A s \in Systems : outcome[s] = "none" => s \notin owned /\ s \notin registry

(* What each outcome says of the rows.                                     *)
OutcomesHold ==
  \A s \in Systems :
    /\ outcome[s] \in {"creating", "created"} => row[s] # 0
    /\ outcome[s] = "created" => s \in registry /\ s \in owned
    /\ outcome[s] = "undone" => row[s] = 0 /\ s \notin owned

(* A save has seen what its caller was shown or newer, and never anything  *)
(* newer than the row.                                                     *)
VersionsSeen ==
  /\ lost = {}
  /\ \A r \in Requests : request[r].pc = "save" =>
       /\ 1 <= request[r].expected /\ request[r].expected <= request[r].loaded
       /\ row[request[r].id] # 0 => request[r].loaded <= row[request[r].id]

FleetInv == FleetTyped /\ Creation /\ OutcomesHold /\ VersionsSeen

FleetConstants == 0 \notin Systems /\ MaxVersion \in Nat

(* Only request r changes.                                                 *)
OnlyRequest(r) == \A q \in Requests : q # r => request'[q] = request[q]

(* Initially nothing is there and nothing is under way. *)
LEMMA InitFleet == ASSUME FleetConstants PROVE Fleet!Init => FleetInv
  BY DEF FleetConstants, Fleet!Init, FleetInv, FleetTyped, Creation, OutcomesHold, VersionsSeen, Fleet!Idle, SystemRequest, Creating, Outcomes

(* A request that takes its next step stays with its system. *)
LEMMA RequestMoved ==
  ASSUME FleetTyped, NEW r \in Requests, NEW pc \in Creating \cup {"register again"}, Fleet!Go(r, pc)
  PROVE  /\ request' \in [Requests -> SystemRequest] /\ OnlyRequest(r)
         /\ request'[r].pc = pc /\ request'[r].id = request[r].id
  <1>1. request[r] \in SystemRequest /\ request' = [request EXCEPT ![r] = [request[r] EXCEPT !.pc = pc]]
    BY DEF FleetTyped, Fleet!Go
  <1>2. [request[r] EXCEPT !.pc = pc] \in SystemRequest
    BY <1>1 DEF SystemRequest, Creating
  <1>3. OnlyRequest(r) /\ request'[r] = [request[r] EXCEPT !.pc = pc]
    BY <1>1 DEF FleetTyped, OnlyRequest
  <1>4. request'[r].pc = pc /\ request'[r].id = request[r].id
    BY <1>1, <1>3 DEF SystemRequest
  <1> QED BY <1>1, <1>2, <1>3, <1>4 DEF FleetTyped

(* A request that ends names no system. *)
LEMMA RequestEnded ==
  ASSUME FleetTyped, NEW r \in Requests, Fleet!Done(r)
  PROVE  request' \in [Requests -> SystemRequest] /\ OnlyRequest(r) /\ request'[r].pc = "idle"
  BY DEF FleetTyped, SystemRequest, Creating, Fleet!Done, Fleet!Idle, OnlyRequest

(* Nor does a step of a change, or one that ends a request, disturb the    *)
(* creations under way.                                                    *)
LEMMA OthersCreate ==
  ASSUME FleetTyped, Creation, NEW r \in Requests, OnlyRequest(r), request'[r].pc \notin Creating,
         request'[r].pc # "idle" => outcome[request'[r].id] # "none",
         \A s \in registry' : s \in registry \/ outcome[s] # "none",
         registry \subseteq registry', UNCHANGED <<outcome, owned>>
  PROVE  Creation'
  <1>1. \A q \in Requests : request'[q].pc \in Creating => q # r /\ request'[q] = request[q]
    BY DEF OnlyRequest
  <1>2. \A q \in Requests : request'[q].pc # "idle" => outcome[request'[q].id] # "none"
    BY DEF OnlyRequest, Creation
  <1> QED BY <1>1, <1>2 DEF FleetTyped, Creation

(* The first statement of a creation is for an id that was never used. *)
LEMMA CreateKeeps ==
  ASSUME FleetInv, NEW r \in Requests, NEW s \in Systems, Fleet!Create(r, s)
  PROVE  FleetInv'
  <1> USE DEF FleetInv
  <1>1. /\ request' \in [Requests -> SystemRequest] /\ OnlyRequest(r)
        /\ request'[r].pc = "register" /\ request'[r].id = s
    BY DEF FleetTyped, Fleet!Create, Fleet!Idle, SystemRequest, Creating, OnlyRequest
  <1>2. /\ row' = [row EXCEPT ![s] = 1] /\ outcome' = [outcome EXCEPT ![s] = "creating"]
        /\ request[r].pc = "idle" /\ outcome[s] = "none"
        /\ UNCHANGED <<lifecycle, registry, owned, lost, faults>>
    BY DEF Fleet!Create
  <1>3. FleetTyped'
    BY <1>1, <1>2 DEF FleetTyped, Outcomes, OnlyRequest
  <1>4. Creation'
    BY <1>1, <1>2 DEF FleetTyped, Creation, Creating, OnlyRequest
  <1>5. OutcomesHold'
    BY <1>1, <1>2 DEF FleetTyped, OutcomesHold
  <1>6. VersionsSeen'
    BY <1>1, <1>2 DEF FleetTyped, VersionsSeen, OnlyRequest, Creation
  <1> QED BY <1>3, <1>4, <1>5, <1>6

(* Its registry entry and the role are added .. *)
LEMMA EntryKeeps ==
  ASSUME FleetInv, NEW r \in Requests, Fleet!Register(r) \/ Fleet!Assign(r)
  PROVE  FleetInv'
  <1> USE DEF FleetInv
  <1>1. /\ request' \in [Requests -> SystemRequest] /\ OnlyRequest(r)
        /\ request'[r].id = request[r].id /\ request'[r].pc \in {"assign", "audit"}
        /\ request[r].id \in Systems /\ request[r].pc \in Creating
        /\ UNCHANGED <<row, lifecycle, outcome, lost, faults>>
    BY RequestMoved DEF Fleet!Register, Fleet!Assign, FleetTyped, Creating
  <1>2. /\ Fleet!Register(r) => /\ request[r].pc = "register" /\ request'[r].pc = "assign"
                          /\ registry' = registry \cup {request[r].id} /\ owned' = owned
        /\ Fleet!Assign(r) => /\ request[r].pc = "assign" /\ request'[r].pc = "audit"
                        /\ owned' = owned \cup {request[r].id} /\ registry' = registry
    BY RequestMoved DEF Fleet!Register, Fleet!Assign, Creating
  <1>3. FleetTyped'
    BY <1>1, <1>2 DEF FleetTyped, OnlyRequest
  <1>4. Creation'
    BY <1>1, <1>2 DEF FleetTyped, Creation, Creating, OnlyRequest
  <1>5. OutcomesHold'
    BY <1>1, <1>2 DEF FleetTyped, OutcomesHold, Creation, Creating
  <1>6. VersionsSeen'
    BY <1>1 DEF FleetTyped, VersionsSeen, OnlyRequest
  <1> QED BY <1>3, <1>4, <1>5, <1>6

(* .. or the row is removed again .. *)
LEMMA UndoKeeps == ASSUME FleetInv, NEW r \in Requests, Fleet!Undo(r) PROVE FleetInv'
  <1> DEFINE s == request[r].id
  <1> USE DEF FleetInv
  <1>1. /\ request' \in [Requests -> SystemRequest] /\ OnlyRequest(r) /\ request'[r].pc = "idle"
    BY RequestEnded DEF Fleet!Undo
  <1>2. /\ s \in Systems /\ request[r].pc = "undo" /\ outcome[s] # "none" /\ s \notin owned
        /\ row' = (IF row[s] = 1 THEN [row EXCEPT ![s] = 0] ELSE row)
        /\ outcome' = [outcome EXCEPT ![s] = IF row[s] > 1 THEN "changed" ELSE "undone"]
        /\ UNCHANGED <<lifecycle, registry, owned, lost, faults>>
    BY DEF Fleet!Undo, FleetTyped, Creation, Creating
  <1>3. \A t \in Systems : t # s => row'[t] = row[t] /\ outcome'[t] = outcome[t]
    BY <1>2 DEF FleetTyped
  <1>4. row' \in [Systems -> Nat] /\ row'[s] \in {0, row[s]} /\ (row[s] <= 1 => row'[s] = 0)
    BY <1>2 DEF FleetTyped
  <1>5. outcome' \in [Systems -> Outcomes] /\ outcome'[s] = (IF row[s] > 1 THEN "changed" ELSE "undone")
    BY <1>2 DEF FleetTyped, Outcomes
  <1>6. FleetTyped'
    BY <1>1, <1>2, <1>4, <1>5 DEF FleetTyped, OnlyRequest
  <1>7. Creation'
    BY <1>1, <1>2, <1>3, <1>5 DEF FleetTyped, Creation, Creating, OnlyRequest
  <1>8. OutcomesHold'
    <2>1. row[s] \in Nat
      BY <1>2 DEF FleetTyped
    <2> QED BY <1>2, <1>3, <1>4, <1>5, <2>1 DEF OutcomesHold
  <1>9. VersionsSeen'
    BY <1>1, <1>2, <1>3, <1>4 DEF FleetTyped, VersionsSeen, OnlyRequest
  <1> QED BY <1>6, <1>7, <1>8, <1>9

(* .. and the caller is answered. *)
LEMMA AuditKeeps == ASSUME FleetInv, NEW r \in Requests, Fleet!Audit(r) PROVE FleetInv'
  <1> DEFINE s == request[r].id
  <1> USE DEF FleetInv
  <1>1. request' \in [Requests -> SystemRequest] /\ OnlyRequest(r) /\ request'[r].pc = "idle"
    BY RequestEnded DEF Fleet!Audit
  <1>2. /\ s \in Systems /\ request[r].pc = "audit" /\ s \in owned /\ s \in registry
        /\ outcome' = IF outcome[s] = "creating" THEN [outcome EXCEPT ![s] = "created"] ELSE outcome
        /\ UNCHANGED <<row, lifecycle, registry, owned, lost, faults>>
    BY DEF Fleet!Audit, FleetTyped, Creation, Creating
  <1>3. /\ outcome' \in [Systems -> Outcomes] /\ \A t \in Systems : t # s => outcome'[t] = outcome[t]
        /\ outcome'[s] = IF outcome[s] = "creating" THEN "created" ELSE outcome[s]
    BY <1>2 DEF FleetTyped, Outcomes
  <1>4. FleetTyped'
    BY <1>1, <1>2, <1>3 DEF FleetTyped, OnlyRequest
  <1>5. Creation'
    BY <1>1, <1>2, <1>3 DEF FleetTyped, Creation, Creating, OnlyRequest
  <1>6. OutcomesHold'
    BY <1>2, <1>3 DEF FleetTyped, OutcomesHold
  <1>7. VersionsSeen'
    BY <1>1, <1>2 DEF FleetTyped, VersionsSeen, OnlyRequest
  <1> QED BY <1>4, <1>5, <1>6, <1>7

(* A call that fails leaves the rows as they are. *)
LEMMA FailKeeps == ASSUME FleetInv, NEW r \in Requests, Fleet!Fail(r) PROVE FleetInv'
  <1> DEFINE s == request[r].id
  <1> USE DEF FleetInv
  <1>1. /\ s \in Systems /\ request[r].pc # "idle"
        /\ faults' = faults + 1 /\ UNCHANGED <<row, lifecycle, registry, owned, lost>>
    BY DEF Fleet!Fail, FleetTyped
  <1>2. CASE request[r].pc = "assign"
    <2>1. /\ request' \in [Requests -> SystemRequest] /\ OnlyRequest(r)
          /\ request'[r].pc = "undo" /\ request'[r].id = s /\ outcome' = outcome
      BY <1>2, RequestMoved DEF Fleet!Fail, Creating
    <2>2. FleetTyped'
      BY <1>1, <2>1 DEF FleetTyped, OnlyRequest
    <2>3. Creation'
      BY <1>1, <1>2, <2>1 DEF FleetTyped, Creation, Creating, OnlyRequest
    <2>4. OutcomesHold'
      BY <1>1, <2>1 DEF OutcomesHold
    <2>5. VersionsSeen'
      BY <1>1, <2>1 DEF FleetTyped, VersionsSeen, OnlyRequest
    <2> QED BY <2>2, <2>3, <2>4, <2>5
  <1>3. CASE request[r].pc # "assign"
    <2>1. request' \in [Requests -> SystemRequest] /\ OnlyRequest(r) /\ request'[r].pc = "idle"
      BY <1>3, RequestEnded DEF Fleet!Fail
    <2>2. /\ outcome' \in [Systems -> Outcomes] /\ \A t \in Systems : t # s => outcome'[t] = outcome[t]
          /\ \/ outcome'[s] = outcome[s]
             \/ outcome[s] = "creating" /\ outcome'[s] = "created" /\ request[r].pc = "audit"
             \/ outcome[s] = "creating" /\ outcome'[s] = "broken" /\ request[r].pc \in Creating
      BY <1>1, <1>3 DEF Fleet!Fail, FleetTyped, Outcomes, Creating
    <2>3. FleetTyped'
      BY <1>1, <2>1, <2>2 DEF FleetTyped, OnlyRequest
    <2>4. Creation'
      BY <1>1, <2>1, <2>2 DEF FleetTyped, Creation, Creating, OnlyRequest
    <2>5. OutcomesHold'
      BY <1>1, <2>2 DEF FleetTyped, OutcomesHold, Creation, Creating
    <2>6. VersionsSeen'
      BY <1>1, <2>1 DEF FleetTyped, VersionsSeen, OnlyRequest
    <2> QED BY <2>3, <2>4, <2>5, <2>6
  <1> QED BY <1>2, <1>3

(* A change is made to the row that was loaded or not at all: the version  *)
(* that was expected is not above the one loaded, the row not below it.    *)
LEMMA SaveKeeps == ASSUME FleetInv, NEW r \in Requests, Fleet!Save(r) PROVE FleetInv'
  <1> DEFINE s == request[r].id
  <1> USE DEF FleetInv
  <1>1. /\ s \in Systems /\ request[r].pc = "save" /\ row[s] \in Nat
        /\ request[r].expected \in Nat /\ request[r].loaded \in Nat /\ request[r].to \in {"active", "archived"}
        /\ UNCHANGED <<registry, owned, outcome, faults>>
    BY DEF Fleet!Save, FleetTyped, SystemRequest
  <1>2. CASE row[s] = request[r].expected
    <2>1. /\ request' \in [Requests -> SystemRequest] /\ OnlyRequest(r)
          /\ request'[r].pc = "register again" /\ request'[r].id = s
      BY <1>2, RequestMoved DEF Fleet!Save, Creating
    <2>2. row[s] # 0 /\ request[r].loaded = row[s]
      BY <1>1, <1>2 DEF VersionsSeen
    <2>3. /\ row' = [row EXCEPT ![s] = @ + 1] /\ lifecycle' = [lifecycle EXCEPT ![s] = request[r].to]
          /\ lost' = {}
      BY <1>2, <2>2 DEF Fleet!Save, VersionsSeen
    <2>4. /\ row' \in [Systems -> Nat] /\ row'[s] = row[s] + 1
          /\ \A t \in Systems : t # s => row'[t] = row[t]
          /\ lifecycle' \in [Systems -> {"active", "archived"}]
      BY <1>1, <2>3 DEF FleetTyped
    <2>5. FleetTyped'
      BY <1>1, <2>1, <2>3, <2>4 DEF FleetTyped, OnlyRequest
    <2>6. Creation'
      <3>1. outcome[s] # "none"
        BY <1>1 DEF Creation
      <3> QED BY <1>1, <2>1, <3>1, OthersCreate DEF Creating
    <2>7. OutcomesHold'
      BY <1>1, <2>2, <2>3 DEF FleetTyped, OutcomesHold
    <2>8. VersionsSeen'
      <3> SUFFICES ASSUME NEW q \in Requests, request'[q].pc = "save"
                   PROVE  /\ 1 <= request'[q].expected /\ request'[q].expected <= request'[q].loaded
                          /\ row'[request'[q].id] # 0 => request'[q].loaded <= row'[request'[q].id]
        BY <2>3 DEF VersionsSeen
      <3>1. q # r /\ request'[q] = request[q] /\ request[q].id \in Systems
        BY <2>1 DEF OnlyRequest, FleetTyped
      <3>2. request[q].loaded \in Nat
        BY DEF FleetTyped, SystemRequest
      <3> QED BY <1>1, <2>2, <2>4, <3>1, <3>2 DEF VersionsSeen
    <2> QED BY <2>5, <2>6, <2>7, <2>8
  <1>3. CASE row[s] # request[r].expected
    <2>1. /\ request' \in [Requests -> SystemRequest] /\ OnlyRequest(r) /\ request'[r].pc = "idle"
          /\ UNCHANGED <<row, lifecycle, lost>>
      BY <1>3, RequestEnded DEF Fleet!Save
    <2>2. FleetTyped' /\ OutcomesHold'
      BY <1>1, <2>1 DEF FleetTyped, OutcomesHold, OnlyRequest
    <2>3. Creation' /\ VersionsSeen'
      BY <1>1, <2>1 DEF FleetTyped, Creation, Creating, VersionsSeen, OnlyRequest
    <2> QED BY <2>2, <2>3
  <1> QED BY <1>2, <1>3

(* No version is above itself. *)
LEMMA NotAbove == \A n \in Nat : n <= n
  OBVIOUS

(* Loading, registering again and deleting. *)
LEMMA ChangeKeeps ==
  ASSUME FleetInv, FleetConstants, NEW r \in Requests
  PROVE  /\ Fleet!RegisterAgain(r) => FleetInv'
         /\ \A s \in Systems, expected \in 1 .. MaxVersion : Fleet!Delete(r, s, expected) => FleetInv'
         /\ \A s \in Systems, expected \in 1 .. MaxVersion, to \in {"as loaded", "active", "archived"} :
              Fleet!Load(r, s, expected, to) => FleetInv'
  <1>0. \A expected \in 1 .. MaxVersion : expected \in Nat /\ 1 <= expected
    BY DEF FleetConstants
  <1> USE DEF FleetInv
  <1>1. ASSUME Fleet!RegisterAgain(r) PROVE FleetInv'
    <2>1. /\ request' \in [Requests -> SystemRequest] /\ OnlyRequest(r) /\ request'[r].pc = "idle"
          /\ request[r].id \in Systems /\ registry' = registry \cup {request[r].id}
          /\ UNCHANGED <<row, lifecycle, owned, outcome, lost, faults>>
      BY <1>1, RequestEnded DEF Fleet!RegisterAgain, FleetTyped
    <2>2. FleetTyped' /\ OutcomesHold'
      BY <2>1 DEF FleetTyped, OutcomesHold, OnlyRequest
    <2>3. Creation'
      <3>1. outcome[request[r].id] # "none"
        BY <1>1 DEF Fleet!RegisterAgain, Creation
      <3> QED BY <2>1, <3>1, OthersCreate DEF Creating
    <2>4. VersionsSeen'
      BY <2>1 DEF FleetTyped, VersionsSeen, OnlyRequest
    <2> QED BY <2>2, <2>3, <2>4
  <1>2. ASSUME NEW s \in Systems, NEW expected \in 1 .. MaxVersion, Fleet!Delete(r, s, expected)
        PROVE  FleetInv'
    <2>1. CASE row[s] = expected
      <3>1. /\ row' = [row EXCEPT ![s] = 0]
            /\ outcome' = [outcome EXCEPT ![s] = IF outcome[s] = "created" THEN "deleted" ELSE "gone"]
            /\ row[s] # 0 /\ UNCHANGED <<request, lifecycle, registry, owned, lost, faults>>
        BY <1>2, <2>1 DEF Fleet!Delete, FleetTyped
      <3>2. FleetTyped' /\ VersionsSeen'
        BY <3>1 DEF FleetTyped, Outcomes, VersionsSeen
      <3>3. OutcomesHold'
        BY <3>1 DEF FleetTyped, OutcomesHold
      <3>4. Creation'
        BY <3>1 DEF FleetTyped, Creation, Creating
      <3> QED BY <3>2, <3>3, <3>4
    <2>2. CASE row[s] # expected
      BY <1>2, <2>2 DEF Fleet!Delete, FleetTyped, Creation, OutcomesHold, VersionsSeen
    <2> QED BY <2>1, <2>2
  <1>3. ASSUME NEW s \in Systems, NEW expected \in Nat, 1 <= expected,
               NEW aim \in {"as loaded", "active", "archived"}, Fleet!Load(r, s, expected, aim)
        PROVE  FleetInv'
    <2>1. /\ row[s] # 0 /\ row[s] \in Nat /\ expected <= row[s] /\ lifecycle[s] \in {"active", "archived"}
          /\ UNCHANGED <<row, lifecycle, registry, owned, outcome, lost, faults>>
      BY <1>3 DEF Fleet!Load, FleetTyped
    <2> DEFINE q == [pc |-> "save", id |-> s, expected |-> expected, loaded |-> row[s],
                     to |-> IF aim = "as loaded" THEN lifecycle[s] ELSE aim]
    <2>2. q \in SystemRequest /\ request' = [request EXCEPT ![r] = q]
      <3>1. (IF aim = "as loaded" THEN lifecycle[s] ELSE aim) \in {"active", "archived"}
        BY <1>3, <2>1
      <3> QED BY <1>3, <2>1, <3>1 DEF Fleet!Load, SystemRequest, Creating
    <2> HIDE DEF q
    <2>3. request' \in [Requests -> SystemRequest] /\ OnlyRequest(r) /\ request'[r] = q
      BY <2>2 DEF FleetTyped, OnlyRequest
    <2>4. q.pc = "save" /\ q.id = s /\ q.expected = expected /\ q.loaded = row[s]
      BY DEF q
    <2>5. FleetTyped' /\ OutcomesHold'
      BY <2>1, <2>3, <2>4 DEF FleetTyped, OutcomesHold, OnlyRequest
    <2>6. Creation'
      <3>1. outcome[s] # "none"
        BY <1>3 DEF Fleet!Load, Creation
      <3> QED BY <2>1, <2>3, <2>4, <3>1, OthersCreate DEF Creating
    <2>7. VersionsSeen'
      <3>1. 1 <= expected
        BY <1>3
      <3>2. expected <= row[s] /\ row[s] \in Nat
        BY <2>1
      <3> SUFFICES ASSUME NEW p \in Requests, request'[p].pc = "save"
                   PROVE  /\ 1 <= request'[p].expected /\ request'[p].expected <= request'[p].loaded
                          /\ row[request'[p].id] # 0 => request'[p].loaded <= row[request'[p].id]
        BY <2>1 DEF VersionsSeen
      <3>3. CASE p = r
        <4>1. request'[p].expected = expected /\ request'[p].loaded = row[s] /\ request'[p].id = s
          BY <2>3, <2>4, <3>3
        <4> QED BY <3>1, <3>2, <4>1, NotAbove
      <3>4. CASE p # r
        BY <2>3, <3>4 DEF OnlyRequest, VersionsSeen
      <3> QED BY <3>3, <3>4
    <2> QED BY <2>5, <2>6, <2>7
  <1> QED BY <1>0, <1>1, <1>2, <1>3

(* What is whole, and what was lost, is read off the invariant. *)
LEMMA FleetHolds == FleetInv => CreatedIsWhole /\ NoLostUpdate
  BY DEF FleetInv, OutcomesHold, VersionsSeen, CreatedIsWhole, NoLostUpdate, Fleet!CreatedIsWhole, Fleet!NoLostUpdate

-----------------------------------------------------------------------------

(* The types of rows and requests, and how the progress of each request    *)
(* relates to the rows, hold of every reachable state.                     *)
THEOREM FleetInvariant == ASSUME FleetConstants PROVE Fleet!Spec => []FleetInv
  <1>1. Fleet!Init => FleetInv
    BY InitFleet
  <1>2. FleetInv /\ [Fleet!Next]_Fleet!vars => FleetInv'
    <2> SUFFICES ASSUME FleetInv, [Fleet!Next]_Fleet!vars PROVE FleetInv'
      OBVIOUS
    <2>1. CASE UNCHANGED Fleet!vars
      BY <2>1 DEF Fleet!vars, FleetInv, FleetTyped, Creation, OutcomesHold, VersionsSeen
    <2>2. CASE Fleet!Next
      BY <2>2, CreateKeeps, EntryKeeps, UndoKeeps, AuditKeeps, FailKeeps, SaveKeeps, ChangeKeeps DEF Fleet!Next
    <2> QED BY <2>1, <2>2
  <1> QED BY <1>1, <1>2, PTL DEF Fleet!Spec

(* A creation that was answered left row, registry entry and role; one     *)
(* whose role assignment failed left neither row nor role.                 *)
THEOREM CreationIsWhole == ASSUME FleetConstants PROVE Fleet!Spec => []CreatedIsWhole
  BY FleetInvariant, FleetHolds, PTL

(* However changes, archiving and deletions of a system overlap, none      *)
(* writes back what another has replaced.                                  *)
THEOREM UpdatesKept == ASSUME FleetConstants PROVE Fleet!Spec => []NoLostUpdate
  BY FleetInvariant, FleetHolds, PTL

-----------------------------------------------------------------------------
(* Through one router an account has one writer, and the router refuses     *)
(* only when all its pools are in use, for any routers, accounts, tasks     *)
(* and limits (module PoolRouter).                                          *)

(* The instance counts as everybody does.                                   *)
LEMMA RouterCounts == \A S : Router!Cardinality(S) = Cardinality(S)
  BY DEF Router!Cardinality, Cardinality

RouterLimits == MaxPools \in Nat /\ IdleTimeout \in Nat

Handled == {"handle", "reading", "connect", "writing"}
Cached == [account : RoutedAccounts, pool : Nat, used : Nat]
Held == [pc : Handled \cup {"idle", "route"}, router : Routers \cup {0}, account : RoutedAccounts \cup {""},
         at : Nat, pool : Nat]

RouterTyped ==
  /\ instant \in Nat /\ made \in Nat
  /\ pools \in [Routers -> SUBSET Cached]
  /\ holder \in [Requests -> Held]

(* A router's pools are of different accounts and within its limit.         *)
PoolsHold ==
  \A r \in Routers :
    /\ IsFiniteSet(pools[r]) /\ Cardinality(pools[r]) <= MaxPools
    /\ \A c \in pools[r] : c.pool <= made
    /\ \A c, d \in pools[r] : c.account = d.account => c = d

(* A handle is of the pool that the router it came from has for the account.*)
HandlesHold ==
  \A t \in Requests :
    /\ holder[t].pc # "idle" => holder[t].router \in Routers /\ holder[t].account \in RoutedAccounts
    /\ holder[t].pc \in Handled =>
         \E c \in pools[holder[t].router] : c.account = holder[t].account /\ c.pool = holder[t].pool
    /\ holder[t].pool <= made

(* A pool's lane has one task.                                              *)
LanesHold ==
  \A t, u \in Requests :
    /\ holder[t].pc \in {"connect", "writing"} /\ holder[u].pc \in {"connect", "writing"}
    /\ holder[t].pool = holder[u].pool
    => t = u

RouterInv == RouterTyped /\ PoolsHold /\ HandlesHold /\ LanesHold /\ ~refused

-----------------------------------------------------------------------------
(* Numbers have a least one.                                                *)
LEMMA Least == ASSUME NEW T, T \subseteq Nat, T # {} PROVE \E n \in T : \A m \in T : n <= m
  <1> DEFINE Below == {ss \in Nat \X Nat : ss[1] < ss[2]}
  <1>1. OpToRel(<, Nat) = Below
    BY Zenon DEF OpToRel
  <1> HIDE DEF Below
  <1>2. IsWellFoundedOn(Below, Nat)
    BY <1>1, NatLessThanWellFounded, Zenon
  <1>3. PICK n \in T : \A m \in T : <<m, n>> \notin Below
    BY <1>2, WFMin
  <1>4. \A m \in Nat : m < n => <<m, n>> \in Below
    <2>1. n \in Nat
      OBVIOUS
    <2> QED BY <2>1 DEF Below
  <1>5. \A m \in T : ~(m < n)
    BY <1>3, <1>4
  <1> QED BY <1>5

(* There is an oldest pool to evict if there is one that nobody refers to.  *)
LEMMA OldestExists ==
  ASSUME NEW S, S \subseteq Cached, Router!Oldest(S) = {} PROVE \A c \in S : Router!Referenced(c.pool)
  <1> SUFFICES ASSUME NEW f \in S, ~Router!Referenced(f.pool) PROVE FALSE
    OBVIOUS
  <1> DEFINE free == {c \in S : ~Router!Referenced(c.pool)}
             times == {c.used : c \in free}
  <1>1. times \subseteq Nat /\ times # {}
    BY DEF Cached
  <1>2. PICK n \in times : \A m \in times : n <= m
    BY <1>1, Least
  <1>3. PICK c \in free : c.used = n
    BY <1>2
  <1>4. c \in Router!Oldest(S)
    BY <1>2, <1>3 DEF Router!Oldest
  <1> QED BY <1>4

LEMMA InitRouter == ASSUME RouterLimits PROVE Router!Init => RouterInv
  <1> SUFFICES ASSUME Router!Init PROVE RouterInv
    OBVIOUS
  <1>1. Router!Idle \in Held /\ Router!Idle.pc = "idle" /\ Router!Idle.pool = 0
    BY DEF Router!Idle, Held
  <1>2. \A r \in Routers : IsFiniteSet(pools[r]) /\ Cardinality(pools[r]) = 0 /\ pools[r] = {}
    BY FS_EmptySet DEF Router!Init
  <1>3. \A t \in Requests : holder[t] = Router!Idle
    BY DEF Router!Init
  <1>4. RouterTyped
    BY <1>1 DEF Router!Init, RouterTyped
  <1>5. PoolsHold
    BY <1>2 DEF PoolsHold, RouterLimits
  <1>6. HandlesHold /\ LanesHold
    BY <1>1, <1>3 DEF HandlesHold, LanesHold, Handled, Router!Init
  <1> QED BY <1>4, <1>5, <1>6 DEF RouterInv, Router!Init

(* Steps of the clock and of the accounts.                                  *)
LEMMA RouterOutside ==
  ASSUME RouterInv, UNCHANGED <<pools, made, holder, refused>>, instant' \in Nat PROVE RouterInv'
  BY DEF RouterInv, RouterTyped, PoolsHold, HandlesHold, LanesHold

(* A task goes on with the handle it has, or drops it.                      *)
LEMMA TaskStep ==
  ASSUME RouterInv, NEW t \in Requests,
         Router!Acquire(t) \/ Router!TakeLane(t) \/ Router!AcquireWriter(t) \/ Router!AcquireFails(t) \/ Router!Release(t) \/ Router!DropHandle(t)
  PROVE  RouterInv'
  <1>1. UNCHANGED <<instant, pools, made, refused>>
    BY DEF Router!Acquire, Router!TakeLane, Router!AcquireWriter, Router!AcquireFails, Router!Release, Router!DropHandle
  <1>2. CASE Router!DropHandle(t)
    <2>1. holder' = [holder EXCEPT ![t] = Router!Idle] /\ Router!Idle \in Held /\ Router!Idle.pc = "idle" /\ Router!Idle.pool = 0
      BY <1>2 DEF Router!DropHandle, Router!Idle, Held
    <2>2. holder'[t] = Router!Idle /\ \A u \in Requests \ {t} : holder'[u] = holder[u]
      BY <2>1 DEF RouterInv, RouterTyped
    <2>3. RouterTyped' /\ PoolsHold'
      BY <1>1, <2>1 DEF RouterInv, RouterTyped, PoolsHold
    <2>4. HandlesHold'
      BY <1>1, <2>1, <2>2 DEF RouterInv, RouterTyped, HandlesHold, Handled
    <2>5. LanesHold'
      BY <2>1, <2>2 DEF RouterInv, LanesHold
    <2> QED BY <1>1, <2>3, <2>4, <2>5 DEF RouterInv
  <1>3. ASSUME NEW pc \in Handled, holder[t].pc \in Handled, holder' = [holder EXCEPT ![t].pc = pc],
               pc \in {"connect", "writing"} => holder[t].pc = "connect" \/ Router!Lane(holder[t].pool) = {}
        PROVE  RouterInv'
    <2>1. /\ holder'[t].pc = pc /\ holder'[t].pool = holder[t].pool
          /\ holder'[t].router = holder[t].router /\ holder'[t].account = holder[t].account
          /\ \A u \in Requests \ {t} : holder'[u] = holder[u]
      BY <1>3 DEF RouterInv, RouterTyped, Held
    <2>2. RouterTyped' /\ PoolsHold'
      BY <1>1, <1>3 DEF RouterInv, RouterTyped, PoolsHold, Held
    <2>3. HandlesHold'
      BY <1>1, <1>3, <2>1 DEF RouterInv, HandlesHold, Handled
    <2>4. LanesHold'
      BY <1>3, <2>1 DEF RouterInv, LanesHold, Router!Lane
    <2> QED BY <1>1, <2>2, <2>3, <2>4 DEF RouterInv
  <1>4. CASE Router!Acquire(t) \/ Router!TakeLane(t) \/ Router!AcquireWriter(t) \/ Router!AcquireFails(t) \/ Router!Release(t)
    BY <1>3, <1>4 DEF Router!Acquire, Router!TakeLane, Router!AcquireWriter, Router!AcquireFails, Router!Release, Router!Go, Handled
  <1> QED BY <1>2, <1>4

LEMMA ResolveStep ==
  ASSUME RouterInv, NEW t \in Requests, NEW r \in Routers, NEW a \in RoutedAccounts, Router!Resolve(t, r, a) PROVE RouterInv'
  <1> DEFINE q == [Router!Idle EXCEPT !.pc = "route", !.router = r, !.account = a, !.at = instant]
  <1>1. holder' = [holder EXCEPT ![t] = q] /\ UNCHANGED <<instant, pools, made, refused>>
    BY DEF Router!Resolve
  <1>2. q \in Held /\ q.pc = "route" /\ q.pool = 0 /\ q.router = r /\ q.account = a
    BY DEF Router!Idle, Held, RouterInv, RouterTyped
  <1> HIDE DEF q
  <1>3. holder'[t] = q /\ \A u \in Requests \ {t} : holder'[u] = holder[u]
    BY <1>1 DEF RouterInv, RouterTyped
  <1>4. RouterTyped' /\ PoolsHold'
    BY <1>1, <1>2 DEF RouterInv, RouterTyped, PoolsHold
  <1>5. HandlesHold'
    BY <1>1, <1>2, <1>3 DEF RouterInv, RouterTyped, HandlesHold, Handled
  <1>6. LanesHold'
    BY <1>2, <1>3 DEF RouterInv, LanesHold
  <1> QED BY <1>1, <1>4, <1>5, <1>6 DEF RouterInv

(* A task gets a handle of a pool its router has for the account.           *)
LEMMA HandleGiven ==
  ASSUME RouterInv, NEW t \in Requests, holder[t].pc = "route", NEW pool \in Nat, pool <= made',
         NEW r \in Routers, r = holder[t].router, \A s \in Routers \ {r} : pools'[s] = pools[s],
         holder'[t].pc = "handle", holder'[t].pool = pool,
         holder'[t].router = r, holder'[t].account = holder[t].account,
         \A u \in Requests \ {t} : holder'[u] = holder[u],
         \E c \in pools'[r] : c.account = holder[t].account /\ c.pool = pool,
         \A u \in Requests, c \in pools[r] :
           holder[u].pool = c.pool => \E d \in pools'[r] : d.account = c.account /\ d.pool = c.pool,
         RouterTyped', PoolsHold', made <= made', UNCHANGED refused
  PROVE  RouterInv'
  <1>1. \A u \in Requests : holder'[u].pc # "idle" => holder'[u].router \in Routers /\ holder'[u].account \in RoutedAccounts
    BY DEF RouterInv, HandlesHold
  <1>2. \A u \in Requests : holder'[u].pool <= made'
    <2>1. made \in Nat /\ made' \in Nat
      BY DEF RouterInv, RouterTyped
    <2>2. \A u \in Requests : holder[u].pool \in Nat /\ holder[u].pool <= made
      BY DEF RouterInv, HandlesHold, RouterTyped, Held
    <2>3. \A u \in Requests : holder[u].pool <= made'
      BY <2>1, <2>2
    <2> QED BY <2>3
  <1>3. ASSUME NEW u \in Requests, holder'[u].pc \in Handled
        PROVE  \E c \in pools'[holder'[u].router] : c.account = holder'[u].account /\ c.pool = holder'[u].pool
    <2>1. CASE u = t
      BY <2>1
    <2>2. CASE u # t
      <3>1. holder'[u] = holder[u]
        BY <2>2
      <3>2. PICK c \in pools[holder[u].router] : c.account = holder[u].account /\ c.pool = holder[u].pool
        BY <1>3, <3>1 DEF RouterInv, HandlesHold
      <3>3. holder[u].router \in Routers
        BY <1>1, <1>3, <3>1 DEF Handled
      <3>4. CASE holder[u].router = r
        BY <3>1, <3>2, <3>4
      <3>5. CASE holder[u].router # r
        BY <3>1, <3>2, <3>3, <3>5
      <3> QED BY <3>4, <3>5
    <2> QED BY <2>1, <2>2
  <1>4. HandlesHold'
    BY <1>1, <1>2, <1>3 DEF HandlesHold
  <1>5. LanesHold'
    BY DEF RouterInv, LanesHold
  <1> QED BY <1>4, <1>5 DEF RouterInv

LEMMA RouteCachedStep == ASSUME RouterLimits, RouterInv, NEW t \in Requests, Router!RouteCached(t) PROVE RouterInv'
  <1>1. PICK r \in Routers : r = holder[t].router /\ holder[t].pc = "route"
    BY DEF RouterInv, HandlesHold, Router!RouteCached
  <1>2. PICK c \in pools[r] :
          /\ c.account = holder[t].account
          /\ pools' = [pools EXCEPT ![r] = (@ \ {c}) \cup {[c EXCEPT !.used = holder[t].at]}]
          /\ holder' = [holder EXCEPT ![t].pc = "handle", ![t].pool = c.pool]
    BY <1>1 DEF Router!RouteCached
  <1> DEFINE d == [c EXCEPT !.used = holder[t].at]
  <1>3. UNCHANGED <<instant, made, refused>>
    BY DEF Router!RouteCached
  <1>4. d \in Cached /\ d.account = c.account /\ d.pool = c.pool
    <2>1. c \in Cached
      BY <1>2 DEF RouterInv, RouterTyped
    <2>2. holder[t].at \in Nat
      BY DEF RouterInv, RouterTyped, Held
    <2> QED BY <2>1, <2>2 DEF Cached
  <1>5. /\ pools'[r] = (pools[r] \ {c}) \cup {d}
        /\ \A s \in Routers \ {r} : pools'[s] = pools[s]
    BY <1>2 DEF RouterInv, RouterTyped
  <1> HIDE DEF d
  <1>6. c.pool <= made /\ c.pool \in Nat
    BY <1>2 DEF RouterInv, RouterTyped, PoolsHold, Cached
  <1>7. RouterTyped'
    <2>1. pools'[r] \in SUBSET Cached
      BY <1>4, <1>5 DEF RouterInv, RouterTyped
    <2>2. pools' \in [Routers -> SUBSET Cached]
      BY <1>2, <1>5, <2>1 DEF RouterInv, RouterTyped
    <2>3. holder' \in [Requests -> Held]
      <3>1. holder' = [holder EXCEPT ![t] = [holder[t] EXCEPT !.pc = "handle", !.pool = c.pool]]
        BY <1>2 DEF RouterInv, RouterTyped
      <3>2. holder[t] \in Held
        BY DEF RouterInv, RouterTyped
      <3>3. [holder[t] EXCEPT !.pc = "handle", !.pool = c.pool] \in Held
        BY <1>6, <3>2 DEF Held, Handled
      <3> QED BY <3>1, <3>3 DEF RouterInv, RouterTyped
    <2> QED BY <1>3, <2>2, <2>3 DEF RouterInv, RouterTyped
  <1>8. IsFiniteSet(pools'[r]) /\ Cardinality(pools'[r]) <= MaxPools
    <2>1. IsFiniteSet(pools[r]) /\ Cardinality(pools[r]) <= MaxPools
      BY DEF RouterInv, PoolsHold
    <2>2. IsFiniteSet(pools[r] \ {c}) /\ Cardinality(pools[r] \ {c}) = Cardinality(pools[r]) - 1
      BY <1>2, <2>1, FS_RemoveElement
    <2>3. PICK S : S = pools[r] \ {c}
      OBVIOUS
    <2>4. /\ IsFiniteSet(S \cup {d})
          /\ Cardinality(S \cup {d}) = IF d \in S THEN Cardinality(S) ELSE Cardinality(S) + 1
      BY <2>2, <2>3, FS_AddElement
    <2>5. Cardinality(pools[r]) \in Nat
      BY <2>1, FS_CardinalityType
    <2> QED BY <1>5, <2>1, <2>2, <2>3, <2>4, <2>5 DEF RouterLimits
  <1>9. PoolsHold'
    <2>1. \A e \in pools'[r] : e.pool <= made' /\ \A f \in pools'[r] : e.account = f.account => e = f
      BY <1>2, <1>3, <1>4, <1>5, <1>6 DEF RouterInv, PoolsHold
    <2> QED BY <1>3, <1>5, <1>8, <2>1 DEF RouterInv, PoolsHold
  <1>10. \A u \in Requests, b \in pools[r] :
           holder[u].pool = b.pool => \E e \in pools'[r] : e.account = b.account /\ e.pool = b.pool
    BY <1>4, <1>5
  <1>11. \E e \in pools'[r] : e.account = holder[t].account /\ e.pool = c.pool
    BY <1>2, <1>4, <1>5
  <1>12. made <= made' /\ c.pool <= made' /\ UNCHANGED refused /\ \A s \in Routers \ {r} : pools'[s] = pools[s]
    BY <1>3, <1>5, <1>6 DEF RouterInv, RouterTyped
  <1>13. /\ holder'[t].pc = "handle" /\ holder'[t].pool = c.pool
         /\ holder'[t].router = r /\ holder'[t].account = holder[t].account
         /\ \A u \in Requests \ {t} : holder'[u] = holder[u]
    BY <1>1, <1>2 DEF RouterInv, RouterTyped, Held
  <1> QED BY <1>1, <1>6, <1>7, <1>9, <1>10, <1>11, <1>12, <1>13, HandleGiven

(* Evicting pools that nobody refers to.                                    *)
LEMMA EvictStep ==
  ASSUME RouterLimits, RouterInv, NEW r \in Routers, NEW left \in SUBSET pools[r],
         \A c \in pools[r] : Router!Referenced(c.pool) => c \in left,
         pools' = [pools EXCEPT ![r] = left], UNCHANGED <<instant, made, holder, refused>>
  PROVE  RouterInv'
  <1>1. pools'[r] = left /\ \A s \in Routers \ {r} : pools'[s] = pools[s]
    BY DEF RouterInv, RouterTyped
  <1>2. RouterTyped'
    BY DEF RouterInv, RouterTyped
  <1>3. IsFiniteSet(left) /\ Cardinality(left) <= MaxPools
    <2>1. IsFiniteSet(pools[r]) /\ Cardinality(pools[r]) <= MaxPools
      BY DEF RouterInv, PoolsHold
    <2>2. IsFiniteSet(left) /\ Cardinality(left) <= Cardinality(pools[r])
      BY <2>1, FS_Subset
    <2>3. Cardinality(left) \in Nat /\ Cardinality(pools[r]) \in Nat
      BY <2>1, <2>2, FS_CardinalityType
    <2> QED BY <2>1, <2>2, <2>3 DEF RouterLimits
  <1>4. PoolsHold'
    BY <1>1, <1>3 DEF RouterInv, PoolsHold
  <1>5. \A u \in Requests : \A c \in pools[r] : c.pool = holder[u].pool => c \in left
    BY DEF Router!Referenced
  <1>6. HandlesHold'
    BY <1>1, <1>5 DEF RouterInv, HandlesHold
  <1>7. LanesHold'
    BY DEF RouterInv, LanesHold
  <1> QED BY <1>2, <1>4, <1>6, <1>7 DEF RouterInv

LEMMA RouteNewStep == ASSUME RouterLimits, RouterInv, NEW t \in Requests, Router!RouteNew(t) PROVE RouterInv'
  <1>1. PICK r \in Routers : r = holder[t].router /\ holder[t].pc = "route" /\ holder[t].account \in RoutedAccounts
    BY DEF RouterInv, HandlesHold, Router!RouteNew
  <1>2. PICK kept \in SUBSET pools[r] : kept = Router!KeptWhenIdle(pools[r], holder[t].at)
    BY DEF Router!KeptWhenIdle
  <1>3. PICK evicted, left :
          /\ evicted \in IF Cardinality(kept) >= MaxPools /\ Router!Oldest(kept) # {} THEN {{c} : c \in Router!Oldest(kept)} ELSE {{}}
          /\ left = kept \ evicted
          /\ IF Cardinality(left) >= MaxPools
             THEN /\ pools' = [pools EXCEPT ![r] = left]
                  /\ holder' = [holder EXCEPT ![t] = Router!Idle]
                  /\ refused' = (refused \/ \E c \in left : ~Router!Referenced(c.pool))
                  /\ UNCHANGED made
             ELSE /\ made' = made + 1
                  /\ pools' = [pools EXCEPT ![r] = left \cup {[account |-> holder[t].account, pool |-> made + 1,
                                                               used |-> holder[t].at]}]
                  /\ holder' = [holder EXCEPT ![t].pc = "handle", ![t].pool = made + 1]
                  /\ UNCHANGED refused
    BY <1>1, <1>2, RouterCounts DEF Router!RouteNew
  <1>4. UNCHANGED instant /\ \A c \in pools[r] : c.account # holder[t].account
    BY <1>1 DEF Router!RouteNew
  <1>5. left \in SUBSET pools[r] /\ \A c \in pools[r] : Router!Referenced(c.pool) => c \in left
    <2>1. \A c \in pools[r] : Router!Referenced(c.pool) => c \in kept
      BY <1>2 DEF Router!KeptWhenIdle
    <2>2. \A c \in evicted : ~Router!Referenced(c.pool)
      BY <1>3 DEF Router!Oldest
    <2> QED BY <1>2, <1>3, <2>1, <2>2
  <1>6. /\ IsFiniteSet(kept) /\ Cardinality(kept) \in Nat /\ Cardinality(kept) <= MaxPools
        /\ IsFiniteSet(left) /\ Cardinality(left) \in Nat
    <2>1. IsFiniteSet(pools[r]) /\ Cardinality(pools[r]) <= MaxPools /\ Cardinality(pools[r]) \in Nat
      BY FS_CardinalityType DEF RouterInv, PoolsHold
    <2>2. IsFiniteSet(kept) /\ Cardinality(kept) <= Cardinality(pools[r]) /\ Cardinality(kept) \in Nat
      BY <1>2, <2>1, FS_Subset, FS_CardinalityType
    <2>3. IsFiniteSet(left) /\ Cardinality(left) \in Nat
      BY <1>5, <2>1, FS_Subset, FS_CardinalityType
    <2> QED BY <2>1, <2>2, <2>3 DEF RouterLimits
  <1>7. CASE Cardinality(left) >= MaxPools
    <2>1. Router!Oldest(kept) = {} /\ left = kept
      <3>1. CASE Router!Oldest(kept) = {} \/ ~(Cardinality(kept) >= MaxPools)
        BY <1>3, <1>6, <1>7, <3>1 DEF RouterLimits
      <3>2. CASE Router!Oldest(kept) # {} /\ Cardinality(kept) >= MaxPools
        <4>1. PICK c \in Router!Oldest(kept) : evicted = {c}
          BY <1>3, <3>2
        <4>2. c \in kept /\ left = kept \ {c}
          BY <1>3, <4>1 DEF Router!Oldest
        <4>3. Cardinality(left) = Cardinality(kept) - 1
          BY <1>6, <4>2, FS_RemoveElement
        <4> QED BY <1>6, <1>7, <4>3 DEF RouterLimits
      <3> QED BY <3>1, <3>2
    <2>2. \A c \in left : Router!Referenced(c.pool)
      <3>1. kept \subseteq Cached
        BY <1>2 DEF RouterInv, RouterTyped
      <3> QED BY <2>1, <3>1, OldestExists
    <2>3. /\ pools' = [pools EXCEPT ![r] = left] /\ holder' = [holder EXCEPT ![t] = Router!Idle]
          /\ UNCHANGED <<instant, made>> /\ ~refused'
      <3>1. /\ pools' = [pools EXCEPT ![r] = left] /\ holder' = [holder EXCEPT ![t] = Router!Idle] /\ made' = made
            /\ refused' = (refused \/ \E c \in left : ~Router!Referenced(c.pool))
        BY <1>3, <1>7
      <3> QED BY <1>4, <2>2, <3>1 DEF RouterInv
    <2>4. pools'[r] = left /\ \A s \in Routers \ {r} : pools'[s] = pools[s]
      BY <2>3 DEF RouterInv, RouterTyped
    <2>5. /\ Router!Idle \in Held /\ Router!Idle.pc = "idle" /\ Router!Idle.pool = 0
          /\ holder'[t] = Router!Idle /\ \A u \in Requests \ {t} : holder'[u] = holder[u]
      BY <2>3 DEF RouterInv, RouterTyped, Router!Idle, Held
    <2>6. RouterTyped'
      BY <1>5, <2>3, <2>5 DEF RouterInv, RouterTyped
    <2>7. PoolsHold'
      BY <1>2, <1>6, <2>1, <2>3, <2>4 DEF RouterInv, PoolsHold
    <2>8. \A u \in Requests : \A c \in pools[r] : c.pool = holder[u].pool => c \in left
      BY <1>5 DEF Router!Referenced
    <2>9. HandlesHold'
      BY <2>3, <2>4, <2>5, <2>8 DEF RouterInv, RouterTyped, HandlesHold, Handled
    <2>10. LanesHold'
      BY <2>5 DEF RouterInv, LanesHold
    <2> QED BY <2>3, <2>6, <2>7, <2>9, <2>10 DEF RouterInv
  <1>8. CASE ~(Cardinality(left) >= MaxPools)
    <2> DEFINE n == [account |-> holder[t].account, pool |-> made + 1, used |-> holder[t].at]
    <2>1. /\ made' = made + 1 /\ pools' = [pools EXCEPT ![r] = left \cup {n}]
          /\ holder' = [holder EXCEPT ![t].pc = "handle", ![t].pool = made + 1] /\ UNCHANGED <<instant, refused>>
      BY <1>3, <1>4, <1>8
    <2>2. made \in Nat /\ n \in Cached /\ n.account = holder[t].account /\ n.pool = made + 1
      <3>1. made \in Nat /\ holder[t].at \in Nat
        BY DEF RouterInv, RouterTyped, Held
      <3> QED BY <1>1, <3>1 DEF Cached
    <2> HIDE DEF n
    <2>3. pools'[r] = left \cup {n} /\ \A s \in Routers \ {r} : pools'[s] = pools[s]
      BY <2>1 DEF RouterInv, RouterTyped
    <2>4. RouterTyped'
      <3>1. pools'[r] \in SUBSET Cached
        BY <1>5, <2>2, <2>3 DEF RouterInv, RouterTyped
      <3>2. pools' \in [Routers -> SUBSET Cached]
        BY <2>1, <2>3, <3>1 DEF RouterInv, RouterTyped
      <3>3. holder' \in [Requests -> Held]
        <4>1. holder' = [holder EXCEPT ![t] = [holder[t] EXCEPT !.pc = "handle", !.pool = made + 1]]
          BY <2>1 DEF RouterInv, RouterTyped
        <4>2. holder[t] \in Held /\ made + 1 \in Nat
          BY <2>2 DEF RouterInv, RouterTyped
        <4>3. [holder[t] EXCEPT !.pc = "handle", !.pool = made + 1] \in Held
          BY <4>2 DEF Held, Handled
        <4> QED BY <4>1, <4>3 DEF RouterInv, RouterTyped
      <3> QED BY <2>1, <2>2, <3>2, <3>3 DEF RouterInv, RouterTyped
    <2>5. IsFiniteSet(pools'[r]) /\ Cardinality(pools'[r]) <= MaxPools
      <3>1. /\ IsFiniteSet(left \cup {n})
            /\ Cardinality(left \cup {n}) = IF n \in left THEN Cardinality(left) ELSE Cardinality(left) + 1
        BY <1>6, FS_AddElement
      <3> QED BY <1>6, <1>8, <2>3, <3>1 DEF RouterLimits
    <2>6. PoolsHold'
      <3>1. \A c \in pools[r] : c.pool \in Nat /\ c.pool <= made
        BY DEF RouterInv, RouterTyped, PoolsHold, Cached
      <3>2. \A c \in pools'[r] : c.pool <= made'
        BY <1>5, <2>1, <2>2, <2>3, <3>1
      <3>3. \A c, d \in pools'[r] : c.account = d.account => c = d
        BY <1>4, <1>5, <2>2, <2>3 DEF RouterInv, PoolsHold
      <3>4. \A s \in Routers \ {r} : \A c \in pools[s] : c.pool <= made'
        <4>1. \A s \in Routers : \A c \in pools[s] : c.pool \in Nat /\ c.pool <= made
          BY DEF RouterInv, RouterTyped, PoolsHold, Cached
        <4> QED BY <2>1, <2>2, <4>1
      <3> QED BY <2>3, <2>5, <3>2, <3>3, <3>4 DEF RouterInv, PoolsHold
    <2>7. \A u \in Requests, c \in pools[r] :
            holder[u].pool = c.pool => \E d \in pools'[r] : d.account = c.account /\ d.pool = c.pool
      BY <1>5, <2>3 DEF Router!Referenced
    <2>8. /\ holder'[t].pc = "handle" /\ holder'[t].pool = made + 1
          /\ holder'[t].router = r /\ holder'[t].account = holder[t].account
          /\ \A u \in Requests \ {t} : holder'[u] = holder[u]
      BY <1>1, <2>1 DEF RouterInv, RouterTyped, Held
    <2>9. \E c \in pools'[r] : c.account = holder[t].account /\ c.pool = made + 1
      BY <2>2, <2>3
    <2>10. made + 1 \in Nat /\ made + 1 <= made' /\ made <= made' /\ UNCHANGED refused
      BY <2>1, <2>2
    <2>11. \A s \in Routers \ {r} : pools'[s] = pools[s]
      BY <2>3
    <2> QED BY <1>1, <2>4, <2>6, <2>7, <2>8, <2>9, <2>10, <2>11, HandleGiven
  <1> QED BY <1>7, <1>8

LEMMA RouterStep == ASSUME RouterLimits, RouterInv, [Router!Next]_Router!vars PROVE RouterInv'
  <1>1. instant \in Nat
    BY DEF RouterInv, RouterTyped
  <1>2. CASE UNCHANGED Router!vars \/ Router!Tick \/ \E a \in RoutedAccounts : Router!SetLifecycle(a)
    BY <1>1, <1>2, RouterOutside DEF Router!vars, Router!Tick, Router!SetLifecycle
  <1>3. CASE \E r \in Routers : Router!EvictIdle(r)
    <2>1. PICK r \in Routers : Router!EvictIdle(r)
      BY <1>3
    <2>2. PICK left \in SUBSET pools[r] : left = Router!KeptWhenIdle(pools[r], instant)
      BY DEF Router!KeptWhenIdle
    <2>3. \A c \in pools[r] : Router!Referenced(c.pool) => c \in left
      BY <2>2 DEF Router!KeptWhenIdle
    <2>4. pools' = [pools EXCEPT ![r] = left] /\ UNCHANGED <<instant, made, holder, refused>>
      BY <2>1, <2>2 DEF Router!EvictIdle
    <2> QED BY <2>3, <2>4, EvictStep
  <1>4. CASE \E t \in Requests : (\E r \in Routers, a \in RoutedAccounts : Router!Resolve(t, r, a)) \/ Router!RouteCached(t) \/ Router!RouteNew(t)
    BY <1>4, ResolveStep, RouteCachedStep, RouteNewStep
  <1>5. CASE \E t \in Requests : Router!Acquire(t) \/ Router!TakeLane(t) \/ Router!AcquireWriter(t) \/ Router!AcquireFails(t) \/ Router!Release(t) \/ Router!DropHandle(t)
    BY <1>5, TaskStep
  <1> QED BY <1>2, <1>3, <1>4, <1>5 DEF Router!Next

LEMMA RoutersImply == RouterInv => OneWriter
  <1> SUFFICES ASSUME RouterInv PROVE OneWriter
    OBVIOUS
  <1>1. ASSUME NEW r \in Routers, NEW a \in RoutedAccounts PROVE Cardinality(Router!Writers(r, a)) <= 1
    <2>1. ASSUME NEW t \in Router!Writers(r, a), NEW u \in Router!Writers(r, a) PROVE t = u
      <3>1. PICK c \in pools[r] : c.account = a /\ c.pool = holder[t].pool
        BY DEF Router!Writers, RouterInv, HandlesHold, Handled
      <3>2. PICK d \in pools[r] : d.account = a /\ d.pool = holder[u].pool
        BY DEF Router!Writers, RouterInv, HandlesHold, Handled
      <3>3. c = d
        BY <3>1, <3>2 DEF RouterInv, PoolsHold
      <3> QED BY <3>1, <3>2, <3>3 DEF Router!Writers, RouterInv, LanesHold
    <2>2. CASE Router!Writers(r, a) = {}
      BY <2>2, FS_EmptySet
    <2>3. CASE Router!Writers(r, a) # {}
      <3>1. PICK t \in Router!Writers(r, a) : Router!Writers(r, a) = {t}
        BY <2>1, <2>3
      <3>2. Cardinality({t}) = 1
        BY FS_Singleton
      <3> QED BY <3>1, <3>2
    <2> QED BY <2>2, <2>3
  <1> QED BY <1>1, RouterCounts DEF OneWriter, Router!OneWriter, RouterInv, PoolsHold

-----------------------------------------------------------------------------
(* A handle stays with the pool its router has for the account, for any     *)
(* limits: a pool somebody refers to is never evicted.                      *)
THEOREM RouterInvariant == ASSUME RouterLimits PROVE Router!Spec => []RouterInv
  <1>1. Router!Init => RouterInv
    BY InitRouter
  <1>2. RouterInv /\ [Router!Next]_Router!vars => RouterInv'
    BY RouterStep
  <1> QED BY <1>1, <1>2, PTL DEF Router!Spec

(* Through one router an account has at most one writer, the router keeps   *)
(* no more pools than its limit, and it refuses only when all are in use.   *)
THEOREM WritersExclude == ASSUME RouterLimits PROVE Router!Spec => []OneWriter
  <1>1. RouterInv => OneWriter
    BY RoutersImply
  <1> QED BY <1>1, RouterInvariant, PTL

-----------------------------------------------------------------------------
(* The first response under a key stands (module IdempotencyRecords).       *)
RecordRow == [client : Requests, hash : Hashes, expires : Nat]
StoreCall == {Records!Idle} \cup [pc : {"expire", "lookup", "insert", "again"}, hash : Hashes, at : Nat]

(* A call uses the time it was made at, which is past.                      *)
RecordsInv ==
  /\ now \in Nat
  /\ record = Records!None \/ record \in RecordRow
  /\ caller \in [Requests -> StoreCall]
  /\ \A c \in Requests : caller[c].pc # "idle" => caller[c].at <= now

LEMMA InitRecords == Records!Init => RecordsInv
BY DEF Records!Init, RecordsInv, StoreCall, Records!Idle

LEMMA AtWorkTyped ==
  ASSUME RecordsInv, NEW c \in Requests, caller[c].pc # "idle"
  PROVE  /\ caller[c] \in [pc : {"expire", "lookup", "insert", "again"}, hash : Hashes, at : Nat]
         /\ caller[c].at <= now
BY DEF RecordsInv, StoreCall, Records!Idle

LEMMA StoreCallEnds ==
  ASSUME RecordsInv, NEW c \in Requests, caller' = [caller EXCEPT ![c] = Records!Idle], UNCHANGED now,
         record' = Records!None \/ record' \in RecordRow
  PROVE  RecordsInv'
BY DEF RecordsInv, StoreCall, Records!Idle

LEMMA StoreCallGoesOn ==
  ASSUME RecordsInv, NEW c \in Requests, caller[c].pc # "idle", NEW pc \in {"lookup", "insert", "again"},
         caller' = [caller EXCEPT ![c].pc = pc], UNCHANGED now,
         record' = Records!None \/ record' \in RecordRow
  PROVE  RecordsInv'
<1> DEFINE q == [caller[c] EXCEPT !.pc = pc]
<1>1. q \in [pc : {"expire", "lookup", "insert", "again"}, hash : Hashes, at : Nat] /\ q.at <= now
  BY AtWorkTyped
<1>2. caller' = [caller EXCEPT ![c] = q]
  OBVIOUS
<1> HIDE DEF q
<1> QED BY <1>1, <1>2 DEF RecordsInv, StoreCall

LEMMA StoreRecord ==
  ASSUME RecordLifetime \in Nat, RecordsInv, NEW c \in Requests, caller[c].pc # "idle", Records!Store(c), UNCHANGED now
  PROVE  RecordsInv'
<1>1. record' \in RecordRow /\ caller' = [caller EXCEPT ![c] = Records!Idle]
  BY AtWorkTyped DEF Records!Store, Records!Mine, Records!Reply, RecordRow
<1> QED BY <1>1, StoreCallEnds

LEMMA RecordStays == ASSUME RecordsInv, record' = record \/ record' = Records!None PROVE record' = Records!None \/ record' \in RecordRow
BY DEF RecordsInv

LEMMA AfterExpiryIs == ASSUME NEW c PROVE Records!AfterExpiry(c) \in {record, Records!None}
BY DEF Records!AfterExpiry

LEMMA StepRecords == ASSUME RecordLifetime \in Nat, RecordsInv, [Records!Next]_Records!vars PROVE RecordsInv'
<1>1. CASE UNCHANGED Records!vars
  BY <1>1 DEF Records!vars, RecordsInv
<1>2. CASE Records!Tick
  BY <1>2 DEF Records!Tick, RecordsInv, StoreCall, Records!Idle
<1>3. ASSUME NEW c \in Requests, NEW h \in Hashes, Records!Call(c, h) PROVE RecordsInv'
  <2> DEFINE q == [pc |-> "expire", hash |-> h, at |-> now]
  <2>1. q \in StoreCall /\ q.at <= now
    BY DEF StoreCall, RecordsInv
  <2>2. caller' = [caller EXCEPT ![c] = q] /\ UNCHANGED <<now, record>>
    BY <1>3 DEF Records!Call
  <2> HIDE DEF q
  <2> QED BY <2>1, <2>2 DEF RecordsInv
<1>4. ASSUME NEW c \in Requests, Records!StoreSqlite(c) PROVE RecordsInv'
  <2>1. caller[c].pc = "expire" /\ UNCHANGED now
    BY <1>4 DEF Records!StoreSqlite
  <2>2. CASE Records!AfterExpiry(c) = Records!None
    BY <1>4, <2>1, <2>2, StoreRecord DEF Records!StoreSqlite
  <2>3. CASE Records!AfterExpiry(c) # Records!None
    <3>1. record' = Records!AfterExpiry(c) /\ caller' = [caller EXCEPT ![c] = Records!Idle]
      BY <1>4, <2>3 DEF Records!StoreSqlite, Records!Reply
    <3> QED BY <2>1, <3>1, AfterExpiryIs, RecordStays, StoreCallEnds
  <2> QED BY <2>2, <2>3
<1>5. ASSUME NEW c \in Requests, Records!Expire(c) PROVE RecordsInv'
  <2>1. /\ caller[c].pc = "expire" /\ record' = Records!AfterExpiry(c) /\ UNCHANGED now
        /\ caller' = [caller EXCEPT ![c].pc = "lookup"]
    BY <1>5 DEF Records!Expire
  <2> QED BY <2>1, AfterExpiryIs, RecordStays, StoreCallGoesOn
<1>6. ASSUME NEW c \in Requests, Records!LookUp(c) PROVE RecordsInv'
  <2>1. caller[c].pc = "lookup" /\ UNCHANGED <<now, record>>
    BY <1>6 DEF Records!LookUp
  <2>2. \/ caller' = [caller EXCEPT ![c].pc = "insert"] \/ caller' = [caller EXCEPT ![c] = Records!Idle]
    BY <1>6 DEF Records!LookUp, Records!Reply
  <2> QED BY <2>1, <2>2, RecordStays, StoreCallEnds, StoreCallGoesOn
<1>7. ASSUME NEW c \in Requests, Records!Insert(c) PROVE RecordsInv'
  <2>1. caller[c].pc = "insert" /\ UNCHANGED now
    BY <1>7 DEF Records!Insert
  <2>2. CASE Records!Store(c)
    BY <2>1, <2>2, StoreRecord
  <2>3. CASE caller' = [caller EXCEPT ![c].pc = "again"] /\ record' = record
    BY <2>1, <2>3, RecordStays, StoreCallGoesOn
  <2> QED BY <1>7, <2>2, <2>3 DEF Records!Insert
<1>8. ASSUME NEW c \in Requests, Records!LookAgain(c) PROVE RecordsInv'
  BY <1>8, RecordStays, StoreCallEnds DEF Records!LookAgain, Records!Reply
<1> QED BY <1>1, <1>2, <1>3, <1>4, <1>5, <1>6, <1>7, <1>8 DEF Records!Next

(* Only to store is a record replaced, by none or over one that expired.    *)
LEMMA OnlyExpiredReplaced ==
  ASSUME RecordsInv, [Records!Next]_Records!vars, record' \notin {record, Records!None}
  PROVE  record = Records!None \/ record.expires <= now
<1>1. PICK c \in Requests : Records!StoreSqlite(c) \/ Records!Expire(c) \/ Records!LookUp(c) \/ Records!Insert(c) \/ Records!LookAgain(c)
  BY DEF Records!Next, Records!vars, Records!Tick, Records!Call
<1>2. CASE Records!StoreSqlite(c)
  <2>1. caller[c].pc = "expire" /\ Records!AfterExpiry(c) = Records!None
    BY <1>2, AfterExpiryIs DEF Records!StoreSqlite
  <2>2. caller[c].at \in Nat /\ caller[c].at <= now /\ now \in Nat
    BY <2>1, AtWorkTyped DEF RecordsInv
  <2>3. record = Records!None \/ (record.expires \in Nat /\ record.expires <= caller[c].at)
    BY <2>1 DEF Records!AfterExpiry, RecordsInv, RecordRow
  <2> QED BY <2>2, <2>3
<1>3. CASE Records!Expire(c)
  BY <1>3, AfterExpiryIs DEF Records!Expire
<1>4. CASE Records!Insert(c)
  BY <1>4 DEF Records!Insert
<1> QED BY <1>1, <1>2, <1>3, <1>4 DEF Records!LookUp, Records!LookAgain

(* Records are whole, and calls use a time that is past (store_idempotency).*)
THEOREM RecordsInvariant == ASSUME RecordLifetime \in Nat PROVE Records!Spec => []RecordsInv
<1>1. Records!Init => RecordsInv
  BY InitRecords
<1>2. RecordsInv /\ [Records!Next]_Records!vars => RecordsInv'
  BY StepRecords
<1> QED BY <1>1, <1>2, PTL DEF Records!Spec

(* The first response under a key stays while it lives, for any number of   *)
(* calls and both backends (store_idempotency).                             *)
THEOREM FirstResponseKept == ASSUME RecordLifetime \in Nat PROVE Records!Spec => FirstResponseStands
<1>1. RecordsInv /\ [Records!Next]_Records!vars
      => [record' \notin {record, Records!None} => record = Records!None \/ record.expires <= now]_Records!vars
  BY OnlyExpiredReplaced
<1> QED BY <1>1, RecordsInvariant, PTL DEF FirstResponseStands, Records!FirstResponseStands, Records!Spec

-----------------------------------------------------------------------------
(* One open event for each rule (module Alerts).                            *)

(* The instance counts as everybody does.                                   *)
LEMMA RuleCounts == \A S : Rule!Cardinality(S) = Cardinality(S)
BY DEF Rule!Cardinality, Cardinality

AlertRow == [id : Nat, at : Nat]
AlertState == [pending : Nat, open : Nat, resolved : Nat]
Evaluation == [pc : {"idle", "read", "commit"}, at : Nat, read : AlertState, fresh : BOOLEAN]
EventCount == Cardinality(opened)

(* An evaluation at work took a time, and what it read is still so unless   *)
(* another has committed since.                                             *)
AlertsTyped ==
  /\ today \in Nat \ {0} /\ state \in AlertState /\ clearAt \in Nat
  /\ IsFiniteSet(opened) /\ opened \subseteq AlertRow /\ resolved \subseteq AlertRow
  /\ evaluation \in [Requests -> Evaluation]
  /\ \A e \in Requests : evaluation[e].pc # "idle" => evaluation[e].at # 0
  /\ \A e \in Requests : evaluation[e].pc = "commit" /\ evaluation[e].fresh => evaluation[e].read = state

(* Events are numbered as they open; the last one is the one that is open.  *)
EventsNumbered ==
  /\ \A o \in opened : o.id <= EventCount /\ o.id # 0
  /\ \A o, p \in opened : o.id = p.id => o = p
  /\ \A r \in resolved : r.id \in Rule!Ids(opened)
  /\ state.open \in {0, EventCount}

(* The state remembers when the last one recovered; and what is pending     *)
(* began after its cooldown and after the condition was clear.              *)
LastRemembered ==
  /\ \A r \in resolved : r.id = EventCount => state.resolved = r.at /\ r.at # 0
  /\ state.pending # 0 =>
       /\ Debounce > 0 /\ state.open = 0 /\ state.pending >= clearAt
       /\ Cooldown > 0 => \A r \in resolved : r.id = EventCount => state.pending >= r.at + Cooldown

EventsHold ==
  /\ Rule!Ids(opened) \ Rule!Ids(resolved) = {state.open} \ {0}
  /\ \A r, s \in resolved : r.id = s.id => r = s
  /\ Cooldown > 0 => \A o \in opened, r \in resolved : o.id = r.id + 1 => o.at >= r.at + Cooldown + Debounce
  /\ state.open # 0 => \A o \in opened : o.id = state.open => o.at >= clearAt + Debounce

AlertsHold == AlertsTyped /\ EventsNumbered /\ LastRemembered /\ EventsHold
AlertsInv == overtaken \in BOOLEAN /\ (overtaken \/ AlertsHold)

AlertConstants == Debounce \in Nat /\ Cooldown \in Nat

LEMMA InitAlerts == AlertConstants /\ Rule!Init => AlertsInv
<1> SUFFICES ASSUME AlertConstants, Rule!Init PROVE AlertsInv
  OBVIOUS
<1>1. state = [pending |-> 0, open |-> 0, resolved |-> 0] /\ opened = {} /\ resolved = {} /\ today = 1 /\ clearAt = 0 /\ ~overtaken
      /\ overtaken \in BOOLEAN
  BY DEF Rule!Init, Rule!NewState, Rule!None
<1>2. IsFiniteSet(opened) /\ EventCount = 0
  BY <1>1, FS_EmptySet DEF EventCount
<1>3. evaluation = [e \in Requests |-> Rule!Idle] /\ Rule!Idle \in Evaluation /\ Rule!Idle.pc = "idle"
  BY DEF Rule!Init, Rule!Idle, Rule!NewState, Rule!None, Evaluation, AlertState
<1>4. AlertsTyped
  BY <1>1, <1>2, <1>3 DEF AlertsTyped, AlertState
<1>5. EventsNumbered /\ LastRemembered /\ EventsHold
  BY <1>1, <1>2 DEF EventsNumbered, LastRemembered, EventsHold, Rule!Ids
<1> QED BY <1>1, <1>4, <1>5 DEF AlertsInv, AlertsHold

(* An evaluation goes on, and nothing is committed.                         *)
LEMMA EvaluationGoesOn ==
  ASSUME AlertsHold, NEW e \in Requests, NEW q \in Evaluation, evaluation' = [evaluation EXCEPT ![e] = q],
         UNCHANGED <<today, state, opened, resolved, clearAt>>,
         q.pc # "idle" => q.at # 0, q.pc = "commit" => q.read = state
  PROVE  AlertsHold'
<1>1. AlertsTyped'
  <2>1. evaluation' \in [Requests -> Evaluation]
    BY DEF AlertsHold, AlertsTyped
  <2>2. \A d \in Requests : evaluation'[d] = IF d = e THEN q ELSE evaluation[d]
    BY DEF AlertsHold, AlertsTyped
  <2> QED BY <2>1, <2>2 DEF AlertsHold, AlertsTyped
<1>2. EventsNumbered' /\ LastRemembered' /\ EventsHold'
  BY DEF AlertsHold, EventsNumbered, LastRemembered, EventsHold, EventCount, Rule!Ids
<1> QED BY <1>1, <1>2 DEF AlertsHold

LEMMA BeginStep == ASSUME AlertsHold, NEW e \in Requests, Rule!Begin(e) PROVE AlertsHold'
<1> DEFINE q == [Rule!Idle EXCEPT !.pc = "read", !.at = today]
<1>1. evaluation' = [evaluation EXCEPT ![e] = q] /\ UNCHANGED <<today, state, opened, resolved, clearAt>>
  BY DEF Rule!Begin
<1>2. today \in Nat \ {0}
  BY DEF AlertsHold, AlertsTyped
<1>3. q \in Evaluation /\ q.pc = "read" /\ q.at = today
  BY <1>2 DEF Rule!Idle, Rule!NewState, Rule!None, Evaluation, AlertState
<1> HIDE DEF q
<1> QED BY <1>1, <1>2, <1>3, EvaluationGoesOn

LEMMA ReadStep == ASSUME AlertsHold, NEW e \in Requests, Rule!Read(e) PROVE AlertsHold'
<1> DEFINE q == [evaluation[e] EXCEPT !.pc = "commit", !.read = state, !.fresh = TRUE]
<1>1. /\ evaluation[e].pc = "read" /\ UNCHANGED <<today, state, opened, resolved, clearAt>>
      /\ evaluation' = [evaluation EXCEPT ![e] = q]
  BY DEF Rule!Read
<1>2. evaluation[e] \in Evaluation /\ evaluation[e].at # 0 /\ state \in AlertState
  BY <1>1 DEF AlertsHold, AlertsTyped
<1> DEFINE p == [evaluation[e] EXCEPT !.pc = "commit", !.read = state]
<1>3. p \in Evaluation /\ p.pc = "commit" /\ p.at = evaluation[e].at /\ p.read = state
  BY <1>2 DEF Evaluation
<1>4. q = [p EXCEPT !.fresh = TRUE]
  OBVIOUS
<1> HIDE DEF p, q
<1>5. q \in Evaluation /\ q.pc = "commit" /\ q.at # 0 /\ q.read = state
  BY <1>2, <1>3, <1>4 DEF Evaluation
<1> QED BY <1>1, <1>5, EvaluationGoesOn

LEMMA LoseStep == ASSUME AlertsHold, NEW e \in Requests, Rule!Lose(e) PROVE AlertsHold'
<1> DEFINE q == Rule!Idle
<1>1. evaluation' = [evaluation EXCEPT ![e] = q] /\ UNCHANGED <<today, state, opened, resolved, clearAt>>
  BY DEF Rule!Lose
<1>2. q \in Evaluation /\ q.pc = "idle"
  BY DEF Rule!Idle, Rule!NewState, Rule!None, Evaluation, AlertState
<1> HIDE DEF q
<1> QED BY <1>1, <1>2, EvaluationGoesOn

LEMMA TickStep == ASSUME AlertsHold, Rule!Tick PROVE AlertsHold'
<1>1. AlertsTyped'
  BY DEF AlertsHold, AlertsTyped, Rule!Tick
<1>2. EventsNumbered' /\ LastRemembered' /\ EventsHold'
  BY DEF AlertsHold, EventsNumbered, LastRemembered, EventsHold, EventCount, Rule!Ids, Rule!Tick
<1> QED BY <1>1, <1>2 DEF AlertsHold

(* Once it has committed, an evaluation is over, and those that read what   *)
(* is no longer so are not fresh.                                           *)
LEMMA CommittedTyped ==
  ASSUME AlertsHold, NEW e \in Requests, NEW new \in AlertState, state' = new, UNCHANGED today, clearAt' \in Nat,
         evaluation' = [d \in Requests |-> IF d = e THEN Rule!Idle ELSE [evaluation[d] EXCEPT !.fresh = @ /\ new = state]],
         IsFiniteSet(opened'), opened' \subseteq AlertRow, resolved' \subseteq AlertRow
  PROVE  AlertsTyped'
<1>1. Rule!Idle \in Evaluation /\ Rule!Idle.pc = "idle"
  BY DEF Rule!Idle, Rule!NewState, Rule!None, Evaluation, AlertState
<1>2. ASSUME NEW d \in Requests, d # e
      PROVE  /\ evaluation'[d] \in Evaluation /\ evaluation'[d].pc = evaluation[d].pc /\ evaluation'[d].at = evaluation[d].at
             /\ evaluation'[d].read = evaluation[d].read
             /\ evaluation'[d].fresh => evaluation[d].fresh /\ new = state
  <2>1. evaluation[d] \in Evaluation
    BY DEF AlertsHold, AlertsTyped
  <2>2. evaluation'[d] = [evaluation[d] EXCEPT !.fresh = evaluation[d].fresh /\ new = state]
    BY <1>2
  <2>3. CASE evaluation[d].fresh /\ new = state
    <3>1. evaluation'[d] = [evaluation[d] EXCEPT !.fresh = TRUE]
      BY <2>2, <2>3, Zenon
    <3> QED BY <2>1, <2>3, <3>1, ZenonT(40) DEF Evaluation
  <2>4. CASE ~(evaluation[d].fresh /\ new = state)
    <3>1. evaluation'[d] = [evaluation[d] EXCEPT !.fresh = FALSE]
      BY <2>2, <2>4, Zenon
    <3> QED BY <2>1, <2>4, <3>1, ZenonT(40) DEF Evaluation
  <2> QED BY <2>3, <2>4
<1>3. evaluation'[e] = Rule!Idle
  OBVIOUS
<1>4. evaluation' = [d \in Requests |-> evaluation'[d]] /\ \A d \in Requests : evaluation'[d] \in Evaluation
  BY <1>1, <1>2, <1>3
<1>5. \A d \in Requests : evaluation'[d].pc # "idle" => evaluation'[d].at # 0
  BY <1>1, <1>2, <1>3 DEF AlertsHold, AlertsTyped
<1>6. ASSUME NEW d \in Requests, evaluation'[d].pc = "commit", evaluation'[d].fresh PROVE evaluation'[d].read = state'
  <2>1. d # e
    BY <1>1, <1>3, <1>6
  <2>2. evaluation[d].pc = "commit" /\ evaluation[d].fresh /\ new = state /\ evaluation'[d].read = evaluation[d].read
    BY <1>2, <1>6, <2>1
  <2> QED BY <2>2 DEF AlertsHold, AlertsTyped
<1>7. today' \in Nat \ {0}
  BY DEF AlertsHold, AlertsTyped
<1> QED BY <1>4, <1>5, <1>6, <1>7 DEF AlertsTyped

-----------------------------------------------------------------------------
(* What a fresh evaluation commits.                                         *)

(* It leaves the state alone: nothing was triggered or clear, or it is held *)
(* off.                                                                     *)
LEMMA CommitNothing ==
  ASSUME AlertConstants, AlertsHold, UNCHANGED <<state, opened, resolved>>, clearAt' \in {0, clearAt}
  PROVE  EventsNumbered' /\ LastRemembered' /\ EventsHold'
<1>1. clearAt \in Nat /\ clearAt' \in Nat /\ clearAt' <= clearAt /\ state \in AlertState
  BY DEF AlertsHold, AlertsTyped
<1>2. EventsNumbered'
  BY DEF AlertsHold, EventsNumbered, EventCount, Rule!Ids
<1>3. LastRemembered'
  <2>1. EventCount' = EventCount
    BY DEF EventCount
  <2>2. state.pending # 0 => state.pending >= clearAt'
    BY <1>1 DEF AlertsHold, LastRemembered, AlertState
  <2> QED BY <2>1, <2>2 DEF AlertsHold, LastRemembered
<1>4. EventsHold'
  <2>1. ASSUME state.open # 0, NEW o \in opened, o.id = state.open PROVE o.at >= clearAt' + Debounce
    <3>1. o.at >= clearAt + Debounce /\ o.at \in Nat
      BY <2>1 DEF AlertsHold, AlertsTyped, EventsHold, AlertRow
    <3> QED BY <1>1, <2>1, <3>1 DEF AlertConstants
  <2> QED BY <2>1 DEF AlertsHold, EventsHold, Rule!Ids
<1> QED BY <1>2, <1>3, <1>4

(* Clear: nothing is pending, and the event that was open has recovered.    *)
LEMMA CommitClear ==
  ASSUME AlertConstants, AlertsHold, NEW at \in Nat, at # 0, state' = Rule!Recovered(state, at), UNCHANGED opened,
         resolved' = IF state.open # 0 THEN resolved \cup {[id |-> state.open, at |-> at]} ELSE resolved,
         clearAt' = at
  PROVE  state' \in AlertState /\ resolved' \subseteq AlertRow /\ EventsNumbered' /\ LastRemembered' /\ EventsHold'
<1>1. state \in AlertState /\ opened \subseteq AlertRow /\ resolved \subseteq AlertRow /\ EventCount' = EventCount
  BY DEF AlertsHold, AlertsTyped, EventCount
<1>2. state' \in AlertState /\ state'.pending = 0 /\ state'.open = 0 /\ state'.resolved = IF state.open = 0 THEN state.resolved ELSE at
  BY <1>1 DEF Rule!Recovered, Rule!None, AlertState
<1>3. CASE state.open = 0
  <2>1. resolved' = resolved /\ state'.resolved = state.resolved
    BY <1>2, <1>3
  <2>2. EventsNumbered' /\ LastRemembered'
    BY <1>1, <1>2, <1>3, <2>1 DEF AlertsHold, EventsNumbered, LastRemembered, Rule!Ids
  <2>3. EventsHold'
    BY <1>1, <1>2, <1>3, <2>1 DEF AlertsHold, EventsHold, Rule!Ids
  <2> QED BY <1>1, <1>2, <2>1, <2>2, <2>3
<1>4. CASE state.open # 0
  <2> DEFINE new == [id |-> state.open, at |-> at]
  <2>1. resolved' = resolved \cup {new} /\ new \in AlertRow /\ new.id = state.open /\ new.at = at
    BY <1>1, <1>4 DEF AlertRow, AlertState
  <2> HIDE DEF new
  <2>2. state.open = EventCount /\ state.open \in Rule!Ids(opened) /\ state.open \notin Rule!Ids(resolved) /\ state'.resolved = at
    BY <1>2, <1>4 DEF AlertsHold, EventsNumbered, EventsHold
  <2>3. \A r \in resolved : r.id # state.open
    BY <2>2 DEF Rule!Ids
  <2>4. EventsNumbered'
    <3>1. \A o, q \in opened : o.id = q.id => o = q
      BY DEF AlertsHold, EventsNumbered
    <3>2. \A o \in opened : o.id <= EventCount' /\ o.id # 0
      BY <1>1 DEF AlertsHold, EventsNumbered
    <3>3. \A r \in resolved' : r.id \in Rule!Ids(opened)
      BY <2>1, <2>2 DEF AlertsHold, EventsNumbered
    <3>4. state'.open \in {0, EventCount'}
      BY <1>2
    <3>5. Rule!Ids(opened)' = Rule!Ids(opened)
      BY DEF Rule!Ids
    <3> QED BY <3>1, <3>2, <3>3, <3>4, <3>5 DEF EventsNumbered
  <2>5. LastRemembered'
    BY <1>1, <1>2, <2>1, <2>2, <2>3 DEF LastRemembered
  <2>6. EventsHold'
    <3>1. Rule!Ids(resolved)' = Rule!Ids(resolved) \cup {state.open} /\ Rule!Ids(opened)' = Rule!Ids(opened)
      BY <2>1 DEF Rule!Ids
    <3>2. Rule!Ids(opened)' \ Rule!Ids(resolved)' = {state'.open} \ {0}
      BY <1>2, <1>4, <3>1 DEF AlertsHold, EventsHold
    <3>3. \A r, s \in resolved' : r.id = s.id => r = s
      BY <2>1, <2>3 DEF AlertsHold, EventsHold
    <3>4. \A o \in opened : o.id # new.id + 1
      <4>1. \A o \in opened : o.id \in Nat /\ o.id <= EventCount
        BY <1>1 DEF AlertsHold, EventsNumbered, AlertRow
      <4> QED BY <1>1, <2>1, <2>2, <4>1 DEF AlertState
    <3>5. Cooldown > 0 => \A o \in opened, r \in resolved' : o.id = r.id + 1 => o.at >= r.at + Cooldown + Debounce
      BY <2>1, <3>4 DEF AlertsHold, EventsHold
    <3> QED BY <1>2, <3>2, <3>3, <3>5 DEF EventsHold
  <2> QED BY <1>1, <1>2, <2>1, <2>4, <2>5, <2>6
<1> QED BY <1>3, <1>4

(* What is triggered and not held off began after the condition was clear   *)
(* and after the cooldown, and opens after the debounce.                    *)
LEMMA SinceIs ==
  ASSUME AlertConstants, AlertsHold, NEW at \in Nat, at # 0, ~Rule!HeldOff(state, at),
         NEW cleared, cleared = IF at < clearAt THEN 0 ELSE clearAt, NEW since, since = Rule!Since(state, at)
  PROVE  /\ since \in Nat /\ since # 0 /\ since >= cleared /\ state.open = 0
         /\ Cooldown > 0 => \A r \in resolved : r.id = EventCount => since >= r.at + Cooldown
         /\ ~(Rule!Elapsed(since, at) < Debounce) => at >= since + Debounce
         /\ Rule!Elapsed(since, at) < Debounce => Debounce > 0
<1>1. /\ state.pending \in Nat /\ state.resolved \in Nat /\ clearAt \in Nat /\ Debounce \in Nat /\ Cooldown \in Nat
      /\ \A r \in resolved : r.at \in Nat
  BY DEF AlertsHold, AlertsTyped, AlertState, AlertRow, AlertConstants
<1>2. since = IF state.pending = 0 THEN at ELSE state.pending
  BY DEF Rule!Since, Rule!None
<1>3. state.open = 0 /\ (state.resolved # 0 => ~(Rule!Elapsed(state.resolved, at) < Cooldown))
  BY DEF Rule!HeldOff, Rule!None
<1>4. ASSUME Cooldown > 0, NEW r \in resolved, r.id = EventCount PROVE since >= r.at + Cooldown
  <2>1. state.resolved = r.at /\ r.at # 0
    BY <1>4 DEF AlertsHold, LastRemembered
  <2>2. CASE state.pending = 0
    BY <1>1, <1>2, <1>3, <1>4, <2>1, <2>2 DEF Rule!Elapsed
  <2>3. CASE state.pending # 0
    BY <1>2, <1>4, <2>3 DEF AlertsHold, LastRemembered
  <2> QED BY <2>2, <2>3
<1>5. since >= cleared
  <2>1. CASE state.pending = 0
    BY <1>1, <1>2, <2>1
  <2>2. CASE state.pending # 0
    <3>1. state.pending >= clearAt
      BY <2>2 DEF AlertsHold, LastRemembered
    <3> QED BY <1>1, <1>2, <2>2, <3>1
  <2> QED BY <2>1, <2>2
<1>6. ~(Rule!Elapsed(since, at) < Debounce) => at >= since + Debounce
  <2>1. CASE state.pending = 0
    BY <1>1, <1>2, <2>1 DEF Rule!Elapsed
  <2>2. CASE state.pending # 0
    <3>1. Debounce > 0
      BY <2>2 DEF AlertsHold, LastRemembered
    <3> QED BY <1>1, <1>2, <2>2, <3>1 DEF Rule!Elapsed
  <2> QED BY <2>1, <2>2
<1>7. Rule!Elapsed(since, at) < Debounce => Debounce > 0
  BY <1>1, <1>2 DEF Rule!Elapsed
<1> QED BY <1>1, <1>2, <1>3, <1>4, <1>5, <1>6, <1>7

(* Triggered, for the first time or again: it is pending.                   *)
LEMMA CommitPending ==
  ASSUME AlertConstants, AlertsHold, NEW at \in Nat, at # 0, ~Rule!HeldOff(state, at),
         Rule!Elapsed(Rule!Since(state, at), at) < Debounce,
         state' = [state EXCEPT !.pending = Rule!Since(state, at)], UNCHANGED <<opened, resolved>>,
         clearAt' = IF at < clearAt THEN 0 ELSE clearAt
  PROVE  state' \in AlertState /\ EventsNumbered' /\ LastRemembered' /\ EventsHold'
<1> DEFINE since == Rule!Since(state, at)
<1>1. /\ since \in Nat /\ since # 0 /\ since >= clearAt' /\ state.open = 0
      /\ Cooldown > 0 => \A r \in resolved : r.id = EventCount => since >= r.at + Cooldown
      /\ Debounce > 0
  BY SinceIs
<1> HIDE DEF since
<1>2. state \in AlertState /\ state' = [state EXCEPT !.pending = since] /\ EventCount' = EventCount
  BY DEF AlertsHold, AlertsTyped, since, EventCount
<1>3. state' \in AlertState /\ state'.pending = since /\ state'.open = 0 /\ state'.resolved = state.resolved
  BY <1>1, <1>2 DEF AlertState
<1>4. EventsNumbered'
  BY <1>2, <1>3 DEF AlertsHold, EventsNumbered, Rule!Ids
<1>5. LastRemembered'
  BY <1>1, <1>2, <1>3 DEF AlertsHold, LastRemembered
<1>6. EventsHold'
  BY <1>1, <1>3 DEF AlertsHold, EventsHold, Rule!Ids
<1> QED BY <1>3, <1>4, <1>5, <1>6

(* Triggered for long enough: an event opens, with the next number.         *)
LEMMA CommitOpens ==
  ASSUME AlertConstants, AlertsHold, NEW at \in Nat, at # 0, ~Rule!HeldOff(state, at),
         ~(Rule!Elapsed(Rule!Since(state, at), at) < Debounce),
         state' = [state EXCEPT !.pending = 0, !.open = EventCount + 1], UNCHANGED resolved,
         opened' = opened \cup {[id |-> EventCount + 1, at |-> at]},
         clearAt' = IF at < clearAt THEN 0 ELSE clearAt
  PROVE  /\ state' \in AlertState /\ IsFiniteSet(opened') /\ opened' \subseteq AlertRow
         /\ EventsNumbered' /\ LastRemembered' /\ EventsHold'
<1> DEFINE n == EventCount + 1
           new == [id |-> n, at |-> at]
           since == Rule!Since(state, at)
<1>1. /\ since \in Nat /\ since >= clearAt' /\ state.open = 0 /\ at >= since + Debounce
      /\ Cooldown > 0 => \A r \in resolved : r.id = EventCount => since >= r.at + Cooldown
  BY SinceIs
<1> HIDE DEF since
<1>2. /\ state \in AlertState /\ IsFiniteSet(opened) /\ opened \subseteq AlertRow /\ resolved \subseteq AlertRow
      /\ clearAt \in Nat /\ clearAt' \in Nat /\ Debounce \in Nat /\ Cooldown \in Nat /\ EventCount \in Nat
  BY FS_CardinalityType DEF AlertsHold, AlertsTyped, EventCount, AlertConstants
<1>3. new \in AlertRow /\ new.id = n /\ new.at = at /\ opened' = opened \cup {new}
  BY <1>2 DEF AlertRow
<1> HIDE DEF new
<1>4. \A o \in opened : o.id \in Nat /\ o.id # n
  BY <1>2 DEF AlertsHold, EventsNumbered, AlertRow
<1>5. IsFiniteSet(opened') /\ EventCount' = n
  <2>1. new \notin opened
    BY <1>3, <1>4
  <2> QED BY <1>2, <1>3, <2>1, FS_AddElement DEF EventCount
<1>6. n # 0 /\ state' \in AlertState /\ state'.pending = 0 /\ state'.open = n /\ state'.resolved = state.resolved
  <2>1. n \in Nat /\ n # 0 /\ state' = [state EXCEPT !.pending = 0, !.open = n]
    BY <1>2
  <2> DEFINE p == [state EXCEPT !.pending = 0]
  <2>2. p \in AlertState /\ p.pending = 0 /\ p.open = state.open /\ p.resolved = state.resolved /\ state' = [p EXCEPT !.open = n]
    BY <1>2, <2>1 DEF AlertState
  <2> HIDE DEF n, p
  <2> QED BY <2>1, <2>2 DEF AlertState
<1>7. \A r \in resolved : r.id \in Rule!Ids(opened) /\ r.id \in Nat /\ r.id <= EventCount
  BY <1>2 DEF AlertsHold, EventsNumbered, Rule!Ids, AlertRow
<1>8. Rule!Ids(opened)' = Rule!Ids(opened) \cup {n} /\ Rule!Ids(resolved)' = Rule!Ids(resolved) /\ n \notin Rule!Ids(resolved)
  <2>1. Rule!Ids(opened)' = Rule!Ids(opened) \cup {n} /\ Rule!Ids(resolved)' = Rule!Ids(resolved)
    BY <1>3 DEF Rule!Ids
  <2>2. n \notin Rule!Ids(resolved)
    BY <1>2, <1>7 DEF Rule!Ids
  <2> QED BY <2>1, <2>2
<1>9. EventsNumbered'
  <2>1. \A o \in opened' : o.id <= n /\ o.id # 0
    BY <1>2, <1>3, <1>4 DEF AlertsHold, EventsNumbered
  <2>2. \A o, q \in opened' : o.id = q.id => o = q
    BY <1>3, <1>4 DEF AlertsHold, EventsNumbered
  <2>3. \A r \in resolved : r.id \in Rule!Ids(opened)'
    BY <1>7, <1>8
  <2> QED BY <1>5, <1>6, <2>1, <2>2, <2>3 DEF EventsNumbered
<1>10. LastRemembered'
  BY <1>2, <1>5, <1>6, <1>7 DEF LastRemembered
<1>11. EventsHold'
  <2>1. Rule!Ids(opened)' \ Rule!Ids(resolved)' = {state'.open} \ {0}
    <3>1. Rule!Ids(opened) \ Rule!Ids(resolved) = {}
      BY <1>1 DEF AlertsHold, EventsHold
    <3>2. state'.open = n /\ n # 0
      BY <1>6
    <3> HIDE DEF n
    <3> QED BY ONLY <1>8, <3>1, <3>2
  <2>2. ASSUME Cooldown > 0, NEW o \in opened', NEW r \in resolved, o.id = r.id + 1 PROVE o.at >= r.at + Cooldown + Debounce
    <3>1. CASE o \in opened
      BY <2>2, <3>1 DEF AlertsHold, EventsHold
    <3>2. CASE o = new
      <4>1. r.id = EventCount /\ r.at \in Nat
        BY <1>2, <1>3, <1>7, <2>2, <3>2 DEF AlertRow
      <4> QED BY <1>1, <1>2, <1>3, <2>2, <3>2, <4>1
    <3> QED BY <1>3, <3>1, <3>2
  <2>3. \A o \in opened' : o.id = n => o.at >= clearAt' + Debounce
    BY <1>1, <1>2, <1>3, <1>4
  <2>4. \A r, s \in resolved : r.id = s.id => r = s
    BY DEF AlertsHold, EventsHold
  <2> QED BY <1>6, <2>1, <2>2, <2>3, <2>4 DEF EventsHold
<1> QED BY <1>3, <1>5, <1>6, <1>2, <1>9, <1>10, <1>11

LEMMA CommitStep == ASSUME AlertConstants, AlertsHold, NEW e \in Requests, NEW condition, Rule!Commit(e, condition)
                    PROVE  overtaken' \in BOOLEAN => overtaken' \/ AlertsHold'
<1> DEFINE v == evaluation[e]
           id == Cardinality(opened) + 1
           new == CASE condition = "triggered" -> Rule!Triggered(v.read, v.at, id)
                    [] condition = "clear" -> Rule!Recovered(v.read, v.at)
                    [] OTHER -> v.read
<1>1. /\ v.pc = "commit" /\ state' = new /\ UNCHANGED today
      /\ opened' = IF new.open = id THEN opened \cup {[id |-> id, at |-> v.at]} ELSE opened
      /\ resolved' = IF condition = "clear" /\ v.read.open # 0 THEN resolved \cup {[id |-> v.read.open, at |-> v.at]} ELSE resolved
      /\ clearAt' = IF condition = "clear" THEN v.at ELSE IF condition = "triggered" /\ v.at < clearAt THEN 0 ELSE clearAt
      /\ overtaken' = (overtaken \/ ~v.fresh)
      /\ evaluation' = [d \in Requests |-> IF d = e THEN Rule!Idle ELSE [evaluation[d] EXCEPT !.fresh = @ /\ new = state]]
  BY RuleCounts DEF Rule!Commit, Rule!None
<1> SUFFICES ASSUME v.fresh PROVE AlertsHold'
  BY <1>1, Zenon
<1>2. v.read = state /\ v.at \in Nat /\ v.at # 0 /\ state \in AlertState
  BY <1>1 DEF AlertsHold, AlertsTyped, Evaluation
<1>3. /\ IsFiniteSet(opened) /\ opened \subseteq AlertRow /\ resolved \subseteq AlertRow /\ clearAt \in Nat /\ id = EventCount + 1
      /\ EventCount \in Nat /\ state.open \in {0, EventCount}
  BY FS_CardinalityType DEF AlertsHold, AlertsTyped, EventCount, EventsNumbered
<1>4. state.open # id /\ clearAt' \in Nat
  BY <1>1, <1>2, <1>3
<1>5. SUFFICES /\ new \in AlertState /\ IsFiniteSet(opened') /\ opened' \subseteq AlertRow /\ resolved' \subseteq AlertRow /\ clearAt' \in Nat
               /\ EventsNumbered' /\ LastRemembered' /\ EventsHold'
  <2> HIDE DEF new
  <2> QED BY <1>1, CommittedTyped DEF AlertsHold
<1> HIDE DEF new
<1>6. CASE condition = "clear"
  <2>1. new = Rule!Recovered(state, v.at)
    BY <1>2, <1>6 DEF new
  <2>2. new.open = 0
    BY <2>1 DEF Rule!Recovered, Rule!None
  <2>3. opened' = opened
    BY <1>1, <1>3, <2>2
  <2>4. /\ state' = Rule!Recovered(state, v.at) /\ clearAt' = v.at
        /\ resolved' = IF state.open # 0 THEN resolved \cup {[id |-> state.open, at |-> v.at]} ELSE resolved
    BY <1>1, <1>2, <1>6, <2>1
  <2>5. state' \in AlertState /\ resolved' \subseteq AlertRow /\ EventsNumbered' /\ LastRemembered' /\ EventsHold'
    BY <1>2, <2>3, <2>4, CommitClear
  <2> QED BY <1>1, <1>2, <1>3, <2>3, <2>4, <2>5
<1>7. CASE condition = "triggered"
  <2>1. new = Rule!Triggered(state, v.at, id) /\ resolved' = resolved /\ clearAt' = IF v.at < clearAt THEN 0 ELSE clearAt
    BY <1>1, <1>2, <1>7 DEF new
  <2>2. CASE Rule!HeldOff(state, v.at)
    <3>1. new = state
      BY <2>1, <2>2 DEF Rule!Triggered
    <3>2. state' = state /\ opened' = opened /\ clearAt' \in {0, clearAt}
      BY <1>1, <1>4, <2>1, <3>1
    <3>3. EventsNumbered' /\ LastRemembered' /\ EventsHold'
      BY <2>1, <3>2, CommitNothing
    <3> QED BY <1>2, <1>3, <2>1, <3>1, <3>2, <3>3
  <2>3. CASE ~Rule!HeldOff(state, v.at) /\ Rule!Elapsed(Rule!Since(state, v.at), v.at) < Debounce
    <3>1. new = [state EXCEPT !.pending = Rule!Since(state, v.at)]
      BY <2>1, <2>3 DEF Rule!Triggered
    <3>2. new.open = state.open
      BY <1>2, <3>1 DEF AlertState
    <3>3. state' = [state EXCEPT !.pending = Rule!Since(state, v.at)] /\ opened' = opened
      BY <1>1, <1>4, <3>1, <3>2
    <3>4. state' \in AlertState /\ EventsNumbered' /\ LastRemembered' /\ EventsHold'
      BY <1>2, <2>1, <2>3, <3>3, CommitPending
    <3> QED BY <1>1, <1>3, <1>4, <2>1, <3>3, <3>4
  <2>4. CASE ~Rule!HeldOff(state, v.at) /\ ~(Rule!Elapsed(Rule!Since(state, v.at), v.at) < Debounce)
    <3>1. new = [state EXCEPT !.pending = 0, !.open = EventCount + 1]
      BY <1>3, <2>1, <2>4 DEF Rule!Triggered, Rule!None
    <3>2. new.open = id
      BY <1>2, <1>3, <3>1 DEF AlertState
    <3>3. opened' = opened \cup {[id |-> EventCount + 1, at |-> v.at]} /\ state' = [state EXCEPT !.pending = 0, !.open = EventCount + 1]
      BY <1>1, <1>3, <3>1, <3>2
    <3>4. /\ state' \in AlertState /\ IsFiniteSet(opened') /\ opened' \subseteq AlertRow
          /\ EventsNumbered' /\ LastRemembered' /\ EventsHold'
      BY <1>2, <2>1, <2>4, <3>3, CommitOpens
    <3> QED BY <1>1, <1>3, <2>1, <3>3, <3>4
  <2> QED BY <2>2, <2>3, <2>4
<1>8. CASE condition # "clear" /\ condition # "triggered"
  <2>1. new = state
    BY <1>2, <1>8 DEF new
  <2>2. UNCHANGED <<state, opened, resolved, clearAt>>
    BY <1>1, <1>4, <1>8, <2>1
  <2>3. EventsNumbered' /\ LastRemembered' /\ EventsHold'
    BY <2>2, CommitNothing
  <2> QED BY <1>2, <1>3, <2>1, <2>2, <2>3
<1> QED BY <1>6, <1>7, <1>8

LEMMA StepAlerts == ASSUME AlertConstants, AlertsInv, [Rule!Next]_Rule!vars PROVE AlertsInv'
<1>1. overtaken' \in BOOLEAN /\ (overtaken => overtaken')
  <2>1. overtaken \in BOOLEAN
    BY DEF AlertsInv
  <2>2. ASSUME NEW e \in Requests, NEW condition, Rule!Commit(e, condition) PROVE overtaken' = (overtaken \/ ~evaluation[e].fresh)
    BY <2>2, Zenon DEF Rule!Commit
  <2>3. overtaken' = overtaken \/ \E e \in Requests, condition \in Rule!Conditions : Rule!Commit(e, condition)
    BY DEF Rule!Next, Rule!vars, Rule!Tick, Rule!Begin, Rule!Read, Rule!Lose
  <2>4. CASE overtaken' = overtaken
    BY <2>1, <2>4
  <2>5. CASE \E e \in Requests, condition \in Rule!Conditions : Rule!Commit(e, condition)
    <3>1. PICK e \in Requests : overtaken' = (overtaken \/ ~evaluation[e].fresh)
      BY <2>2, <2>5
    <3> QED BY <2>1, <3>1, Zenon
  <2> QED BY <2>3, <2>4, <2>5
<1>2. SUFFICES ASSUME AlertsHold, ~overtaken PROVE overtaken' \/ AlertsHold'
  BY <1>1 DEF AlertsInv
<1>3. CASE UNCHANGED Rule!vars
  BY <1>2, <1>3 DEF Rule!vars, AlertsHold, AlertsTyped, EventsNumbered, LastRemembered, EventsHold, EventCount, Rule!Ids
<1> QED BY <1>1, <1>2, <1>3, BeginStep, ReadStep, LoseStep, TickStep, CommitStep DEF Rule!Next

LEMMA AlertsStand == ASSUME AlertsInv PROVE OneOpenEvent
BY DEF AlertsInv, AlertsHold, EventsHold, OneOpenEvent, Rule!OneOpenEvent, Rule!None

(* What is read is the state until another commits, events are numbered as  *)
(* they open, and what is pending began after the last cooldown             *)
(* (AlertEvaluator::evaluate).                                              *)
THEOREM AlertsInvariant == ASSUME AlertConstants PROVE Rule!Spec => []AlertsInv
<1>1. Rule!Init => AlertsInv
  BY InitAlerts
<1>2. AlertsInv /\ [Rule!Next]_Rule!vars => AlertsInv'
  BY StepAlerts
<1> QED BY <1>1, <1>2, PTL DEF Rule!Spec

(* For any number of evaluations, debounce and cooldown: one open event at  *)
(* most, which recovers once, and the next only after cooldown and          *)
(* debounce, as long as none commits over a newer state (triggered,         *)
(* recovered).                                                              *)
THEOREM EventsStand == ASSUME AlertConstants PROVE Rule!Spec => []OneOpenEvent
<1>1. AlertsInv => OneOpenEvent
  BY AlertsStand
<1> QED BY <1>1, AlertsInvariant, PTL

-----------------------------------------------------------------------------
(* Readings are stored and counted once, and answers are true (module       *)
(* Ingestion).  What was stored stays, hot or archived.                     *)
BatchReadings == UNION {{b[i] : i \in DOMAIN b} : b \in Batches}
BatchesHold == \A b \in Batches : b \in Seq(BatchReadings) /\ b # <<>>

Verdicts == {"inserted", "duplicate", "conflict", "constraint", "invalid", "failed"}
Uploads == [pc : {"idle", "validate", "insert", "look", "answer"}, mode : Ingest!Modes,
            items : Seq(BatchReadings), outcomes : Seq(Verdicts)]

Days(s) == [i \in DOMAIN s |-> s[i].at]
Distinct(s) == \A i, j \in DOMAIN s : i # j => ~Ingest!Clash(s[i], s[j])

StoreHolds ==
  /\ hot \in Seq(BatchReadings) /\ archived \in Seq(BatchReadings)
  /\ Distinct(hot)
  /\ invalidated = Days(archived \o hot)

(* What was answered of the reading o is so.                                *)
IsTrue(answer, o) ==
  /\ answer \in {"inserted", "duplicate"} => \E r \in Ingest!Accepted : Ingest!Clash(r, o) /\ r.hash = o.hash
  /\ answer = "conflict" => \E r \in Ingest!Accepted : Ingest!Clash(r, o) /\ r.hash # o.hash

(* An upload u has readings left where it works on the next one.            *)
UploadHolds(u) ==
  /\ Len(u.outcomes) <= Len(u.items)
  /\ u.pc \in {"validate", "look"} \/ (u.pc = "insert" /\ u.mode = "partial") => Len(u.outcomes) < Len(u.items)
  /\ \A i \in 1 .. Len(u.outcomes) : IsTrue(u.outcomes[i], u.items[i])

IngestInv ==
  /\ StoreHolds
  /\ upload \in [Requests -> Uploads]
  /\ \A c \in Requests : UploadHolds(upload[c])

LEMMA ClashIsMutual == \A r, o : Ingest!Clash(r, o) <=> Ingest!Clash(o, r)
BY DEF Ingest!Clash

LEMMA DaysJoin ==
  ASSUME NEW s \in Seq(BatchReadings), NEW t \in Seq(BatchReadings) PROVE Days(s \o t) = Days(s) \o Days(t)
<1> DEFINE D == {r.at : r \in BatchReadings}
<1>1. ASSUME NEW u \in Seq(BatchReadings) PROVE Days(u) \in Seq(D) /\ Len(Days(u)) = Len(u) /\ \A i \in 1 .. Len(u) : Days(u)[i] = u[i].at
  <2>1. DOMAIN u = 1 .. Len(u) /\ Len(u) \in Nat /\ \A i \in 1 .. Len(u) : u[i] \in BatchReadings
    BY LenProperties, ElementOfSeq
  <2>2. Days(u) \in [1 .. Len(u) -> D]
    BY <2>1 DEF Days
  <2>3. Days(u) \in Seq(D)
    BY <2>1, <2>2, SMTT(30)
  <2>4. DOMAIN Days(u) = 1 .. Len(u)
    BY <2>1 DEF Days
  <2>5. Len(Days(u)) = Len(u)
    BY <2>1, <2>3, <2>4, LenProperties
  <2> QED BY <2>1, <2>3, <2>5 DEF Days
<1>2. /\ s \o t \in Seq(BatchReadings) /\ Len(s \o t) = Len(s) + Len(t) /\ Len(s) \in Nat /\ Len(t) \in Nat
      /\ \A i \in 1 .. Len(s) + Len(t) : (s \o t)[i] = IF i <= Len(s) THEN s[i] ELSE t[i - Len(s)]
  BY ConcatProperties, LenProperties
<1> HIDE DEF D
<1>3. /\ Days(s) \o Days(t) \in Seq(D) /\ Len(Days(s) \o Days(t)) = Len(s) + Len(t)
      /\ \A i \in 1 .. Len(s) + Len(t) : (Days(s) \o Days(t))[i] = IF i <= Len(s) THEN Days(s)[i] ELSE Days(t)[i - Len(s)]
  <2>1. PICK ds \in Seq(D), dt \in Seq(D) : ds = Days(s) /\ dt = Days(t) /\ Len(ds) = Len(s) /\ Len(dt) = Len(t)
    BY <1>1
  <2>2. /\ ds \o dt \in Seq(D) /\ Len(ds \o dt) = Len(ds) + Len(dt)
        /\ \A i \in 1 .. Len(ds) + Len(dt) : (ds \o dt)[i] = IF i <= Len(ds) THEN ds[i] ELSE dt[i - Len(ds)]
    BY ConcatProperties
  <2> QED BY <2>1, <2>2
<1>4. ASSUME NEW i \in 1 .. Len(s) + Len(t) PROVE Days(s \o t)[i] = (Days(s) \o Days(t))[i]
  <2>1. Days(s \o t)[i] = (s \o t)[i].at
    BY <1>1, <1>2
  <2>2. CASE i <= Len(s)
    <3>1. i \in 1 .. Len(s)
      BY <1>2, <2>2
    <3> QED BY <1>1, <1>2, <1>3, <2>1, <2>2, <3>1
  <2>3. CASE ~(i <= Len(s))
    <3>1. i - Len(s) \in 1 .. Len(t)
      BY <1>2, <2>3
    <3> QED BY <1>1, <1>2, <1>3, <2>1, <2>3, <3>1
  <2> QED BY <2>2, <2>3
<1>5. Days(s \o t) \in Seq(D) /\ Len(Days(s \o t)) = Len(s) + Len(t)
  BY <1>1, <1>2
<1> QED BY <1>3, <1>4, <1>5, SeqEqual

(* Rows among which nothing clashes are committed behind those there are.   *)
LEMMA CommitHolds ==
  ASSUME StoreHolds, NEW os \in Seq(BatchReadings), Distinct(os), Ingest!Commit(os), archived' = archived,
         \A i \in 1 .. Len(os) : Ingest!Clashing(os[i]) = {}
  PROVE  /\ StoreHolds' /\ Ingest!Accepted \subseteq Ingest!Accepted'
         /\ \A i \in 1 .. Len(os) : os[i] \in Ingest!Accepted'
<1>1. hot' = hot \o os /\ invalidated' = invalidated \o Days(os)
  BY DEF Ingest!Commit, Days
<1>2. /\ hot' \in Seq(BatchReadings) /\ Len(hot') = Len(hot) + Len(os) /\ Len(hot) \in Nat /\ Len(os) \in Nat
      /\ \A i \in 1 .. Len(hot) + Len(os) : hot'[i] = IF i <= Len(hot) THEN hot[i] ELSE os[i - Len(hot)]
      /\ DOMAIN hot = 1 .. Len(hot) /\ DOMAIN os = 1 .. Len(os) /\ DOMAIN hot' = 1 .. Len(hot) + Len(os)
  <2>1. hot \in Seq(BatchReadings)
    BY DEF StoreHolds
  <2> QED BY <1>1, <2>1, ConcatProperties, LenProperties
<1>3. invalidated' = Days(archived \o hot')
  <2>1. hot \in Seq(BatchReadings) /\ archived \in Seq(BatchReadings) /\ archived \o hot \in Seq(BatchReadings)
    BY ConcatProperties DEF StoreHolds
  <2>2. (archived \o hot) \o os = archived \o hot'
    <3>1. (archived \o hot) \o os = archived \o (hot \o os)
      BY <2>1, ConcatAssociative
    <3> QED BY <1>1, <3>1
  <2>3. invalidated = Days(archived \o hot)
    BY DEF StoreHolds
  <2> QED BY <1>1, <2>1, <2>2, <2>3, DaysJoin
<1>4. \A i \in DOMAIN hot, j \in DOMAIN os : ~Ingest!Clash(hot[i], os[j])
  BY <1>2 DEF Ingest!Clashing, Ingest!Rows
<1>5. ASSUME NEW i \in DOMAIN hot', NEW j \in DOMAIN hot', i # j PROVE ~Ingest!Clash(hot'[i], hot'[j])
  <2>1. CASE i <= Len(hot) /\ j <= Len(hot)
    <3>1. i \in DOMAIN hot /\ j \in DOMAIN hot /\ hot'[i] = hot[i] /\ hot'[j] = hot[j]
      BY <1>2, <2>1
    <3> QED BY <1>5, <3>1 DEF StoreHolds, Distinct
  <2>2. CASE i <= Len(hot) /\ ~(j <= Len(hot))
    <3>1. i \in DOMAIN hot /\ j - Len(hot) \in DOMAIN os /\ hot'[i] = hot[i] /\ hot'[j] = os[j - Len(hot)]
      BY <1>2, <2>2
    <3> QED BY <1>4, <3>1
  <2>3. CASE ~(i <= Len(hot)) /\ j <= Len(hot)
    <3>1. j \in DOMAIN hot /\ i - Len(hot) \in DOMAIN os /\ hot'[j] = hot[j] /\ hot'[i] = os[i - Len(hot)]
      BY <1>2, <2>3
    <3> QED BY <1>4, <3>1, ClashIsMutual
  <2>4. CASE ~(i <= Len(hot)) /\ ~(j <= Len(hot))
    <3>1. i - Len(hot) \in DOMAIN os /\ j - Len(hot) \in DOMAIN os /\ i - Len(hot) # j - Len(hot)
          /\ hot'[i] = os[i - Len(hot)] /\ hot'[j] = os[j - Len(hot)]
      BY <1>2, <1>5, <2>4
    <3> QED BY <3>1 DEF Distinct
  <2> QED BY <2>1, <2>2, <2>3, <2>4
<1>6. Distinct(hot)'
  BY <1>5 DEF Distinct
<1>7. Ingest!Rows \subseteq Ingest!Rows'
  BY <1>2 DEF Ingest!Rows
<1>8. ASSUME NEW i \in 1 .. Len(os) PROVE os[i] \in Ingest!Rows'
  <2>1. Len(hot) + i \in DOMAIN hot' /\ hot'[Len(hot) + i] = os[i]
    <3>1. Len(hot) + i \in 1 .. Len(hot) + Len(os) /\ ~(Len(hot) + i <= Len(hot)) /\ (Len(hot) + i) - Len(hot) = i
      BY <1>2
    <3> QED BY <1>2, <3>1
  <2> QED BY <2>1 DEF Ingest!Rows
<1>9. StoreHolds'
  BY <1>2, <1>3, <1>6 DEF StoreHolds
<1> QED BY <1>7, <1>8, <1>9 DEF Ingest!Accepted

LEMMA InitIngestion == Ingest!Init => IngestInv
<1> SUFFICES ASSUME Ingest!Init PROVE IngestInv
  OBVIOUS
<1>1. hot = <<>> /\ archived = <<>> /\ invalidated = <<>> /\ upload = [c \in Requests |-> Ingest!Idle]
  BY DEF Ingest!Init
<1>2. <<>> \in Seq(BatchReadings) /\ <<>> \in Seq(Verdicts) /\ Len(<<>>) = 0
  BY EmptySeq
<1>3. Days(archived \o hot) = <<>>
  <2>1. archived \o hot = <<>>
    BY <1>1, <1>2, ConcatEmptySeq
  <2> QED BY <2>1 DEF Days
<1>4. StoreHolds
  BY <1>1, <1>2, <1>3 DEF StoreHolds, Distinct
<1>5. Ingest!Idle \in Uploads /\ UploadHolds(Ingest!Idle)
  BY <1>2 DEF Ingest!Idle, Ingest!Modes, Uploads, UploadHolds
<1> QED BY <1>1, <1>4, <1>5 DEF IngestInv

(* The upload of c becomes u, and what was stored stays.                    *)
LEMMA UploadMoves ==
  ASSUME IngestInv, NEW c \in Requests, NEW u \in Uploads, upload' = [upload EXCEPT ![c] = u],
         StoreHolds', Ingest!Accepted \subseteq Ingest!Accepted', UploadHolds(u)'
  PROVE  IngestInv'
<1>1. upload' \in [Requests -> Uploads]
  BY DEF IngestInv
<1>2. ASSUME NEW d \in Requests PROVE UploadHolds(upload[d])'
  <2>1. CASE d = c
    <3>1. upload'[d] = u
      BY <2>1 DEF IngestInv
    <3> QED BY <3>1
  <2>2. CASE d # c
    <3>1. upload'[d] = upload[d] /\ UploadHolds(upload[d])
      BY <2>2 DEF IngestInv
    <3> QED BY <3>1 DEF UploadHolds, IsTrue
  <2> QED BY <2>1, <2>2
<1> QED BY <1>1, <1>2 DEF IngestInv

LEMMA StoreStays ==
  ASSUME IngestInv, UNCHANGED <<hot, archived, invalidated>> PROVE StoreHolds' /\ Ingest!Accepted' = Ingest!Accepted
BY DEF IngestInv, StoreHolds, Ingest!Accepted, Ingest!Rows

(* A step of c that only goes on to next.                                   *)
LEMMA UploadGoes ==
  ASSUME IngestInv, NEW c \in Requests, NEW next \in {"insert", "look", "answer"}, upload' = [upload EXCEPT ![c].pc = next],
         UNCHANGED <<hot, archived, invalidated>>, next # "answer" => Len(upload[c].outcomes) < Len(upload[c].items)
  PROVE  IngestInv'
<1>1. PICK u \in Uploads : u = [upload[c] EXCEPT !.pc = next]
  BY DEF IngestInv, Uploads
<1>2. upload' = [upload EXCEPT ![c] = u] /\ u.pc = next /\ u.outcomes = upload[c].outcomes /\ u.items = upload[c].items
  BY <1>1 DEF IngestInv, Uploads
<1>3. StoreHolds' /\ Ingest!Accepted' = Ingest!Accepted
  BY StoreStays
<1>4. UploadHolds(u)'
  BY <1>2, <1>3 DEF IngestInv, UploadHolds, IsTrue
<1> QED BY <1>2, <1>3, <1>4, UploadMoves

LEMMA IdleUpload ==
  ASSUME IngestInv, NEW c \in Requests, upload' = [upload EXCEPT ![c] = Ingest!Idle], UNCHANGED <<hot, archived, invalidated>>
  PROVE  IngestInv'
<1>1. <<>> \in Seq(BatchReadings) /\ <<>> \in Seq(Verdicts) /\ Len(<<>>) = 0
  BY EmptySeq
<1>2. Ingest!Idle \in Uploads /\ UploadHolds(Ingest!Idle)'
  BY <1>1 DEF Ingest!Idle, Ingest!Modes, Uploads, UploadHolds
<1> QED BY <1>2, StoreStays, UploadMoves

LEMMA AdmittedStep ==
  ASSUME BatchesHold, IngestInv, NEW c \in Requests, NEW b \in Batches, NEW mode \in Ingest!Modes, Ingest!TryAdmit(c, b, mode)
  PROVE  IngestInv'
<1>1. <<>> \in Seq(Verdicts) /\ Len(<<>>) = 0 /\ b \in Seq(BatchReadings) /\ Len(b) \in Nat \ {0}
  BY EmptySeq DEF BatchesHold
<1>2. PICK u : u = [pc |-> "validate", mode |-> mode, items |-> b, outcomes |-> <<>>]
  OBVIOUS
<1>3. u \in Uploads /\ u.pc = "validate" /\ u.items = b /\ u.outcomes = <<>>
  BY <1>1, <1>2 DEF Uploads
<1>4. upload' = [upload EXCEPT ![c] = u] /\ UNCHANGED <<hot, archived, invalidated>>
  BY <1>2 DEF Ingest!TryAdmit
<1>5. UploadHolds(u)'
  BY <1>1, <1>3 DEF UploadHolds
<1> QED BY <1>3, <1>4, <1>5, StoreStays, UploadMoves

LEMMA ValidatedStep == ASSUME IngestInv, NEW c \in Requests, Ingest!Validate(c) PROVE IngestInv'
<1>1. upload[c].pc = "validate" /\ UNCHANGED <<hot, archived, invalidated>>
  BY DEF Ingest!Validate
<1>2. \E next \in {"insert", "answer"} : upload' = [upload EXCEPT ![c].pc = next]
  BY DEF Ingest!Validate
<1>3. Len(upload[c].outcomes) < Len(upload[c].items)
  BY <1>1 DEF IngestInv, UploadHolds
<1> QED BY <1>1, <1>2, <1>3, UploadGoes

(* The item o the upload of c is at.                                        *)
LEMMA ItemAt ==
  ASSUME IngestInv, NEW c \in Requests, upload[c].pc \in {"insert", "look"}, upload[c].pc = "insert" => upload[c].mode = "partial"
  PROVE  /\ Len(upload[c].outcomes) \in Nat /\ Len(upload[c].items) \in Nat
         /\ Len(upload[c].outcomes) + 1 \in 1 .. Len(upload[c].items)
         /\ Ingest!Item(c) = upload[c].items[Len(upload[c].outcomes) + 1]
         /\ Ingest!Item(c) \in BatchReadings
<1>1. upload[c].outcomes \in Seq(Verdicts) /\ upload[c].items \in Seq(BatchReadings)
  BY DEF IngestInv, Uploads
<1>2. Len(upload[c].outcomes) \in Nat /\ Len(upload[c].items) \in Nat /\ Len(upload[c].outcomes) < Len(upload[c].items)
  BY <1>1, LenProperties DEF IngestInv, UploadHolds
<1> QED BY <1>1, <1>2, ElementOfSeq DEF Ingest!Item

(* An item is answered truly, and the next one comes.                       *)
LEMMA ItemAnswered ==
  ASSUME IngestInv, NEW c \in Requests, upload[c].pc \in {"insert", "look"}, upload[c].pc = "insert" => upload[c].mode = "partial",
         NEW answer \in Verdicts, Ingest!Step(c, Ingest!AfterItem(c), answer), NEW o, o = Ingest!Item(c),
         StoreHolds', Ingest!Accepted \subseteq Ingest!Accepted', IsTrue(answer, o)'
  PROVE  IngestInv'
<1>0. PICK done \in Seq(Verdicts), items \in Seq(BatchReadings) : done = upload[c].outcomes /\ items = upload[c].items
  BY DEF IngestInv, Uploads
<1>1. /\ Len(done) \in Nat /\ Len(items) \in Nat /\ Len(done) + 1 \in 1 .. Len(items) /\ o = items[Len(done) + 1]
  BY <1>0, ItemAt
<1>2. PICK next \in {"insert", "answer"} : next = Ingest!AfterItem(c)
  BY DEF Ingest!AfterItem
<1>3. next = "insert" => Len(done) + 1 # Len(items)
  BY <1>0, <1>2 DEF Ingest!AfterItem
<1>4. PICK more : more = Append(done, answer)
  OBVIOUS
<1>5. /\ more \in Seq(Verdicts) /\ Len(more) = Len(done) + 1
      /\ \A i \in 1 .. Len(done) : more[i] = done[i]
      /\ more[Len(done) + 1] = answer
  BY <1>1, <1>4, AppendProperties
<1>6. PICK u \in Uploads : u = [upload[c] EXCEPT !.pc = next, !.outcomes = more]
  BY <1>5 DEF IngestInv, Uploads
<1>7. u.pc = next /\ u.outcomes = more /\ u.items = items
  BY <1>0, <1>6 DEF IngestInv, Uploads
<1>8. upload' = [upload EXCEPT ![c] = u]
  BY <1>0, <1>2, <1>4, <1>6 DEF Ingest!Step, IngestInv, Uploads
<1>9. \A i \in 1 .. Len(done) : IsTrue(done[i], items[i])
  BY <1>0 DEF IngestInv, UploadHolds
<1>10. ASSUME NEW i \in 1 .. Len(done) + 1 PROVE IsTrue(more[i], items[i])'
  <2>1. CASE i \in 1 .. Len(done)
    <3>1. PICK a, p : a = done[i] /\ p = items[i] /\ a = more[i]
      BY <1>5, <2>1
    <3>2. IsTrue(a, p)
      BY <1>9, <2>1, <3>1
    <3>3. IsTrue(a, p)'
      BY <3>2 DEF IsTrue
    <3> QED BY <3>1, <3>3
  <2>2. CASE i = Len(done) + 1
    BY <1>1, <1>5, <2>2
  <2> QED BY <1>1, <2>1, <2>2
<1>11. UploadHolds(u)'
  BY <1>1, <1>3, <1>5, <1>7, <1>10 DEF UploadHolds
<1> QED BY <1>8, <1>11, UploadMoves

(* A row that stood in the way stays, and so the answer is true.            *)
LEMMA LookUpIsTrue ==
  ASSUME NEW o, NEW answer \in Ingest!LookUp(o), Ingest!Accepted \subseteq Ingest!Accepted'
  PROVE  answer \in Verdicts /\ IsTrue(answer, o)'
<1>1. CASE Ingest!Clashing(o) = {}
  <2>1. answer = "constraint"
    BY <1>1 DEF Ingest!LookUp
  <2> QED BY <2>1 DEF Verdicts, IsTrue
<1>2. CASE Ingest!Clashing(o) # {}
  <2>1. PICK r \in Ingest!Clashing(o) : answer = IF r.hash = o.hash THEN "duplicate" ELSE "conflict"
    BY <1>2 DEF Ingest!LookUp
  <2>2. r \in Ingest!Accepted' /\ Ingest!Clash(r, o)
    BY <2>1 DEF Ingest!Clashing, Ingest!Accepted
  <2> QED BY <2>1, <2>2 DEF Verdicts, IsTrue, Ingest!Clash
<1> QED BY <1>1, <1>2

LEMMA ItemCommitted ==
  ASSUME IngestInv, NEW o \in BatchReadings, Ingest!Clashing(o) = {}, Ingest!Commit(<<o>>), archived' = archived
  PROVE  StoreHolds' /\ Ingest!Accepted \subseteq Ingest!Accepted' /\ IsTrue("inserted", o)'
<1>1. PICK os : os = <<o>>
  OBVIOUS
<1>2. os \in Seq(BatchReadings) /\ Len(os) = 1 /\ os[1] = o
  BY <1>1
<1>3. Distinct(os)
  BY <1>1 DEF Distinct
<1>4. StoreHolds
  BY DEF IngestInv
<1>5. Ingest!Commit(os) /\ \A i \in 1 .. Len(os) : Ingest!Clashing(os[i]) = {}
  BY <1>1, <1>2
<1>6. /\ StoreHolds' /\ Ingest!Accepted \subseteq Ingest!Accepted'
      /\ \A i \in 1 .. Len(os) : os[i] \in Ingest!Accepted'
  BY <1>2, <1>3, <1>4, <1>5, CommitHolds
<1>7. o \in Ingest!Accepted'
  <2>1. 1 \in 1 .. Len(os) /\ os[1] = o
    BY <1>2
  <2> QED BY <1>6, <2>1
<1> QED BY <1>6, <1>7 DEF IsTrue, Ingest!Clash

LEMMA ItemStep ==
  ASSUME IngestInv, NEW c \in Requests,
         Ingest!SkipInvalid(c) \/ Ingest!InsertSqlite(c) \/ Ingest!InsertPostgres(c) \/ Ingest!LookPostgres(c) \/ Ingest!InsertFails(c)
  PROVE  IngestInv'
<1>1. /\ upload[c].pc \in {"insert", "look"} /\ (upload[c].pc = "insert" => upload[c].mode = "partial") /\ archived' = archived
  BY DEF Ingest!SkipInvalid, Ingest!InsertSqlite, Ingest!InsertPostgres, Ingest!LookPostgres, Ingest!InsertFails
<1>2. PICK o \in BatchReadings : o = Ingest!Item(c)
  BY <1>1, ItemAt
<1>3. CASE Ingest!Clashing(o) = {} /\ (Ingest!InsertSqlite(c) \/ Ingest!InsertPostgres(c))
  <2>1. Ingest!Commit(<<o>>) /\ Ingest!Step(c, Ingest!AfterItem(c), "inserted")
    BY <1>2, <1>3 DEF Ingest!InsertSqlite, Ingest!InsertPostgres
  <2>2. StoreHolds' /\ Ingest!Accepted \subseteq Ingest!Accepted' /\ IsTrue("inserted", o)' /\ "inserted" \in Verdicts
    BY <1>1, <1>3, <2>1, ItemCommitted DEF Verdicts
  <2> QED BY <1>1, <1>2, <2>1, <2>2, ItemAnswered
<1>4. CASE UNCHANGED <<hot, invalidated>>
  <2>1. StoreHolds' /\ Ingest!Accepted' = Ingest!Accepted
    BY <1>1, <1>4, StoreStays
  <2>2. ASSUME NEW answer \in Ingest!LookUp(o) \cup {"invalid", "failed"}, Ingest!Step(c, Ingest!AfterItem(c), answer) PROVE IngestInv'
    <3>1. answer \in Verdicts /\ IsTrue(answer, o)'
      <4>1. CASE answer \in Ingest!LookUp(o)
        BY <2>1, <4>1, LookUpIsTrue
      <4>2. CASE answer \in {"invalid", "failed"}
        BY <4>2 DEF Verdicts, IsTrue
      <4> QED BY <2>2, <4>1, <4>2
    <3> QED BY <1>1, <1>2, <2>1, <2>2, <3>1, ItemAnswered
  <2>3. CASE Ingest!SkipInvalid(c)
    BY <2>2, <2>3 DEF Ingest!SkipInvalid
  <2>4. CASE Ingest!InsertFails(c)
    BY <2>2, <2>4 DEF Ingest!InsertFails
  <2>5. CASE Ingest!LookPostgres(c)
    BY <1>2, <2>2, <2>5 DEF Ingest!LookPostgres
  <2>6. CASE Ingest!Clashing(o) # {} /\ Ingest!InsertSqlite(c)
    BY <1>2, <2>2, <2>6 DEF Ingest!InsertSqlite
  <2>7. CASE Ingest!Clashing(o) # {} /\ Ingest!InsertPostgres(c)
    <3>1. upload' = [upload EXCEPT ![c].pc = "look"]
      BY <1>2, <2>7 DEF Ingest!InsertPostgres
    <3>2. Len(upload[c].outcomes) < Len(upload[c].items)
      BY <1>1, ItemAt
    <3> QED BY <1>1, <1>4, <3>1, <3>2, UploadGoes
  <2> QED BY <1>3, <2>3, <2>4, <2>5, <2>6, <2>7
<1> QED BY <1>2, <1>3, <1>4 DEF Ingest!SkipInvalid, Ingest!InsertSqlite, Ingest!InsertPostgres, Ingest!LookPostgres, Ingest!InsertFails

LEMMA IngestCounts == \A S : Ingest!Cardinality(S) = Cardinality(S)
  BY DEF Ingest!Cardinality, Cardinality

(* An increasing sequence of as many of F as there are has all of them.     *)
LEMMA OrderHasAll ==
  ASSUME NEW n \in Nat, NEW F, F \subseteq 1 .. n, NEW order \in [1 .. Cardinality(F) -> F],
         \A k, l \in DOMAIN order : k < l => order[k] < order[l]
  PROVE  Cardinality(F) \in Nat /\ \A i \in F : \E k \in 1 .. Cardinality(F) : order[k] = i
<1>1. IsFiniteSet(1 .. n)
  BY FS_Interval
<1>2. IsFiniteSet(F)
  BY <1>1, FS_Subset
<1>3. Cardinality(F) \in Nat
  BY <1>2, FS_CardinalityType
<1>4. PICK m \in Nat : m = Cardinality(F)
  BY <1>3
<1>5. order \in [1 .. m -> F]
  BY <1>4
<1>6. ASSUME NEW k \in 1 .. m, NEW l \in 1 .. m, order[k] = order[l] PROVE k = l
  <2>1. order[k] \in 1 .. n /\ order[l] \in 1 .. n /\ DOMAIN order = 1 .. m
    BY <1>5
  <2>2. order[k] \in Nat /\ order[l] \in Nat
    BY <2>1
  <2>3. ~(k < l) /\ ~(l < k)
    BY <1>6, <2>1, <2>2
  <2> QED BY <1>4, <2>3
<1>7. order \in Injection(1 .. m, F)
  <2>1. IsInjective(order)
    BY <1>5, <1>6 DEF IsInjective
  <2> QED BY <1>5, <2>1 DEF Injection
<1>8. Cardinality(1 .. m) = m
  BY <1>4, FS_Interval
<1>9. order \in Surjection(1 .. m, F)
  BY <1>2, <1>4, <1>7, <1>8, FS_Injection
<1> QED BY <1>3, <1>4, <1>9 DEF Surjection

(* A whole batch: those that find nothing in their way are stored, and the  *)
(* others are as something that is there.                                   *)
LEMMA BatchStep == ASSUME IngestInv, NEW c \in Requests, Ingest!InsertAtomic(c) PROVE IngestInv'
<1> DEFINE os == upload[c].items
           InWay(i, F) == Ingest!Clashing(os[i]) \cup {os[j] : j \in {k \in F : k < i /\ Ingest!Clash(os[k], os[i])}}
<1>1. PICK F \in SUBSET DOMAIN os :
        /\ \A i \in DOMAIN os : i \in F <=> InWay(i, F) = {}
        /\ IF \E i \in DOMAIN os : \E r \in InWay(i, F) : r.hash # os[i].hash
           THEN /\ upload' = [upload EXCEPT ![c].pc = "answer"]
                /\ UNCHANGED <<hot, invalidated>>
           ELSE /\ \E order \in [1 .. Ingest!Cardinality(F) -> F] :
                     /\ \A k, l \in DOMAIN order : k < l => order[k] < order[l]
                     /\ Ingest!Commit([k \in DOMAIN order |-> os[order[k]]])
                /\ upload' = [upload EXCEPT ![c].pc = "answer",
                              ![c].outcomes = [i \in DOMAIN os |-> IF i \in F THEN "inserted" ELSE "duplicate"]]
  BY Zenon DEF Ingest!InsertAtomic
<1>2. archived' = archived
  BY DEF Ingest!InsertAtomic
<1>3. CASE \E i \in DOMAIN os : \E r \in InWay(i, F) : r.hash # os[i].hash
  <2>1. upload' = [upload EXCEPT ![c].pc = "answer"] /\ UNCHANGED <<hot, invalidated>>
    BY <1>1, <1>3
  <2> QED BY <1>2, <2>1, UploadGoes
<1>4. CASE ~\E i \in DOMAIN os : \E r \in InWay(i, F) : r.hash # os[i].hash
  <2>0. Ingest!Cardinality(F) = Cardinality(F) /\ os \in Seq(BatchReadings)
    BY IngestCounts DEF IngestInv, Uploads
  <2>1. PICK order \in [1 .. Cardinality(F) -> F] :
          /\ \A k, l \in DOMAIN order : k < l => order[k] < order[l]
          /\ Ingest!Commit([k \in DOMAIN order |-> os[order[k]]])
    BY <1>1, <1>4, <2>0
  <2>2. Len(os) \in Nat /\ DOMAIN os = 1 .. Len(os) /\ \A i \in 1 .. Len(os) : os[i] \in BatchReadings
    BY <2>0, LenProperties, ElementOfSeq
  <2>3. Cardinality(F) \in Nat /\ \A i \in F : \E k \in 1 .. Cardinality(F) : order[k] = i
    BY <2>1, <2>2, OrderHasAll
  <2>4. PICK new : new = [k \in 1 .. Cardinality(F) |-> os[order[k]]]
    OBVIOUS
  <2>5. /\ new \in Seq(BatchReadings) /\ Len(new) = Cardinality(F) /\ DOMAIN new = 1 .. Cardinality(F)
        /\ \A k \in 1 .. Cardinality(F) : new[k] = os[order[k]] /\ order[k] \in F /\ order[k] \in 1 .. Len(os)
    <3>1. new \in [1 .. Cardinality(F) -> BatchReadings]
      BY <2>1, <2>2, <2>4
    <3>2. new \in Seq(BatchReadings)
      BY <2>3, <3>1
    <3> QED BY <2>1, <2>2, <2>3, <2>4, <3>2, LenProperties
  <2>6. \A k \in 1 .. Cardinality(F) : InWay(order[k], F) = {}
    BY <1>1, <2>2, <2>5
  <2>7. \A k \in 1 .. Len(new) : Ingest!Clashing(new[k]) = {}
    BY <2>5, <2>6
  <2>8. ASSUME NEW k \in DOMAIN new, NEW l \in DOMAIN new, k < l PROVE ~Ingest!Clash(new[k], new[l])
    <3>1. order[k] < order[l] /\ order[k] \in F /\ InWay(order[l], F) = {} /\ new[k] = os[order[k]] /\ new[l] = os[order[l]]
      BY <2>1, <2>5, <2>6, <2>8
    <3> QED BY <3>1
  <2>9. Distinct(new)
    <3>1. ASSUME NEW k \in DOMAIN new, NEW l \in DOMAIN new, k # l PROVE ~Ingest!Clash(new[k], new[l])
      <4>1. k < l \/ l < k
        BY <2>3, <2>5, <3>1
      <4> QED BY <2>8, <4>1, ClashIsMutual
    <3> QED BY <3>1 DEF Distinct
  <2>10. Ingest!Commit(new)
    BY <2>1, <2>4
  <2>11. /\ StoreHolds' /\ Ingest!Accepted \subseteq Ingest!Accepted'
         /\ \A k \in 1 .. Len(new) : new[k] \in Ingest!Accepted'
    BY <1>2, <2>5, <2>7, <2>9, <2>10, CommitHolds DEF IngestInv
  <2>12. PICK was : was = os
    OBVIOUS
  <2>13. \A i \in F : was[i] \in Ingest!Accepted'
    BY <2>3, <2>5, <2>11, <2>12
  <2>14. PICK answers : answers = [i \in 1 .. Len(was) |-> IF i \in F THEN "inserted" ELSE "duplicate"]
    OBVIOUS
  <2>15. answers \in Seq(Verdicts) /\ Len(answers) = Len(was)
    <3>1. answers \in [1 .. Len(was) -> Verdicts]
      BY <2>14 DEF Verdicts
    <3>2. answers \in Seq(Verdicts)
      BY <2>2, <2>12, <3>1
    <3> QED BY <2>2, <2>12, <3>1, <3>2, LenProperties
  <2>16. ASSUME NEW i \in 1 .. Len(was) PROVE IsTrue(answers[i], was[i])'
    <3>1. CASE i \in F
      BY <2>13, <2>14, <3>1 DEF IsTrue, Ingest!Clash
    <3>2. CASE i \notin F
      <4>1. PICK r \in InWay(i, F) : r.hash = was[i].hash
        BY <1>1, <1>4, <2>2, <2>12, <3>2
      <4>2. r \in Ingest!Accepted' /\ Ingest!Clash(r, was[i])
        <5>1. CASE r \in Ingest!Clashing(was[i])
          BY <2>11, <5>1 DEF Ingest!Clashing, Ingest!Accepted
        <5>2. CASE \E j \in F : j < i /\ Ingest!Clash(was[j], was[i]) /\ r = was[j]
          BY <2>13, <5>2
        <5> QED BY <2>12, <4>1, <5>1, <5>2
      <4> QED BY <2>14, <3>2, <4>1, <4>2 DEF IsTrue
    <3> QED BY <3>1, <3>2
  <2>17. PICK u \in Uploads : u = [upload[c] EXCEPT !.pc = "answer", !.outcomes = answers]
    BY <2>15 DEF IngestInv, Uploads
  <2>18. u.pc = "answer" /\ u.outcomes = answers /\ u.items = was
    BY <2>12, <2>17 DEF IngestInv, Uploads
  <2>19. upload' = [upload EXCEPT ![c] = u]
    BY <1>1, <1>4, <2>2, <2>12, <2>14, <2>17 DEF IngestInv, Uploads
  <2>20. UploadHolds(u)'
    BY <2>2, <2>12, <2>15, <2>16, <2>18 DEF UploadHolds
  <2> QED BY <2>11, <2>19, <2>20, UploadMoves
<1> QED BY <1>3, <1>4

LEMMA ArchivedStep == ASSUME IngestInv, Ingest!Archive PROVE IngestInv'
<1>1. hot # <<>> /\ archived' = Append(archived, Head(hot)) /\ hot' = Tail(hot) /\ UNCHANGED <<invalidated, upload>>
  BY DEF Ingest!Archive
<1>2. hot \in Seq(BatchReadings) /\ archived \in Seq(BatchReadings) /\ Distinct(hot) /\ invalidated = Days(archived \o hot)
  BY DEF IngestInv, StoreHolds
<1>3. /\ Head(hot) \in BatchReadings /\ hot' \in Seq(BatchReadings) /\ Len(hot') = Len(hot) - 1 /\ Len(hot) \in Nat \ {0}
      /\ \A i \in 1 .. Len(hot') : hot'[i] = hot[i + 1]
      /\ Head(hot) = hot[1] /\ DOMAIN hot = 1 .. Len(hot) /\ DOMAIN hot' = 1 .. Len(hot')
  BY <1>1, <1>2, HeadTailProperties, EmptySeq, LenProperties
<1>4. /\ archived' \in Seq(BatchReadings) /\ Len(archived') = Len(archived) + 1 /\ Len(archived) \in Nat
      /\ \A i \in 1 .. Len(archived) : archived'[i] = archived[i]
      /\ archived'[Len(archived) + 1] = hot[1]
      /\ DOMAIN archived = 1 .. Len(archived) /\ DOMAIN archived' = 1 .. Len(archived) + 1
  BY <1>1, <1>2, <1>3, AppendProperties, LenProperties
<1>5. archived' \o hot' = archived \o hot
  <2> DEFINE s == archived \o hot
             t == archived' \o hot'
  <2>1. /\ s \in Seq(BatchReadings) /\ Len(s) = Len(archived) + Len(hot)
        /\ \A i \in 1 .. Len(archived) + Len(hot) : s[i] = IF i <= Len(archived) THEN archived[i] ELSE hot[i - Len(archived)]
    BY <1>2, ConcatProperties
  <2>2. /\ t \in Seq(BatchReadings) /\ Len(t) = Len(archived') + Len(hot')
        /\ \A i \in 1 .. Len(archived') + Len(hot') : t[i] = IF i <= Len(archived') THEN archived'[i] ELSE hot'[i - Len(archived')]
    BY <1>3, <1>4, ConcatProperties
  <2> HIDE DEF s, t
  <2>3. Len(t) = Len(s)
    BY <1>3, <1>4, <2>1, <2>2
  <2>4. ASSUME NEW i \in 1 .. Len(t) PROVE t[i] = s[i]
    <3>1. CASE i <= Len(archived)
      BY <1>3, <1>4, <2>1, <2>2, <3>1
    <3>2. CASE i = Len(archived) + 1
      BY <1>3, <1>4, <2>1, <2>2, <3>2, SMTT(30)
    <3>3. CASE i > Len(archived) + 1
      <4>1. i - Len(archived') \in 1 .. Len(hot') /\ (i - Len(archived')) + 1 = i - Len(archived)
        BY <1>3, <1>4, <2>2, <3>3
      <4>2. t[i] = hot'[i - Len(archived')] /\ s[i] = hot[i - Len(archived)]
        BY <1>3, <1>4, <2>1, <2>2, <3>3
      <4> QED BY <1>3, <4>1, <4>2
    <3> QED BY <1>3, <1>4, <2>2, <3>1, <3>2, <3>3
  <2>5. s = t
    BY <2>1, <2>2, <2>3, <2>4, SeqEqual
  <2> QED BY <2>5 DEF s, t
<1>6. Distinct(hot)'
  <2>1. ASSUME NEW i \in DOMAIN hot', NEW j \in DOMAIN hot', i # j PROVE ~Ingest!Clash(hot'[i], hot'[j])
    <3>1. i + 1 \in DOMAIN hot /\ j + 1 \in DOMAIN hot /\ i + 1 # j + 1 /\ hot'[i] = hot[i + 1] /\ hot'[j] = hot[j + 1]
      BY <1>3, <2>1
    <3> QED BY <1>2, <3>1 DEF Distinct
  <2> QED BY <2>1 DEF Distinct
<1>7. StoreHolds'
  BY <1>1, <1>2, <1>3, <1>4, <1>5, <1>6 DEF StoreHolds
<1>8. Ingest!Accepted \subseteq Ingest!Accepted'
  <2>1. ASSUME NEW i \in DOMAIN hot PROVE hot[i] \in Ingest!Accepted'
    <3>1. CASE i = 1
      <4>1. Len(archived) + 1 \in DOMAIN archived' /\ archived'[Len(archived) + 1] = hot[i]
        BY <1>4, <3>1
      <4> QED BY <4>1 DEF Ingest!Accepted
    <3>2. CASE i # 1
      <4>1. i - 1 \in DOMAIN hot' /\ hot'[i - 1] = hot[i]
        BY <1>3, <3>2
      <4> QED BY <4>1 DEF Ingest!Accepted, Ingest!Rows
    <3> QED BY <3>1, <3>2
  <2>2. ASSUME NEW i \in DOMAIN archived PROVE archived[i] \in Ingest!Accepted'
    <3>1. i \in DOMAIN archived' /\ archived'[i] = archived[i]
      BY <1>4
    <3> QED BY <3>1 DEF Ingest!Accepted
  <2> QED BY <2>1, <2>2 DEF Ingest!Accepted, Ingest!Rows
<1> QED BY <1>1, <1>7, <1>8, SMTT(30) DEF IngestInv, UploadHolds, IsTrue

LEMMA StepIngestion == ASSUME BatchesHold, IngestInv, [Ingest!Next]_Ingest!vars PROVE IngestInv'
<1>1. CASE UNCHANGED Ingest!vars
  <2>1. UNCHANGED <<hot, archived, invalidated, upload>>
    BY <1>1 DEF Ingest!vars
  <2> QED BY <2>1, StoreStays DEF IngestInv, UploadHolds, IsTrue
<1>2. ASSUME NEW c \in Requests, Ingest!Answer(c) \/ Ingest!Abandon(c) PROVE IngestInv'
  <2>1. upload' = [upload EXCEPT ![c] = Ingest!Idle] /\ UNCHANGED <<hot, archived, invalidated>>
    BY <1>2 DEF Ingest!Answer, Ingest!Abandon
  <2> QED BY <2>1, IdleUpload
<1> QED BY <1>1, <1>2, AdmittedStep, ValidatedStep, BatchStep, ItemStep, ArchivedStep DEF Ingest!Next

(* Rows in telemetry_hot do not clash, each reading ever stored has its     *)
(* invalidation, and what was answered so far is so, for both engines, any  *)
(* clients and batches (insert_observation, ingest).                        *)
THEOREM IngestInvariant == ASSUME BatchesHold PROVE Ingest!Spec => []IngestInv
<1>1. Ingest!Init => IngestInv
  BY InitIngestion
<1>2. IngestInv /\ [Ingest!Next]_Ingest!vars => IngestInv'
  BY StepIngestion
<1> QED BY <1>1, <1>2, PTL DEF Ingest!Spec

(* Readings are stored and counted once and clients are told the truth,     *)
(* whatever is retried, abandoned or archived meanwhile (ingest,            *)
(* insert_observation, sqlite_ and pg_existing_observation).                *)
THEOREM IngestionStands == ASSUME BatchesHold PROVE Ingest!Spec => []IngestedOnce
<1>1. ASSUME IngestInv PROVE Ingest!CountedOnce
  BY <1>1 DEF IngestInv, StoreHolds, Distinct, Days, Ingest!CountedOnce
<1>2. ASSUME IngestInv PROVE Ingest!AnswersAreTrue
  <2>1. ASSUME NEW c \in Requests PROVE DOMAIN upload[c].outcomes = 1 .. Len(upload[c].outcomes)
    <3>1. upload[c].outcomes \in Seq(Verdicts)
      BY <1>2 DEF IngestInv, Uploads
    <3> QED BY <3>1, LenProperties
  <2>2. \A c \in Requests : \A i \in DOMAIN upload[c].outcomes : IsTrue(upload[c].outcomes[i], upload[c].items[i])
    BY <1>2, <2>1 DEF IngestInv, UploadHolds
  <2> QED BY <2>2 DEF IsTrue, Ingest!AnswersAreTrue
<1>3. IngestInv => IngestedOnce
  BY <1>1, <1>2 DEF IngestedOnce
<1> QED BY <1>3, IngestInvariant, PTL

-----------------------------------------------------------------------------
(* Equipment stays deleted, listings show one save, and settings do not     *)
(* overlap (module Equipment).  A string belongs to the save of the row it  *)
(* was inserted with.                                                       *)
Spans == [from : Int, to : Int]
EquipmentConstants ==
  /\ LastDate \in Nat /\ MaxSaves \in Nat
  /\ EditInputs \subseteq [from : Int, to : Int, strings : SUBSET Spans]
  /\ Periods \subseteq Spans

StringIds == Nat \X Spans
InverterRows == [id : Inverters, version : Nat, from : Int, to : Int]
StringRows == [id : StringIds, inverter : Inverters, version : Nat, from : Int, to : Int]
ForecastSettings == [string : StringIds, from : Int, to : Int, by : Requests]
Edits == [pc : {"idle", "found", "listing", "looked"}, inverter : Inverters \cup {0}, string : StringIds \cup {<<>>}, input : Spans,
          strings : SUBSET Spans, rows : SUBSET InverterRows, answer : SUBSET [row : InverterRows, strings : SUBSET StringRows]]

RowsHold ==
  /\ rows \subseteq InverterRows
  /\ \A i \in rows : i.version <= saved /\ Fittings!ValidPeriod(i) /\ (i.id \in deleted => i.id \in overwritten)
  /\ \A i, j \in rows : i.id = j.id => i = j

StringsHold ==
  /\ strings \subseteq StringRows
  /\ \A s \in strings : Fittings!ValidPeriod(s) /\ \E i \in rows : i.id = s.inverter /\ i.version = s.version

SettingsHold ==
  /\ settings \subseteq ForecastSettings
  /\ \A s \in settings : Fittings!ValidPeriod(s) /\ \E t \in strings : t.id = s.string
  /\ \A s, t \in settings : s # t /\ s.string = t.string /\ Fittings!Overlapping(s, t) => s.string \in crossed
  /\ profile = "sqlite" => crossed = {}

ShowsOneSave(a) ==
  /\ \A s, t \in a.strings : s.version = t.version
  /\ \A s \in a.strings : s.version >= a.row.version

(* What a request may still rely on.                                        *)
EditHolds(q) ==
  /\ q.pc = "found" =>
       /\ q.inverter \in Inverters /\ Fittings!ValidPeriod(q.input) /\ \A p \in q.strings : Fittings!ValidPeriod(p)
       /\ q.inverter \in deleted => q.inverter \in overwritten
  /\ \A i \in q.rows : i.version <= saved /\ \A s \in strings : s.inverter = i.id => s.version >= i.version
  /\ \A a \in q.answer : ShowsOneSave(a)
  /\ q.pc = "looked" =>
       /\ profile = "postgres" /\ Fittings!ValidPeriod(q.input)
       /\ \A s \in settings : s.string = q.string /\ Fittings!Overlapping(s, q.input) => q.string \in crossed

EquipmentInv ==
  /\ profile \in {"sqlite", "postgres"} /\ date \in 0 .. LastDate /\ saved \in 0 .. MaxSaves
  /\ RowsHold /\ StringsHold /\ SettingsHold
  /\ edits \in [Requests -> Edits]
  /\ \A r \in Requests : EditHolds(edits[r])

LEMMA IdleEdit == Fittings!Idle \in Edits /\ EditHolds(Fittings!Idle) /\ EditHolds(Fittings!Idle)'
BY DEF Fittings!Idle, Edits, EditHolds, Spans

LEMMA InitEquipment == ASSUME EquipmentConstants, Fittings!Init PROVE EquipmentInv
<1>1. RowsHold /\ StringsHold /\ SettingsHold
  BY DEF Fittings!Init, RowsHold, StringsHold, SettingsHold
<1>2. edits \in [Requests -> Edits] /\ \A r \in Requests : EditHolds(edits[r])
  BY IdleEdit DEF Fittings!Init
<1> QED BY <1>1, <1>2 DEF Fittings!Init, EquipmentInv, EquipmentConstants

(* The request r goes on as q; those of the others still hold.              *)
LEMMA EditMoves ==
  ASSUME EquipmentInv, NEW r \in Requests, NEW q \in Edits, edits' = [edits EXCEPT ![r] = q], EditHolds(q)',
         profile' = profile, date' \in 0 .. LastDate, saved' \in 0 .. MaxSaves, RowsHold', StringsHold', SettingsHold',
         \A d \in Requests \ {r}, p \in Edits : p = edits[d] => EditHolds(p)'
  PROVE  EquipmentInv'
<1>1. edits' \in [Requests -> Edits]
  BY DEF EquipmentInv
<1>2. ASSUME NEW d \in Requests PROVE EditHolds(edits[d])'
  <2>1. CASE d = r
    <3>1. edits'[d] = q
      BY <2>1 DEF EquipmentInv
    <3> QED BY <3>1
  <2>2. CASE d # r
    <3>1. PICK p \in Edits : p = edits[d] /\ edits'[d] = p
      BY <2>2 DEF EquipmentInv
    <3>2. EditHolds(p)'
      BY <2>2, <3>1
    <3> QED BY <3>1, <3>2
  <2> QED BY <2>1, <2>2
<1> QED BY <1>1, <1>2 DEF EquipmentInv

LEMMA EditsStay ==
  ASSUME EquipmentInv, edits' = edits, profile' = profile, date' \in 0 .. LastDate, saved' \in 0 .. MaxSaves,
         RowsHold', StringsHold', SettingsHold', \A p \in Edits : EditHolds(p) => EditHolds(p)'
  PROVE  EquipmentInv'
BY DEF EquipmentInv

(* A step that changes no rows.                                             *)
LEMMA TablesStay ==
  ASSUME EquipmentInv, UNCHANGED <<profile, rows, strings, settings, saved, deleted, overwritten, crossed>>
  PROVE  RowsHold' /\ StringsHold' /\ SettingsHold' /\ \A p : EditHolds(p) => EditHolds(p)'
BY DEF EquipmentInv, RowsHold, StringsHold, SettingsHold, EditHolds

LEMMA EditGoes ==
  ASSUME EquipmentInv, NEW r \in Requests, NEW q \in Edits, Fittings!Step(r, q), EditHolds(q),
         UNCHANGED <<profile, date, rows, strings, settings, saved, deleted, overwritten, crossed>>
  PROVE  EquipmentInv'
<1>1. RowsHold' /\ StringsHold' /\ SettingsHold' /\ \A p : EditHolds(p) => EditHolds(p)'
  BY TablesStay
<1>2. edits' = [edits EXCEPT ![r] = q]
  BY DEF Fittings!Step
<1>3. \A d \in Requests \ {r}, p \in Edits : p = edits[d] => EditHolds(p)'
  BY <1>1 DEF EquipmentInv
<1>4. profile' = profile /\ date' \in 0 .. LastDate /\ saved' \in 0 .. MaxSaves
  BY DEF EquipmentInv
<1> QED BY <1>1, <1>2, <1>3, <1>4, EditMoves

(* A save replaces the row of an id and its strings, as one save.           *)
LEMMA AggregateSaved ==
  ASSUME EquipmentInv, MaxSaves \in Nat, NEW id \in Inverters, NEW input \in [from : Int, to : Int, strings : SUBSET Spans],
         Fittings!SaveAggregate(id, input), Fittings!ValidPeriod(input), \A p \in input.strings : Fittings!ValidPeriod(p),
         id \in deleted => id \in overwritten
  PROVE  /\ RowsHold' /\ StringsHold' /\ SettingsHold' /\ profile' = profile /\ date' \in 0 .. LastDate /\ saved' \in 0 .. MaxSaves
         /\ \A q \in Edits : EditHolds(q) => EditHolds(q)'
<1> DEFINE gone == {s \in strings : s.inverter = id}
           new == [id |-> id, version |-> saved + 1, from |-> input.from, to |-> input.to]
           String(p) == [id |-> <<saved + 1, p>>, inverter |-> id, version |-> saved + 1, from |-> p.from, to |-> p.to]
<1>1. /\ saved < MaxSaves /\ saved' = saved + 1
      /\ rows' = {i \in rows : i.id # id} \cup {new}
      /\ strings' = (strings \ gone) \cup {String(p) : p \in input.strings}
      /\ settings' = {s \in settings : \A g \in gone : s.string # g.id}
      /\ UNCHANGED <<profile, date, deleted, overwritten, crossed>>
  BY DEF Fittings!SaveAggregate
<1>2. saved \in Nat /\ saved' \in Nat /\ saved' \in 0 .. MaxSaves /\ date' \in 0 .. LastDate
  BY <1>1 DEF EquipmentInv
<1>3. new \in InverterRows /\ new.id = id /\ new.version = saved' /\ Fittings!ValidPeriod(new)
  BY <1>1, <1>2 DEF InverterRows, Fittings!ValidPeriod
<1>4. ASSUME NEW p \in input.strings
      PROVE  String(p) \in StringRows /\ String(p).inverter = id /\ String(p).version = saved' /\ Fittings!ValidPeriod(String(p))
  <2>1. p \in Spans /\ p.from \in Int /\ p.to \in Int /\ p.from < p.to
    BY DEF Spans, Fittings!ValidPeriod
  <2>2. <<saved + 1, p>> \in StringIds
    BY <1>2, <2>1 DEF StringIds
  <2> QED BY <1>1, <1>2, <2>1, <2>2 DEF StringRows, Fittings!ValidPeriod
<1> HIDE DEF new, String
<1>5. RowsHold'
  BY <1>1, <1>2, <1>3 DEF EquipmentInv, RowsHold, InverterRows
<1>6. StringsHold'
  <2>1. ASSUME NEW s \in strings' PROVE s \in StringRows /\ Fittings!ValidPeriod(s) /\ \E i \in rows' : i.id = s.inverter /\ i.version = s.version
    <3>1. CASE s \in strings \ gone
      <4>1. s.inverter # id /\ s \in StringRows /\ Fittings!ValidPeriod(s)
        BY <3>1 DEF EquipmentInv, StringsHold
      <4>2. PICK i \in rows : i.id = s.inverter /\ i.version = s.version
        BY <3>1 DEF EquipmentInv, StringsHold
      <4> QED BY <1>1, <4>1, <4>2
    <3>2. CASE s \in {String(p) : p \in input.strings}
      <4>1. s \in StringRows /\ Fittings!ValidPeriod(s) /\ s.inverter = id /\ s.version = saved'
        BY <1>4, <3>2
      <4> QED BY <1>1, <1>3, <4>1
    <3> QED BY <1>1, <2>1, <3>1, <3>2
  <2> QED BY <2>1 DEF StringsHold
<1>7. SettingsHold'
  <2>1. \A s \in settings' : s \in settings /\ \E t \in strings' : t.id = s.string
    BY <1>1 DEF EquipmentInv, SettingsHold
  <2> QED BY <1>1, <2>1 DEF EquipmentInv, SettingsHold
<1>8. ASSUME NEW q \in Edits, EditHolds(q) PROVE EditHolds(q)'
  <2>1. ASSUME NEW i \in q.rows PROVE i.version <= saved' /\ \A s \in strings' : s.inverter = i.id => s.version >= i.version
    <3>1. i.version <= saved /\ i.version \in Nat /\ \A s \in strings : s.inverter = i.id => s.version >= i.version
      BY <1>8 DEF EditHolds, Edits, InverterRows
    <3>2. \A s \in strings' : s \in strings \/ s.version = saved'
      BY <1>1, <1>4
    <3> QED BY <1>1, <1>2, <3>1, <3>2
  <2>2. \A s \in settings' : s \in settings
    BY <1>1
  <2> QED BY <1>1, <1>8, <2>1, <2>2 DEF EditHolds
<1> QED BY <1>1, <1>2, <1>5, <1>6, <1>7, <1>8

LEMMA InverterCreatedStep == ASSUME EquipmentConstants, EquipmentInv, NEW r \in Requests, Fittings!Create(r) PROVE EquipmentInv'
<1>1. PICK id \in Inverters, input \in EditInputs : Fittings!ValidInput(input) /\ id \notin deleted /\ Fittings!SaveAggregate(id, input)
  BY DEF Fittings!Create
<1>2. input \in [from : Int, to : Int, strings : SUBSET Spans] /\ Fittings!ValidPeriod(input) /\ \A p \in input.strings : Fittings!ValidPeriod(p)
  BY <1>1 DEF EquipmentConstants, Fittings!ValidInput
<1>3. edits' = edits
  BY DEF Fittings!Create
<1> QED BY <1>1, <1>2, <1>3, AggregateSaved, EditsStay DEF EquipmentConstants

LEMMA InverterFoundStep == ASSUME EquipmentConstants, EquipmentInv, NEW r \in Requests, Fittings!Find(r) PROVE EquipmentInv'
<1>1. PICK i \in rows, input \in EditInputs :
        /\ Fittings!ValidInput(input)
        /\ Fittings!Step(r, [Fittings!Idle EXCEPT !.pc = "found", !.inverter = i.id, !.input = [from |-> input.from, to |-> input.to], !.strings = input.strings])
  BY DEF Fittings!Find, Fittings!InEffect
<1>2. PICK q : q = [Fittings!Idle EXCEPT !.pc = "found", !.inverter = i.id, !.input = [from |-> input.from, to |-> input.to], !.strings = input.strings]
  OBVIOUS
<1>3. input \in [from : Int, to : Int, strings : SUBSET Spans] /\ Fittings!ValidPeriod(input) /\ \A p \in input.strings : Fittings!ValidPeriod(p)
  BY <1>1 DEF EquipmentConstants, Fittings!ValidInput
<1>4. i.id \in Inverters /\ (i.id \in deleted => i.id \in overwritten)
  BY DEF EquipmentInv, RowsHold, InverterRows
<1>5. /\ q \in Edits /\ q.pc = "found" /\ q.inverter = i.id /\ q.input = [from |-> input.from, to |-> input.to]
      /\ q.strings = input.strings /\ q.rows = {} /\ q.answer = {}
  BY <1>2, <1>3, <1>4 DEF Fittings!Idle, Edits, Spans
<1>6. Fittings!ValidPeriod(q.input)
  BY <1>3, <1>5 DEF Fittings!ValidPeriod
<1>7. EditHolds(q)
  BY <1>3, <1>4, <1>5, <1>6 DEF EditHolds
<1>8. UNCHANGED <<profile, date, rows, strings, settings, saved, deleted, overwritten, crossed>>
  BY DEF Fittings!Find
<1> QED BY <1>1, <1>2, <1>5, <1>7, <1>8, EditGoes

LEMMA InverterReplacedStep == ASSUME EquipmentConstants, EquipmentInv, NEW r \in Requests, Fittings!Replace(r) PROVE EquipmentInv'
<1>1. PICK q \in Edits : q = edits[r] /\ q.pc = "found" /\ EditHolds(q)
  BY DEF Fittings!Replace, Fittings!At, EquipmentInv
<1>2. PICK input : input = [from |-> q.input.from, to |-> q.input.to, strings |-> q.strings]
  OBVIOUS
<1>3. Fittings!SaveAggregate(q.inverter, input) /\ edits' = [edits EXCEPT ![r] = Fittings!Idle]
  BY <1>1, <1>2 DEF Fittings!Replace, Fittings!Step
<1>4. input \in [from : Int, to : Int, strings : SUBSET Spans]
  BY <1>1, <1>2 DEF Edits, Spans
<1>5. /\ q.inverter \in Inverters /\ Fittings!ValidPeriod(input) /\ \A p \in input.strings : Fittings!ValidPeriod(p)
      /\ q.inverter \in deleted => q.inverter \in overwritten
  BY <1>1, <1>2 DEF EditHolds, Fittings!ValidPeriod
<1>6. /\ RowsHold' /\ StringsHold' /\ SettingsHold' /\ profile' = profile /\ date' \in 0 .. LastDate /\ saved' \in 0 .. MaxSaves
      /\ \A p \in Edits : EditHolds(p) => EditHolds(p)'
  BY <1>3, <1>4, <1>5, AggregateSaved DEF EquipmentConstants
<1>7. \A d \in Requests \ {r}, p \in Edits : p = edits[d] => EditHolds(p)'
  BY <1>6 DEF EquipmentInv
<1> QED BY <1>3, <1>6, <1>7, IdleEdit, EditMoves

LEMMA InverterDeletedStep == ASSUME EquipmentConstants, EquipmentInv, NEW r \in Requests, Fittings!Delete(r) PROVE EquipmentInv'
<1>1. PICK i \in rows :
        LET gone == {s \in strings : s.inverter = i.id}
        IN /\ rows' = rows \ {i}
           /\ strings' = strings \ gone
           /\ settings' = {s \in settings : \A g \in gone : s.string # g.id}
           /\ deleted' = deleted \cup {i.id}
           /\ overwritten' = IF \E q \in Requests : Fittings!At(q, "found") /\ edits[q].inverter = i.id
                             THEN overwritten \cup {i.id} ELSE overwritten
  BY Zenon DEF Fittings!Delete
<1> DEFINE gone == {s \in strings : s.inverter = i.id}
<1>2. /\ rows' = rows \ {i} /\ strings' = strings \ gone /\ settings' = {s \in settings : \A g \in gone : s.string # g.id}
      /\ deleted' = deleted \cup {i.id} /\ overwritten \subseteq overwritten'
      /\ UNCHANGED <<profile, date, edits, saved, crossed>>
  BY <1>1 DEF Fittings!Delete
<1>3. \A d \in Requests : edits[d].pc = "found" /\ edits[d].inverter = i.id => i.id \in overwritten'
  BY <1>1 DEF Fittings!At
<1>4. RowsHold'
  BY <1>2 DEF EquipmentInv, RowsHold
<1>5. StringsHold'
  <2>1. ASSUME NEW s \in strings' PROVE s \in StringRows /\ Fittings!ValidPeriod(s) /\ \E j \in rows' : j.id = s.inverter /\ j.version = s.version
    <3>1. s \in strings /\ s.inverter # i.id /\ s \in StringRows /\ Fittings!ValidPeriod(s)
      BY <1>2, <2>1 DEF EquipmentInv, StringsHold
    <3>2. PICK j \in rows : j.id = s.inverter /\ j.version = s.version
      BY <3>1 DEF EquipmentInv, StringsHold
    <3> QED BY <1>2, <3>1, <3>2
  <2> QED BY <2>1 DEF StringsHold
<1>6. SettingsHold'
  <2>1. \A s \in settings' : s \in settings /\ \E t \in strings' : t.id = s.string
    BY <1>2 DEF EquipmentInv, SettingsHold
  <2> QED BY <1>2, <2>1 DEF EquipmentInv, SettingsHold
<1>7. ASSUME NEW d \in Requests PROVE EditHolds(edits[d])'
  <2>1. EditHolds(edits[d]) /\ edits'[d] = edits[d]
    BY <1>2 DEF EquipmentInv
  <2>2. edits[d].pc = "found" /\ edits[d].inverter \in deleted' => edits[d].inverter \in overwritten'
    BY <1>2, <1>3, <2>1 DEF EditHolds
  <2>3. strings' \subseteq strings /\ settings' \subseteq settings
    BY <1>2
  <2> HIDE DEF gone
  <2> QED BY <1>2, <2>1, <2>2, <2>3 DEF EditHolds
<1> QED BY <1>2, <1>4, <1>5, <1>6, <1>7 DEF EquipmentInv

LEMMA ListingStep ==
  ASSUME EquipmentInv, NEW r \in Requests, Fittings!ReadRows(r) \/ Fittings!ReadStrings(r) \/ Fittings!Answer(r) \/ Fittings!Fail(r)
  PROVE  EquipmentInv'
<1>1. UNCHANGED <<profile, date, rows, strings, settings, saved, deleted, overwritten, crossed>>
  BY DEF Fittings!ReadRows, Fittings!ReadStrings, Fittings!Answer, Fittings!Fail
<1>2. ASSUME NEW i \in rows PROVE \A s \in strings : s.inverter = i.id => s.version = i.version
  BY <1>2 DEF EquipmentInv, RowsHold, StringsHold
<1>3. CASE Fittings!ReadRows(r)
  <2>1. PICK q : q = [Fittings!Idle EXCEPT !.pc = "listing", !.rows = Fittings!InEffect(rows)]
    OBVIOUS
  <2>2. q \in Edits /\ q.pc = "listing" /\ q.rows \subseteq rows /\ q.answer = {}
    <3>1. PICK R : R = Fittings!InEffect(rows)
      OBVIOUS
    <3>2. R \subseteq rows /\ R \in SUBSET InverterRows
      BY <3>1 DEF Fittings!InEffect, EquipmentInv, RowsHold
    <3>3. q = [Fittings!Idle EXCEPT !.pc = "listing", !.rows = R]
      BY <2>1, <3>1
    <3>4. q \in Edits
      BY <3>2, <3>3, IdleEdit DEF Edits
    <3>5. q.pc = "listing" /\ q.rows = R /\ q.answer = {}
      BY <3>3 DEF Fittings!Idle
    <3> QED BY <3>2, <3>4, <3>5
  <2>3. ASSUME NEW i \in q.rows PROVE i.version <= saved /\ \A s \in strings : s.inverter = i.id => s.version >= i.version
    <3>1. i \in rows /\ i.version <= saved /\ i.version \in Nat
      BY <2>2 DEF EquipmentInv, RowsHold, InverterRows
    <3> QED BY <1>2, <3>1
  <2>4. EditHolds(q)
    BY <2>2, <2>3 DEF EditHolds
  <2> QED BY <1>1, <1>3, <2>1, <2>2, <2>4, EditGoes DEF Fittings!ReadRows
<1>4. CASE Fittings!ReadStrings(r)
  <2>1. PICK was \in Edits : was = edits[r] /\ was.pc = "listing" /\ EditHolds(was)
    BY <1>4 DEF Fittings!ReadStrings, Fittings!At, EquipmentInv
  <2>2. PICK i \in was.rows :
          Fittings!Step(r, [was EXCEPT !.rows = @ \ {i},
                                       !.answer = @ \cup {[row |-> i, strings |-> {s \in Fittings!InEffect(strings) : s.inverter = i.id}]}])
    BY <1>4, <2>1 DEF Fittings!ReadStrings
  <2>3. PICK read : read = {s \in Fittings!InEffect(strings) : s.inverter = i.id}
    OBVIOUS
  <2>4. PICK a : a = [row |-> i, strings |-> read]
    OBVIOUS
  <2>5. PICK q : q = [was EXCEPT !.rows = @ \ {i}, !.answer = @ \cup {a}]
    OBVIOUS
  <2>6. i \in InverterRows /\ \A s \in strings : s.inverter = i.id => s.version >= i.version
    BY <2>1 DEF EditHolds, Edits
  <2>7. read \subseteq StringRows /\ read \subseteq strings /\ \A s \in read : s.inverter = i.id
    BY <2>3 DEF EquipmentInv, StringsHold, Fittings!InEffect
  <2>8. a \in [row : InverterRows, strings : SUBSET StringRows] /\ a.row = i /\ a.strings = read
    BY <2>4, <2>6, <2>7
  <2>9. ShowsOneSave(a)
    <3>1. ASSUME NEW s \in read, NEW t \in read PROVE s.version = t.version
      <4>1. PICK j \in rows : j.id = s.inverter /\ j.version = s.version
        BY <2>7 DEF EquipmentInv, StringsHold
      <4>2. PICK k \in rows : k.id = t.inverter /\ k.version = t.version
        BY <2>7 DEF EquipmentInv, StringsHold
      <4>3. j = k
        BY <2>7, <4>1, <4>2 DEF EquipmentInv, RowsHold
      <4> QED BY <4>1, <4>2, <4>3
    <3> QED BY <2>6, <2>7, <2>8, <3>1 DEF ShowsOneSave
  <2>10. q \in Edits /\ q.pc = "listing" /\ q.rows = was.rows \ {i} /\ q.answer = was.answer \cup {a}
    BY <2>1, <2>5, <2>8 DEF Edits
  <2>11. EditHolds(q)
    BY <2>1, <2>9, <2>10 DEF EditHolds
  <2>12. Fittings!Step(r, q)
    BY <2>2, <2>3, <2>4, <2>5
  <2> QED BY <1>1, <2>10, <2>11, <2>12, EditGoes
<1>5. CASE Fittings!Answer(r) \/ Fittings!Fail(r)
  <2>1. Fittings!Step(r, Fittings!Idle)
    BY <1>5 DEF Fittings!Answer, Fittings!Fail
  <2> QED BY <1>1, <2>1, IdleEdit, EditGoes
<1> QED BY <1>3, <1>4, <1>5

LEMMA OverlapIsMutual == \A p, q : Fittings!Overlapping(p, q) <=> Fittings!Overlapping(q, p)
BY DEF Fittings!Overlapping

(* A setting x of a string that is there is inserted, and what overlaps it  *)
(* is on a string that was crossed.                                         *)
LEMMA SettingInserted ==
  ASSUME EquipmentInv, NEW x \in ForecastSettings, settings' = settings \cup {x}, Fittings!ValidPeriod(x),
         \E t \in strings : t.id = x.string, \A s \in settings : s.string = x.string /\ Fittings!Overlapping(s, x) => x.string \in crossed',
         crossed \subseteq crossed', UNCHANGED <<profile, strings>>, profile' = "sqlite" => crossed' = {}
  PROVE  SettingsHold'
<1>1. \A s, t \in settings' : s # t /\ s.string = t.string /\ Fittings!Overlapping(s, t) => s.string \in crossed'
  <2>1. ASSUME NEW s \in settings', NEW t \in settings', s # t, s.string = t.string, Fittings!Overlapping(s, t) PROVE s.string \in crossed'
    <3>1. CASE s \in settings /\ t \in settings
      BY <2>1, <3>1 DEF EquipmentInv, SettingsHold
    <3>2. CASE s = x /\ t \in settings
      BY <2>1, <3>2, OverlapIsMutual
    <3>3. CASE t = x /\ s \in settings
      BY <2>1, <3>3
    <3> QED BY <2>1, <3>1, <3>2, <3>3
  <2> QED BY <2>1
<1> QED BY <1>1 DEF EquipmentInv, SettingsHold

LEMMA SettingsInsertedStep == ASSUME EquipmentConstants, EquipmentInv, NEW r \in Requests, Fittings!InsertSettings(r) PROVE EquipmentInv'
<1>1. PICK s \in strings, p \in Periods :
        Fittings!ValidPeriod(p) /\ ~Fittings!Overlaps(p, s.id) /\ settings' = settings \cup {Fittings!Setting(s.id, p, r)}
  BY DEF Fittings!InsertSettings
<1>2. profile = "sqlite" /\ UNCHANGED <<profile, date, rows, strings, edits, saved, deleted, overwritten, crossed>>
  BY DEF Fittings!InsertSettings
<1>3. PICK x : x = Fittings!Setting(s.id, p, r)
  OBVIOUS
<1>4. x \in ForecastSettings /\ Fittings!ValidPeriod(x) /\ x.string = s.id /\ x.from = p.from /\ x.to = p.to
  BY <1>1, <1>3 DEF EquipmentConstants, EquipmentInv, StringsHold, StringRows, Spans, ForecastSettings, Fittings!Setting, Fittings!ValidPeriod
<1>5. \A t \in settings : ~(t.string = x.string /\ Fittings!Overlapping(t, x))
  BY <1>1, <1>4 DEF Fittings!Overlaps, Fittings!Overlapping
<1>6. SettingsHold'
  BY <1>1, <1>2, <1>3, <1>4, <1>5, SettingInserted DEF EquipmentInv, SettingsHold
<1>7. RowsHold' /\ StringsHold'
  BY <1>2 DEF EquipmentInv, RowsHold, StringsHold
<1>8. \A q \in Edits : EditHolds(q) => EditHolds(q)'
  BY <1>2 DEF EditHolds
<1>9. date' \in 0 .. LastDate /\ saved' \in 0 .. MaxSaves
  BY <1>2 DEF EquipmentInv
<1> QED BY <1>2, <1>6, <1>7, <1>8, <1>9, EditsStay

LEMMA OverlapLookedForStep == ASSUME EquipmentConstants, EquipmentInv, NEW r \in Requests, Fittings!LookForOverlap(r) PROVE EquipmentInv'
<1>1. PICK s \in strings, p \in Periods :
        /\ Fittings!ValidPeriod(p) /\ ~Fittings!Overlaps(p, s.id)
        /\ Fittings!Step(r, [Fittings!Idle EXCEPT !.pc = "looked", !.string = s.id, !.input = p])
  BY DEF Fittings!LookForOverlap
<1>2. profile = "postgres" /\ UNCHANGED <<profile, date, rows, strings, settings, saved, deleted, overwritten, crossed>>
  BY DEF Fittings!LookForOverlap
<1>3. PICK q : q = [Fittings!Idle EXCEPT !.pc = "looked", !.string = s.id, !.input = p]
  OBVIOUS
<1>4. s.id \in StringIds /\ p \in Spans
  BY DEF EquipmentConstants, EquipmentInv, StringsHold, StringRows
<1>5. q \in Edits /\ q.pc = "looked" /\ q.string = s.id /\ q.input = p /\ q.rows = {} /\ q.answer = {}
  BY <1>3, <1>4 DEF Fittings!Idle, Edits
<1>6. EditHolds(q)
  BY <1>1, <1>2, <1>5 DEF EditHolds, Fittings!Overlaps
<1> QED BY <1>1, <1>2, <1>3, <1>5, <1>6, EditGoes

LEMMA LookedInsertedStep == ASSUME EquipmentConstants, EquipmentInv, NEW r \in Requests, Fittings!InsertLooked(r) PROVE EquipmentInv'
<1>1. PICK was \in Edits : was = edits[r] /\ was.pc = "looked" /\ EditHolds(was)
  BY DEF Fittings!InsertLooked, Fittings!At, EquipmentInv
<1>2. Fittings!Step(r, Fittings!Idle) /\ UNCHANGED <<profile, date, rows, strings, saved, deleted, overwritten>>
  BY DEF Fittings!InsertLooked
<1>3. CASE UNCHANGED <<settings, crossed>>
  BY <1>2, <1>3, IdleEdit, EditGoes
<1>4. CASE /\ \E s \in strings : s.id = was.string
           /\ settings' = settings \cup {Fittings!Setting(was.string, was.input, r)}
           /\ crossed' = IF \E q \in Requests \ {r} : Fittings!At(q, "looked") /\ edits[q].string = was.string
                         THEN crossed \cup {was.string} ELSE crossed
  <2>1. PICK x : x = Fittings!Setting(was.string, was.input, r)
    OBVIOUS
  <2>2. was.string \in StringIds /\ was.input \in Spans
    BY <1>4 DEF EquipmentInv, StringsHold, StringRows, Edits
  <2>3. x \in ForecastSettings /\ x.string = was.string /\ x.from = was.input.from /\ x.to = was.input.to
    BY <2>1, <2>2 DEF Spans, ForecastSettings, Fittings!Setting
  <2>4. Fittings!ValidPeriod(x) /\ profile = "postgres"
    BY <1>1, <2>3 DEF EditHolds, Fittings!ValidPeriod
  <2>5. \A s \in settings : s.string = x.string /\ Fittings!Overlapping(s, x) => x.string \in crossed
    BY <1>1, <2>3 DEF EditHolds, Fittings!Overlapping
  <2>6. crossed \subseteq crossed'
    BY <1>4
  <2>7. SettingsHold'
    BY <1>2, <1>4, <2>1, <2>3, <2>4, <2>5, <2>6, SettingInserted
  <2>8. RowsHold' /\ StringsHold'
    BY <1>2 DEF EquipmentInv, RowsHold, StringsHold
  <2>9. ASSUME NEW d \in Requests \ {r}, NEW p \in Edits, p = edits[d] PROVE EditHolds(p)'
    <3>1. EditHolds(p)
      BY <2>9 DEF EquipmentInv
    <3>2. p.pc = "looked" /\ p.string = x.string => x.string \in crossed'
      BY <1>4, <2>3, <2>9 DEF Fittings!At
    <3>3. settings' = settings \cup {x}
      BY <1>4, <2>1
    <3> QED BY <1>2, <2>6, <3>1, <3>2, <3>3 DEF EditHolds
  <2>10. edits' = [edits EXCEPT ![r] = Fittings!Idle] /\ date' \in 0 .. LastDate /\ saved' \in 0 .. MaxSaves
    BY <1>2 DEF Fittings!Step, EquipmentInv
  <2> QED BY <1>2, <2>7, <2>8, <2>9, <2>10, IdleEdit, EditMoves
<1> QED BY <1>1, <1>3, <1>4 DEF Fittings!InsertLooked

LEMMA StepEquipment == ASSUME EquipmentConstants, EquipmentInv, [Fittings!Next]_Fittings!vars PROVE EquipmentInv'
<1>1. CASE Fittings!Tick \/ UNCHANGED Fittings!vars
  <2>1. UNCHANGED <<profile, rows, strings, settings, edits, saved, deleted, overwritten, crossed>>
    BY <1>1 DEF Fittings!Tick, Fittings!vars
  <2>2. date' \in 0 .. LastDate /\ saved' \in 0 .. MaxSaves
    BY <1>1 DEF Fittings!Tick, Fittings!vars, EquipmentInv, EquipmentConstants
  <2> QED BY <2>1, <2>2, TablesStay, EditsStay
<1> QED BY <1>1, InverterCreatedStep, InverterFoundStep, InverterReplacedStep, InverterDeletedStep, ListingStep,
           SettingsInsertedStep, OverlapLookedForStep, LookedInsertedStep DEF Fittings!Next

(* Rows, their strings and settings fit together, and what a request still  *)
(* relies on is so or known to be overtaken (pvlog::inverters, its          *)
(* repositories and insert_forecast_settings).                              *)
THEOREM EquipmentInvariant == ASSUME EquipmentConstants PROVE Fittings!Spec => []EquipmentInv
<1>1. Fittings!Init => EquipmentInv
  BY InitEquipment
<1>2. EquipmentInv /\ [Fittings!Next]_Fittings!vars => EquipmentInv'
  BY StepEquipment
<1> QED BY <1>1, <1>2, PTL DEF Fittings!Spec

LEMMA FittingsCount == \A S : Fittings!Cardinality(S) = Cardinality(S)
  BY DEF Fittings!Cardinality, Cardinality

(* A deleted inverter stays deleted, a listing shows one save of each, and  *)
(* one setting of a string is in effect, but for the overtaking the code    *)
(* leaves open (effective_inverters, delete, insert_forecast_settings).     *)
THEOREM EquipmentKept == ASSUME EquipmentConstants PROVE Fittings!Spec => []EquipmentStands
<1>1. ASSUME EquipmentInv PROVE Fittings!TypeOK
  BY <1>1 DEF EquipmentInv, RowsHold, StringsHold, SettingsHold, InverterRows, Fittings!TypeOK
<1>2. ASSUME EquipmentInv PROVE Fittings!DeletedStaysGone /\ Fittings!ListingIsOneSave
  BY <1>2 DEF EquipmentInv, RowsHold, EditHolds, ShowsOneSave, Fittings!DeletedStaysGone, Fittings!ListingIsOneSave
<1>3. ASSUME EquipmentInv, NEW string, string \notin crossed PROVE Fittings!Cardinality(Fittings!EffectiveSettings(string)) <= 1
  <2> DEFINE S == Fittings!EffectiveSettings(string)
  <2>1. ASSUME NEW s \in S, NEW t \in S PROVE s = t
    <3>1. /\ s \in settings /\ t \in settings /\ s.string = string /\ t.string = string
          /\ s.from <= date /\ date < s.to /\ t.from <= date /\ date < t.to
      BY DEF Fittings!EffectiveSettings, Fittings!InEffect
    <3>2. s.from \in Int /\ s.to \in Int /\ t.from \in Int /\ t.to \in Int /\ date \in Int
      BY <1>3, <3>1 DEF EquipmentInv, SettingsHold, ForecastSettings
    <3>3. Fittings!Overlapping(s, t)
      BY <3>1, <3>2 DEF Fittings!Overlapping
    <3> QED BY <1>3, <3>1, <3>3 DEF EquipmentInv, SettingsHold
  <2> HIDE DEF S
  <2>2. S = {} \/ \E s : S = {s}
    BY <2>1
  <2>3. Cardinality(S) <= 1
    <3>1. CASE S = {}
      <4>1. Cardinality(S) = 0
        BY <3>1, FS_EmptySet
      <4> QED BY <4>1
    <3>2. CASE \E s : S = {s}
      <4>1. Cardinality(S) = 1
        BY <3>2, FS_Singleton
      <4> QED BY <4>1
    <3> QED BY <2>2, <3>1, <3>2
  <2> QED BY <2>3, FittingsCount DEF S
<1>4. ASSUME EquipmentInv PROVE Fittings!SettingsAreDisjoint
  BY <1>3, <1>4 DEF EquipmentInv, SettingsHold, Fittings!SettingsAreDisjoint
<1>5. EquipmentInv => EquipmentStands
  BY <1>1, <1>2, <1>4 DEF EquipmentStands
<1> QED BY <1>5, EquipmentInvariant, PTL

-----------------------------------------------------------------------------
(* What an account has stored stays, whichever two calls provision and     *)
(* deprovision it at a time, and however often they die, fail or outlive   *)
(* their leases (module AccountProvisioning).                              *)

TwoProcs == \A p, q, r \in Procs : p = q \/ q = r \/ p = r

ToFinal == {"creating", "migrating", "open", "migrate", "bind", "verifying", "verify", "collision", "rename"}
Vacating == {"vacancy", "moveOut"}

(* Steps from which a call neither makes a file nor makes the account one   *)
(* that can be provisioned, as long as its lifecycle is unsafe.             *)
Harmless == {"idle", "save", "reserve", "audit", "failed"} \cup Account!DeprovisionStep

CallsTyped == proc \in [Procs -> [pc : Account!Step, seen : Account!Lifecycle]] /\ accountLifecycle \in Account!Lifecycle

(* Once a file is at the active path, whoever is about to rename finds      *)
(* nothing to rename: nobody begins another file.                           *)
RenamesNothing(p) ==
  proc[p].pc = "rename" /\ final # "none" =>
    temp = "none" /\ \A q \in Procs \ {p} : proc[q].pc \in ToFinal => proc[q].pc = "rename"

(* Whoever is about to move the active file to a quarantine that has been   *)
(* filled since they looked finds none, and nobody makes one.               *)
MovesNothing(p) ==
  proc[p].pc = "moveOut" /\ quarantine # "none" =>
    /\ final = "none" /\ accountLifecycle \in Account!Unsafe
    /\ \A q \in Procs \ {p} : proc[q].pc \in Harmless

BothVacate ==
  \A p, q \in Procs : p # q /\ proc[p].pc \in Vacating /\ proc[q].pc \in Vacating => accountLifecycle \in Account!Unsafe

DataInv == CallsTyped /\ BothVacate /\ \A p \in Procs : RenamesNothing(p) /\ MovesNothing(p)

LEMMA InitData == Account!Init \/ AtWork => DataInv
BY DEF Account!Init, AtWork, Account!Idle, Account!Lifecycle, Account!Step, DataInv, CallsTyped, BothVacate,
       RenamesNothing, MovesNothing, Vacating

(* Only p goes on.                                                          *)
Proceeds(p) ==
  /\ proc' \in [Procs -> [pc : Account!Step, seen : Account!Lifecycle]]
  /\ \A q \in Procs \ {p} : proc'[q] = proc[q]

LEMMA Goes ==
  ASSUME DataInv, NEW p \in Procs, NEW pc \in Account!Step, Account!Goto(p, pc)
  PROVE  Proceeds(p) /\ proc'[p].pc = pc
BY DEF Account!Goto, DataInv, CallsTyped, Proceeds

LEMMA Ends ==
  ASSUME DataInv, NEW p \in Procs, Account!Done(p)
  PROVE  Proceeds(p) /\ proc'[p].pc = "idle"
<1>1. Account!Idle \in [pc : Account!Step, seen : Account!Lifecycle] /\ Account!Idle.pc = "idle"
  BY DEF Account!Idle, Account!Step, Account!Lifecycle
<1>2. QED
  BY <1>1 DEF Account!Done, DataInv, CallsTyped, Proceeds

(* A step of a call that moves no file but its temporary one.               *)
LEMMA DataKeptBy ==
  ASSUME DataInv, TwoProcs, NEW p \in Procs, Proceeds(p), UNCHANGED <<final, quarantine>>,
         accountLifecycle' \in Account!Lifecycle,
         \* a temporary file is made only on the way to a new one,
         temp' = temp \/ proc[p].pc \in ToFinal \ {"rename"},
         \* which begins, and is renamed, where there is none,
         proc'[p].pc \in ToFinal => final = "none" \/ (proc[p].pc \in ToFinal \ {"rename"} /\ proc'[p].pc # "rename"),
         \* an unsafe account stays so but for calls under way,
         accountLifecycle \in Account!Unsafe /\ proc[p].pc \in Harmless =>
           accountLifecycle' \in Account!Unsafe /\ proc'[p].pc \in Harmless,
         \* and a file is moved out from a safe place to an empty one.
         proc'[p].pc = "moveOut" => proc[p].pc = "vacancy" /\ quarantine = "none" /\ accountLifecycle' = accountLifecycle,
         proc'[p].pc = "vacancy" => accountLifecycle' \in Account!Unsafe
  PROVE  DataInv'
<1>1. CallsTyped'
  BY DEF Proceeds, CallsTyped
<1>2. BothVacate'
  <2> SUFFICES ASSUME NEW q \in Procs, NEW r \in Procs, q # r, proc'[q].pc \in Vacating, proc'[r].pc \in Vacating
               PROVE  accountLifecycle' \in Account!Unsafe
    BY DEF BothVacate
  <2>1. PICK o \in {q, r} : o # p
    OBVIOUS
  <2>2. proc'[p].pc \in Vacating /\ proc[o].pc \in Vacating
    BY <2>1 DEF TwoProcs, Proceeds
  <2>3. CASE proc'[p].pc = "vacancy"
    BY <2>3
  <2>4. CASE proc'[p].pc = "moveOut"
    BY <2>1, <2>2, <2>4 DEF BothVacate, DataInv, Vacating
  <2>5. QED
    BY <2>2, <2>3, <2>4 DEF Vacating
<1>3. ASSUME NEW q \in Procs
      PROVE  RenamesNothing(q)'
  <2>1. CASE q = p
    BY <2>1 DEF RenamesNothing, DataInv, Proceeds, ToFinal
  <2>2. CASE q # p
    <3>1. proc'[q] = proc[q] /\ RenamesNothing(q)
      BY <2>2 DEF Proceeds, DataInv
    <3>2. ASSUME proc[q].pc = "rename", final # "none"
          PROVE  temp' = "none" /\ \A r \in Procs \ {q} : proc'[r].pc \in ToFinal => proc'[r].pc = "rename"
      <4>1. temp = "none" /\ \A r \in Procs \ {q} : proc[r].pc \in ToFinal => proc[r].pc = "rename"
        BY <3>1, <3>2 DEF RenamesNothing
      <4>2. proc[p].pc \notin ToFinal \ {"rename"}
        BY <2>2, <4>1
      <4>3. temp' = "none" /\ proc'[p].pc \notin ToFinal
        BY <3>2, <4>1, <4>2
      <4>4. QED
        BY <4>1, <4>3 DEF Proceeds
    <3>3. QED
      BY <3>1, <3>2 DEF RenamesNothing
  <2>3. QED
    BY <2>1, <2>2
<1>4. ASSUME NEW q \in Procs
      PROVE  MovesNothing(q)'
  <2>1. CASE q = p
    BY <2>1 DEF MovesNothing
  <2>2. CASE q # p
    <3>1. proc'[q] = proc[q] /\ MovesNothing(q)
      BY <2>2 DEF Proceeds, DataInv
    <3>2. ASSUME proc[q].pc = "moveOut", quarantine # "none"
          PROVE  /\ final = "none" /\ accountLifecycle' \in Account!Unsafe
                 /\ \A r \in Procs \ {q} : proc'[r].pc \in Harmless
      <4>1. final = "none" /\ accountLifecycle \in Account!Unsafe /\ \A r \in Procs \ {q} : proc[r].pc \in Harmless
        BY <3>1, <3>2 DEF MovesNothing
      <4>2. accountLifecycle' \in Account!Unsafe /\ proc'[p].pc \in Harmless
        BY <2>2, <4>1
      <4>3. QED
        BY <4>1, <4>2 DEF Proceeds
    <3>3. QED
      BY <3>1, <3>2 DEF MovesNothing
  <2>3. QED
    BY <2>1, <2>2
<1>5. QED
  BY <1>1, <1>2, <1>3, <1>4 DEF DataInv

(* What a step does not do to the active file and to the quarantine.        *)
Untouched == UNCHANGED <<final, quarantine>>

LEMMA StepsOfPlan == Account!ProvisionStep \cup Account!DeprovisionStep \cup {"idle", "save", "audit", "failed"} \subseteq Account!Step
BY DEF Account!Step

(* Steps that change neither the account's rows nor a file.                 *)
LEMMA DataUntouched ==
  ASSUME DataInv, TwoProcs, NEW p \in Procs, Proceeds(p), Untouched, UNCHANGED <<temp, accountLifecycle>>,
         proc'[p].pc \notin ToFinal \cup Vacating,
         accountLifecycle \in Account!Unsafe /\ proc[p].pc \in Harmless => proc'[p].pc \in Harmless
  PROVE  DataInv'
BY DataKeptBy DEF Untouched, DataInv, CallsTyped, Vacating

LEMMA DataThroughBegin ==
  ASSUME DataInv, TwoProcs, NEW p \in Procs,
         Account!Bootstrap(p) \/ Account!BeginDeprovision(p) \/ Account!Reconcile(p)
  PROVE  DataInv' /\ Untouched
<1>1. Untouched /\ UNCHANGED <<temp, accountLifecycle>>
  BY DEF Account!Bootstrap, Account!BeginDeprovision, Account!Reconcile, Account!catalog, Account!files, Untouched
<1>2. PICK pc \in {"save", "find", "audit", "reserve"} : Proceeds(p) /\ proc'[p].pc = pc
  <2>1. CASE Account!Bootstrap(p)
    BY <2>1, Goes, StepsOfPlan DEF Account!Bootstrap
  <2>2. CASE Account!BeginDeprovision(p)
    BY <2>2 DEF Account!BeginDeprovision, Proceeds, DataInv, CallsTyped, Account!Step, Account!DeprovisionStep
  <2>3. CASE Account!Reconcile(p)
    <3>1. PICK pc \in {"find", "audit", "reserve"} : proc' = [proc EXCEPT ![p] = [seen |-> accountLifecycle, pc |-> pc]]
      <4>1. CASE accountLifecycle = "active"
        BY <2>3, <4>1 DEF Account!Reconcile
      <4>2. CASE accountLifecycle = "deleting"
        BY <2>3, <4>2 DEF Account!Reconcile
      <4>3. CASE accountLifecycle \notin {"active", "deleting"}
        BY <2>3, <4>3 DEF Account!Reconcile
      <4>4. QED
        BY <4>1, <4>2, <4>3
    <3>2. QED
      BY <3>1, StepsOfPlan DEF Proceeds, DataInv, CallsTyped, Account!DeprovisionStep, Account!ProvisionStep
  <2>4. QED
    BY <2>1, <2>2, <2>3
<1>3. proc'[p].pc \in Harmless /\ proc'[p].pc \notin ToFinal \cup Vacating
  BY <1>2 DEF Harmless, ToFinal, Vacating, Account!DeprovisionStep
<1>4. QED
  BY <1>1, <1>2, <1>3, DataUntouched

LEMMA DataThroughStop ==
  ASSUME DataInv, TwoProcs, NEW p \in Procs,
         Account!Crash(p) \/ Account!Fail(p) \/ Account!LeaseHeld(p) \/ Account!Audit(p)
  PROVE  DataInv' /\ Untouched
<1>1. Untouched /\ UNCHANGED <<temp, accountLifecycle>>
  BY DEF Account!Crash, Account!Fail, Account!LeaseHeld, Account!Audit, Account!catalog, Account!files, Untouched
<1>2. Account!Done(p) \/ Account!Goto(p, "failed")
  BY DEF Account!Crash, Account!Fail, Account!LeaseHeld, Account!Audit
<1>3. Proceeds(p) /\ proc'[p].pc \in {"idle", "failed"}
  BY <1>2, Ends, Goes, StepsOfPlan
<1>4. QED
  BY <1>1, <1>3, DataUntouched DEF Harmless, ToFinal, Vacating

(* The transactions on the account's rows that end a call, and those before *)
(* any file is looked at.                                                   *)
LEMMA DataThroughRows ==
  ASSUME DataInv, TwoProcs, NEW p \in Procs,
         Account!SaveAccount(p) \/ Account!AcquireLease(p) \/ Account!Activate(p) \/ Account!MarkUnavailable(p)
  PROVE  DataInv' /\ Untouched
<1>1. Untouched /\ UNCHANGED temp
  BY DEF Account!SaveAccount, Account!AcquireLease, Account!Activate, Account!MarkUnavailable, Account!files, Untouched
<1>2. Account!Goto(p, "reserve") \/ Account!Goto(p, "locate") \/ Account!Done(p)
  BY DEF Account!SaveAccount, Account!AcquireLease, Account!Activate, Account!MarkUnavailable
<1>3. Proceeds(p) /\ proc'[p].pc \in {"reserve", "locate", "idle"}
  BY <1>2, Ends, Goes, StepsOfPlan DEF Account!ProvisionStep
<1>4. CASE Account!SaveAccount(p) \/ Account!AcquireLease(p)
  <2>1. UNCHANGED accountLifecycle /\ (proc[p].pc \in Harmless => proc'[p].pc = "reserve")
    BY <1>4, <1>3, Goes, StepsOfPlan DEF Account!SaveAccount, Account!AcquireLease, Account!At, Harmless, Account!DeprovisionStep, Account!ProvisionStep
  <2>2. QED
    BY <1>1, <1>3, <2>1, DataUntouched DEF Harmless, ToFinal, Vacating
<1>5. CASE Account!Activate(p) \/ Account!MarkUnavailable(p)
  <2>1. /\ proc'[p].pc = "idle" /\ accountLifecycle' \in Account!Lifecycle
        /\ accountLifecycle \in Account!Unsafe /\ proc[p].pc \in Harmless => accountLifecycle' \in Account!Unsafe
    BY <1>5, Ends DEF Account!Activate, Account!MarkUnavailable, Account!At, Account!Lifecycle, Account!Unsafe, Harmless, Account!DeprovisionStep
  <2>2. QED
    BY <1>1, <1>3, <2>1, DataKeptBy DEF Harmless, ToFinal, Untouched
<1>6. QED
  BY <1>4, <1>5

LEMMA DataThroughReserve ==
  ASSUME DataInv, TwoProcs, NEW p \in Procs, Account!Reserve(p)
  PROVE  DataInv' /\ Untouched
<1>1. Untouched /\ UNCHANGED temp /\ accountLifecycle' \in Account!Lifecycle
  BY DEF Account!Reserve, Account!files, Untouched, DataInv, CallsTyped, Account!Lifecycle, Account!InFlight
<1>2. accountLifecycle \in Account!Unsafe => accountLifecycle' = accountLifecycle
  BY DEF Account!Reserve, Account!Unsafe
<1>3. PICK pc \in {"locate", "failed", "acquire"} :
        /\ proc' = [proc EXCEPT ![p] = [seen |-> accountLifecycle', pc |-> pc]]
        /\ accountLifecycle' \in Account!Unsafe => pc = "failed"
  <2>1. CASE accountLifecycle' = "active"
    BY <2>1 DEF Account!Reserve, Account!Unsafe
  <2>2. CASE accountLifecycle' \in Account!Unsafe
    BY <2>2 DEF Account!Reserve, Account!Unsafe
  <2>3. CASE accountLifecycle' # "active" /\ accountLifecycle' \notin Account!Unsafe
    BY <2>3 DEF Account!Reserve
  <2>4. QED
    BY <2>1, <2>2, <2>3
<1>4. Proceeds(p) /\ proc'[p].pc = pc
  BY <1>1, <1>3, StepsOfPlan DEF Proceeds, DataInv, CallsTyped, Account!ProvisionStep
<1>5. QED
  BY <1>1, <1>2, <1>3, <1>4, DataKeptBy DEF Harmless, ToFinal, Untouched

(* The steps of a provisioning between its rows and the rename.             *)
LEMMA DataThroughBuild ==
  ASSUME DataInv, TwoProcs, NEW p \in Procs,
         \/ Account!LocateFinal(p) \/ Account!VerifyFinal(p)
         \/ Account!SetPhase(p, "creating", "migrating") \/ Account!SetPhase(p, "migrating", "open")
         \/ Account!OpenTemporary(p) \/ Account!Migrate(p) \/ Account!Bind(p)
         \/ Account!SetPhase(p, "verifying", "verify") \/ Account!VerifyTemporary(p)
         \/ Account!CheckCollision(p)
  PROVE  DataInv' /\ Untouched
<1>1. /\ Untouched /\ accountLifecycle' \in Account!Lifecycle /\ proc[p].pc \notin Harmless
      /\ temp' = temp \/ proc[p].pc \in ToFinal \ {"rename"}
  BY DEF Account!LocateFinal, Account!VerifyFinal, Account!SetPhase, Account!OpenTemporary, Account!Migrate, Account!Bind,
         Account!VerifyTemporary, Account!CheckCollision, Account!At, Account!catalog, Account!files, Untouched,
         DataInv, CallsTyped, Account!Lifecycle, Account!InFlight, Harmless, Account!DeprovisionStep, ToFinal
<1>2. \/ \E pc \in {"verifyFinal", "failed", "activate"} : Account!Goto(p, pc)
      \/ Account!Done(p)
      \/ \E pc \in {"creating", "rename"} : final = "none" /\ Account!Goto(p, pc)
      \/ \E pc \in ToFinal \ {"rename"} : proc[p].pc \in ToFinal \ {"rename"} /\ Account!Goto(p, pc)
  <2>1. CASE Account!LocateFinal(p)
    BY <2>1 DEF Account!LocateFinal
  <2>2. CASE Account!VerifyFinal(p)
    BY <2>2 DEF Account!VerifyFinal
  <2>3. CASE \/ Account!SetPhase(p, "creating", "migrating") \/ Account!SetPhase(p, "migrating", "open")
             \/ Account!SetPhase(p, "verifying", "verify")
    BY <2>3 DEF Account!SetPhase, Account!At, ToFinal
  <2>4. CASE Account!OpenTemporary(p) \/ Account!Migrate(p) \/ Account!Bind(p) \/ Account!VerifyTemporary(p)
    BY <2>4 DEF Account!OpenTemporary, Account!Migrate, Account!Bind, Account!VerifyTemporary, Account!At, ToFinal
  <2>5. CASE Account!CheckCollision(p)
    BY <2>5 DEF Account!CheckCollision
  <2>6. QED
    BY <2>1, <2>2, <2>3, <2>4, <2>5
<1>3. ToFinal \cup {"verifyFinal", "failed", "activate"} \subseteq Account!Step
  BY StepsOfPlan DEF ToFinal, Account!ProvisionStep
<1>4. /\ Proceeds(p) /\ proc'[p].pc \notin Vacating
      /\ proc'[p].pc \in ToFinal => final = "none" \/ (proc[p].pc \in ToFinal \ {"rename"} /\ proc'[p].pc # "rename")
  <2>1. CASE \E pc \in {"verifyFinal", "failed", "activate"} : Account!Goto(p, pc)
    BY <1>3, <2>1, Goes DEF ToFinal, Vacating
  <2>2. CASE Account!Done(p)
    BY <2>2, Ends DEF ToFinal, Vacating
  <2>3. CASE \E pc \in {"creating", "rename"} : final = "none" /\ Account!Goto(p, pc)
    BY <1>3, <2>3, Goes DEF ToFinal, Vacating
  <2>4. CASE \E pc \in ToFinal \ {"rename"} : proc[p].pc \in ToFinal \ {"rename"} /\ Account!Goto(p, pc)
    BY <1>3, <2>4, Goes DEF ToFinal, Vacating
  <2>5. QED
    BY <1>2, <2>1, <2>2, <2>3, <2>4
<1>5. QED
  BY <1>1, <1>4, DataKeptBy DEF Vacating, Untouched

(* Whoever renames replaces no file, or finds none of their own.            *)
LEMMA DataThroughRename ==
  ASSUME DataInv, TwoProcs, NEW p \in Procs, Account!RenameToFinal(p)
  PROVE  /\ DataInv'
         /\ UNCHANGED quarantine /\ (final # "none" => final' = final)
<1>1. UNCHANGED <<accountLifecycle, quarantine>> /\ proc[p].pc = "rename"
  BY DEF Account!RenameToFinal, Account!catalog, Account!files, Account!At
<1>2. {"activate", "failed"} \subseteq Account!Step
  BY StepsOfPlan DEF Account!ProvisionStep
<1>3. CASE temp = "none"
  <2>1. Untouched /\ UNCHANGED temp /\ Account!Goto(p, "failed")
    BY <1>3 DEF Account!RenameToFinal, Account!files, Untouched
  <2>2. Proceeds(p) /\ proc'[p].pc = "failed"
    BY <1>2, <2>1, Goes
  <2>3. DataInv'
    BY <1>1, <2>1, <2>2, DataUntouched DEF ToFinal, Vacating, Harmless, Account!DeprovisionStep
  <2>4. QED
    BY <1>1, <2>1, <2>3 DEF Untouched
<1>4. CASE temp # "none"
  <2>1. final = "none"
    BY <1>1, <1>4 DEF DataInv, RenamesNothing
  <2>2. temp' = "none" /\ Account!Goto(p, "activate")
    BY <1>4 DEF Account!RenameToFinal
  <2>3. Proceeds(p) /\ proc'[p].pc = "activate"
    BY <1>2, <2>2, Goes
  <2>4. CallsTyped'
    BY <1>1, <2>3 DEF Proceeds, CallsTyped, DataInv
  <2>5. BothVacate'
    BY <1>1, <2>3 DEF BothVacate, DataInv, Proceeds, Vacating
  <2>6. ASSUME NEW q \in Procs
        PROVE  RenamesNothing(q)'
    <3>1. \A r \in Procs \ {q} : proc'[q].pc = "rename" => r = p
      BY <2>3 DEF TwoProcs
    <3>2. QED
      BY <2>2, <2>3, <3>1 DEF RenamesNothing, ToFinal
  <2>7. ASSUME NEW q \in Procs
        PROVE  MovesNothing(q)'
    <3>1. CASE q = p
      BY <2>3, <3>1 DEF MovesNothing
    <3>2. CASE q # p
      <4>1. proc[q].pc = "moveOut" => quarantine = "none"
        BY <1>1, <3>2 DEF DataInv, MovesNothing, Harmless, Account!DeprovisionStep
      <4>2. QED
        BY <1>1, <2>3, <3>2, <4>1 DEF Proceeds, MovesNothing
    <3>3. QED
      BY <3>1, <3>2
  <2>8. QED
    BY <1>1, <2>1, <2>4, <2>5, <2>6, <2>7 DEF DataInv
<1>5. QED
  BY <1>3, <1>4

(* What happens to the files in any one step.                               *)
FilesSurvive ==
  /\ final = "used" => "used" \in {final', quarantine'}
  /\ quarantine = "used" => quarantine' = "used" /\ (final = "used" => final' = "used")

LEMMA DataThroughDeprovision ==
  ASSUME DataInv, TwoProcs, NEW p \in Procs,
         Account!FindFiles(p) \/ Account!SetDeleting(p) \/ Account!CheckVacancy(p) \/ Account!SetQuarantined(p)
  PROVE  DataInv' /\ Untouched
<1>1. /\ Untouched /\ UNCHANGED temp /\ accountLifecycle' \in Account!Lifecycle
      /\ accountLifecycle \in Account!Unsafe => accountLifecycle' \in Account!Unsafe
  BY DEF Account!FindFiles, Account!SetDeleting, Account!CheckVacancy, Account!SetQuarantined, Account!catalog, Account!files,
         Untouched, DataInv, CallsTyped, Account!Lifecycle, Account!Unsafe
<1>2. Account!DeprovisionStep \cup {"failed"} \subseteq Account!Step \cap Harmless
  BY StepsOfPlan DEF Harmless
<1>3. CASE Account!FindFiles(p)
  <2>1. Account!Done(p) \/ \E pc \in {"deleting", "quarantined", "failed"} : Account!Goto(p, pc)
    BY <1>3 DEF Account!FindFiles
  <2>2. Proceeds(p) /\ proc'[p].pc \in {"idle", "deleting", "quarantined", "failed"}
    BY <1>2, <2>1, Ends, Goes DEF Account!DeprovisionStep
  <2>3. QED
    BY <1>1, <2>2, DataKeptBy DEF Harmless, ToFinal, Account!DeprovisionStep, Untouched
<1>4. CASE Account!SetDeleting(p)
  <2>1. Proceeds(p) /\ proc'[p].pc = "vacancy" /\ accountLifecycle' \in Account!Unsafe
    BY <1>2, <1>4, Goes DEF Account!SetDeleting, Account!DeprovisionStep, Account!Unsafe
  <2>2. QED
    BY <1>1, <2>1, DataKeptBy DEF Harmless, ToFinal, Account!DeprovisionStep, Untouched
<1>5. CASE Account!CheckVacancy(p)
  <2>1. UNCHANGED accountLifecycle /\ proc[p].pc = "vacancy"
    BY <1>5 DEF Account!CheckVacancy, Account!catalog, Account!At
  <2>2. (quarantine = "none" /\ Account!Goto(p, "moveOut")) \/ Account!Done(p)
    BY <1>5 DEF Account!CheckVacancy
  <2>3. Proceeds(p) /\ (proc'[p].pc = "idle" \/ (quarantine = "none" /\ proc'[p].pc = "moveOut"))
    BY <1>2, <2>2, Ends, Goes DEF Account!DeprovisionStep
  <2>4. QED
    BY <1>1, <2>1, <2>3, DataKeptBy DEF Harmless, ToFinal, Account!DeprovisionStep, Untouched
<1>6. CASE Account!SetQuarantined(p)
  <2>1. Proceeds(p) /\ proc'[p].pc = "idle"
    BY <1>6, Ends DEF Account!SetQuarantined
  <2>2. QED
    BY <1>1, <2>1, DataKeptBy DEF Harmless, ToFinal, Untouched
<1>7. QED
  BY <1>3, <1>4, <1>5, <1>6

(* Whoever moves a file out replaces none.                                  *)
LEMMA DataThroughMove ==
  ASSUME DataInv, TwoProcs, NEW p \in Procs, Account!MoveOut(p)
  PROVE  DataInv' /\ FilesSurvive
<1>1. UNCHANGED accountLifecycle /\ proc[p].pc = "moveOut"
  BY DEF Account!MoveOut, Account!catalog, Account!At
<1>2. CASE final = "none"
  <2>1. Untouched /\ UNCHANGED temp /\ Proceeds(p) /\ proc'[p].pc = "idle"
    BY <1>2, Ends DEF Account!MoveOut, Account!files, Untouched
  <2>2. QED
    BY <1>1, <2>1, DataUntouched DEF ToFinal, Vacating, Harmless, Untouched, FilesSurvive
<1>3. CASE final # "none"
  <2>1. quarantine = "none"
    BY <1>1, <1>3 DEF DataInv, MovesNothing
  <2>2. quarantine' = final /\ final' = "none" /\ UNCHANGED temp /\ Account!Goto(p, "quarantined")
    BY <1>3 DEF Account!MoveOut
  <2>3. Proceeds(p) /\ proc'[p].pc = "quarantined"
    BY <2>2, Goes, StepsOfPlan DEF Account!DeprovisionStep
  <2>4. CallsTyped'
    BY <1>1, <2>3 DEF Proceeds, CallsTyped, DataInv
  <2>5. BothVacate'
    BY <1>1, <2>3 DEF BothVacate, DataInv, Proceeds, Vacating
  <2>6. \A q \in Procs : RenamesNothing(q)'
    BY <2>2 DEF RenamesNothing
  <2>7. ASSUME NEW q \in Procs
        PROVE  MovesNothing(q)'
    <3>1. CASE q = p
      BY <2>3, <3>1 DEF MovesNothing
    <3>2. CASE q # p
      <4>1. proc[q].pc = "moveOut" => accountLifecycle \in Account!Unsafe
        BY <1>1, <3>2 DEF DataInv, BothVacate, Vacating
      <4>2. \A r \in Procs \ {q} : r = p
        BY <3>2 DEF TwoProcs
      <4>3. QED
        BY <1>1, <2>2, <2>3, <3>2, <4>1, <4>2 DEF Proceeds, MovesNothing, Harmless, Account!DeprovisionStep
    <3>3. QED
      BY <3>1, <3>2
  <2>8. QED
    BY <2>1, <2>2, <2>4, <2>5, <2>6, <2>7 DEF DataInv, FilesSurvive
<1>4. QED
  BY <1>2, <1>3

(* The account writes, or a lease lapses.                                   *)
LEMMA DataThroughTime ==
  ASSUME DataInv, Account!Write \/ Account!LeaseLapses \/ Account!DbLeaseLapses
  PROVE  DataInv' /\ FilesSurvive
<1>1. /\ UNCHANGED <<accountLifecycle, temp, quarantine, proc>>
      /\ final' = final \/ (final = "bound" /\ final' = "used")
  BY DEF Account!Write, Account!LeaseLapses, Account!DbLeaseLapses, Account!catalog, Account!files
<1>2. final' # "none" <=> final # "none"
  BY <1>1
<1>3. \A q \in Procs : RenamesNothing(q)' /\ MovesNothing(q)'
  BY <1>1, <1>2 DEF DataInv, RenamesNothing, MovesNothing
<1>4. QED
  BY <1>1, <1>3 DEF DataInv, CallsTyped, BothVacate, FilesSurvive

LEMMA DataStep ==
  ASSUME TwoProcs, DataInv, Account!Next
  PROVE  DataInv' /\ FilesSurvive
<1>1. Untouched => FilesSurvive
  BY DEF Untouched, FilesSurvive
<1>2. ASSUME NEW p \in Procs, Account!Provision(p)
      PROVE  DataInv' /\ FilesSurvive
  <2>1. CASE Account!Reserve(p)
    BY <1>1, <2>1, DataThroughReserve
  <2>2. CASE Account!AcquireLease(p) \/ Account!Activate(p)
    BY <1>1, <2>2, DataThroughRows
  <2>3. CASE Account!LeaseHeld(p)
    BY <1>1, <2>3, DataThroughStop
  <2>4. CASE Account!RenameToFinal(p)
    BY <2>4, DataThroughRename DEF FilesSurvive
  <2>5. QED
    BY <1>1, <1>2, <2>1, <2>2, <2>3, <2>4, DataThroughBuild DEF Account!Provision
<1>3. ASSUME NEW p \in Procs, Account!Deprovision(p)
      PROVE  DataInv' /\ FilesSurvive
  BY <1>1, <1>3, DataThroughDeprovision, DataThroughMove DEF Account!Deprovision
<1>4. ASSUME NEW p \in Procs, Account!Proceed(p)
      PROVE  DataInv' /\ FilesSurvive
  <2>1. CASE Account!SaveAccount(p) \/ Account!MarkUnavailable(p)
    BY <1>1, <2>1, DataThroughRows
  <2>2. CASE Account!Audit(p)
    BY <1>1, <2>2, DataThroughStop
  <2>3. QED
    BY <1>2, <1>3, <1>4, <2>1, <2>2 DEF Account!Proceed
<1>5. ASSUME NEW p \in Procs, Account!Bootstrap(p) \/ Account!BeginDeprovision(p) \/ Account!Reconcile(p)
      PROVE  DataInv' /\ FilesSurvive
  BY <1>1, <1>5, DataThroughBegin
<1>6. ASSUME NEW p \in Procs, Account!Crash(p) \/ Account!Fail(p)
      PROVE  DataInv' /\ FilesSurvive
  BY <1>1, <1>6, DataThroughStop
<1>7. QED
  BY <1>4, <1>5, <1>6, DataThroughTime DEF Account!Next

(* An account's own life, from its beginning or from when it has worked.    *)
AccountLife == (Account!Init \/ AtWork) /\ [][Account!Next]_Account!vars

(* With two calls at a time there is nothing to replace where a file is     *)
(* about to go (SqliteAccountProvisioner::provision, deprovision).          *)
THEOREM DataInvariant == ASSUME TwoProcs PROVE AccountLife => []DataInv
<1>1. DataInv /\ [Account!Next]_Account!vars => DataInv'
  <2>1. CASE UNCHANGED Account!vars
    BY <2>1 DEF Account!vars, DataInv, CallsTyped, BothVacate, RenamesNothing, MovesNothing
  <2>2. QED
    BY <2>1, DataStep
<1>2. QED
  BY <1>1, InitData, PTL DEF AccountLife

(* What an account has stored is never overwritten, dropped or moved        *)
(* anywhere but to an empty place in quarantine, although both calls may    *)
(* be slower than their leases and both may deprovision.                    *)
THEOREM DataKept == ASSUME TwoProcs PROVE AccountLife => DataSurvives
<1>1. DataInv /\ [Account!Next]_Account!vars => [FilesSurvive]_Account!vars
  BY DataStep
<1>2. AccountLife => [][FilesSurvive]_Account!vars
  BY <1>1, DataInvariant, PTL DEF AccountLife
<1>3. QED
  BY <1>2 DEF FilesSurvive, DataSurvives, Account!DataSurvives
=============================================================================
