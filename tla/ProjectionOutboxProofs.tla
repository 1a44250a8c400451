----------------------- MODULE ProjectionOutboxProofs -----------------------
(***************************************************************************)
(* Events take effect once and in order, none is ever refused, and what is *)
(* shown follows the account, for any systems, requests, reconciliations,  *)
(* connections and batch size.                                             *)
(***************************************************************************)
EXTENDS ProjectionOutbox, SequenceTheorems, TLAPS

Reservation == [system : Systems, resolved : Nat]
Shown == [shows : Visibility \cup {Nothing}, seq : Nat]
Call == [reservation : Nat, target : Visibility]
Work == [pc : {"idle", "record", "position", "repair", "fetch", "apply", "mark"}, at : Nat, last : Nat]

-----------------------------------------------------------------------------
(* The inductive invariant.                                                *)

Typed ==
  /\ visibility \in [Systems -> Visibility]
  /\ outbox \in Seq(Event)
  /\ reservations \in Seq(Reservation) /\ Len(reservations) <= MaxReservations
  /\ row \in [Systems -> Shown]
  /\ caller \in [Callers -> Call]
  /\ task \in [Reconcilers -> Work]

(* The inbox holds the events applied so far, and only those are marked.   *)
Applied ==
  /\ applied \in 0..Len(outbox)
  /\ inbox = 1..applied
  /\ delivered \subseteq 1..applied

(* Nothing follows event n that is of the same system.                     *)
IsLast(n, events) == \A m \in events : m > n => outbox[m].system # outbox[n].system

(* The account's state is what the last event of a system says.            *)
Told ==
  \A n \in DOMAIN outbox : IsLast(n, DOMAIN outbox) => visibility[outbox[n].system] = outbox[n].shows

(* A row is what the last applied event of its system says.                *)
Follows(s) ==
  /\ row[s].seq \in 1..applied
  /\ outbox[row[s].seq].system = s
  /\ outbox[row[s].seq].shows = row[s].shows
  /\ IsLast(row[s].seq, 1..applied)
RowsFollow == \A s \in Systems : row[s] = NoRow \/ Follows(s)

(* Where a reconciliation is in the outbox.                                *)
Placed(t) ==
  /\ t.pc \in {"repair", "fetch"} => t.at <= applied
  /\ t.pc = "apply" => t.at \in 1..(applied + 1) /\ t.at <= t.last /\ t.last <= Len(outbox)
  /\ t.pc = "mark" => t.at \in 1..applied /\ t.at <= t.last /\ t.last <= Len(outbox)
Positions == \A r \in Reconcilers : Placed(task[r])

(* A reservation is of one request, or of the one event that came of it,   *)
(* and resolved when that event was applied.                               *)
Names(n, i) == outbox[n].reservation = i
Pending(c) == caller[c] # NoCall
Claims ==
  /\ \A c \in Callers : Pending(c) =>
       /\ caller[c].reservation \in DOMAIN reservations
       /\ \A n \in DOMAIN outbox : ~Names(n, caller[c].reservation)
  /\ \A c, d \in Callers : Pending(c) /\ Pending(d) /\ caller[c].reservation = caller[d].reservation => c = d
Uses ==
  /\ \A n \in DOMAIN outbox : ~Names(n, 0) => outbox[n].reservation \in DOMAIN reservations
  /\ \A n, m \in DOMAIN outbox : ~Names(n, 0) /\ outbox[n].reservation = outbox[m].reservation => n = m
  /\ \A n \in DOMAIN outbox : outbox[n].effect = "reduces" =>
       ~Names(n, 0) /\ reservations[outbox[n].reservation].system = outbox[n].system
Resolved ==
  \A i \in DOMAIN reservations : reservations[i].resolved # 0 => \E n \in 1..applied : Names(n, i)

OutboxInv == Typed /\ Applied /\ Told /\ RowsFollow /\ Positions /\ Claims /\ Uses /\ Resolved

-----------------------------------------------------------------------------
(* Sequences. *)

LEMMA Positions1 ==
  ASSUME NEW S, NEW s \in Seq(S)
  PROVE  /\ DOMAIN s = 1..Len(s) /\ Len(s) \in Nat
         /\ \A n \in DOMAIN s : s[n] \in S
  BY LenProperties, ElementOfSeq

(* Appending adds one position and leaves the others alone. *)
LEMMA Appended ==
  ASSUME NEW S, NEW s \in Seq(S), NEW e \in S
  PROVE  /\ Append(s, e) \in Seq(S)
         /\ Len(Append(s, e)) = Len(s) + 1
         /\ DOMAIN Append(s, e) = 1..(Len(s) + 1)
         /\ \A i \in DOMAIN s : Append(s, e)[i] = s[i]
         /\ Append(s, e)[Len(s) + 1] = e
<1>1. DOMAIN s = 1..Len(s) /\ Len(s) \in Nat
  BY LenProperties
<1>2. Append(s, e) \in Seq(S) /\ Len(Append(s, e)) = Len(s) + 1
  OBVIOUS
<1>3. DOMAIN Append(s, e) = 1..(Len(s) + 1)
  BY <1>2, LenProperties
<1>4. \A i \in 1..Len(s) : Append(s, e)[i] = s[i]
  BY <1>1
<1>5. Append(s, e)[Len(s) + 1] = e
  BY <1>1
<1> QED BY <1>1, <1>2, <1>3, <1>4, <1>5

(* What a system can be. *)
LEMMA Visibilities == Visibility = {"private", "unlisted", "public"}
  BY DEF Visibility, Rank

(* The smaller of two numbers. *)
LEMMA MinOfTwo ==
  ASSUME NEW a \in Nat, NEW b \in Nat
  PROVE  Min({a, b}) \in {a, b} /\ Min({a, b}) <= a /\ Min({a, b}) <= b
<1>1. \E x \in {a, b} : \A y \in {a, b} : x <= y
  OBVIOUS
<1> QED BY <1>1 DEF Min

-----------------------------------------------------------------------------
(* Initially nothing is committed, shown or under way. *)
LEMMA InitOutbox == Init => OutboxInv
<1> SUFFICES ASSUME Init PROVE OutboxInv
  OBVIOUS
<1>1. outbox = <<>> /\ reservations = <<>> /\ DOMAIN outbox = {} /\ DOMAIN reservations = {} /\ Len(outbox) = 0 /\ Len(reservations) = 0
  BY DEF Init
<1>2. Typed
  BY <1>1, Visibilities, ConstantsAssumption DEF Init, Typed, Shown, Call, Work, NoRow, NoCall, NoTask
<1>3. Applied /\ Told /\ RowsFollow
  BY <1>1 DEF Init, Applied, Told, RowsFollow
<1>4. Positions
  BY DEF Init, Positions, Placed, NoTask
<1>5. Claims /\ Uses /\ Resolved
  BY <1>1 DEF Init, Claims, Uses, Resolved, Pending
<1> QED BY <1>2, <1>3, <1>4, <1>5 DEF OutboxInv

-----------------------------------------------------------------------------
(* An event is committed: by a request that reduces nothing and names no    *)
(* reservation, or by the one that holds the reservation it names.          *)
LEMMA CommitKeeps ==
  ASSUME OutboxInv, NEW s \in Systems, NEW v \in Visibility, NEW effect \in {"keeps", "reduces"},
         NEW i \in Nat, AppendEvent(s, v, effect, i),
         i # 0 => i \in DOMAIN reservations /\ reservations[i].system = s /\ \A n \in DOMAIN outbox : ~Names(n, i),
         effect = "reduces" => i # 0,
         caller' \in [Callers -> Call],
         \A c \in Callers : caller'[c] = NoCall \/ (caller'[c] = caller[c] /\ caller[c].reservation # i),
         UNCHANGED <<management, task>>
  PROVE  OutboxInv' /\ View!Commit([system |-> s, shows |-> v, effect |-> effect, reservation |-> i])
         /\ [system |-> s, shows |-> v, effect |-> effect, reservation |-> i] \in Event
<1> DEFINE e == [system |-> s, shows |-> v, effect |-> effect, reservation |-> i]
<1> DEFINE new == Len(outbox) + 1
<1>1. /\ outbox \in Seq(Event) /\ DOMAIN outbox = 1..Len(outbox) /\ Len(outbox) \in Nat
      /\ reservations \in Seq(Reservation) /\ DOMAIN reservations = 1..Len(reservations) /\ Len(reservations) \in Nat
      /\ Len(reservations) <= MaxReservations
      /\ \A n \in DOMAIN outbox : outbox[n] \in Event
  BY Positions1 DEF OutboxInv, Typed
<1>2. e \in Event
  BY <1>1, ConstantsAssumption DEF Event
<1>3. e.system = s /\ e.shows = v /\ e.effect = effect /\ e.reservation = i
  OBVIOUS
<1>4. /\ outbox' = Append(outbox, e) /\ visibility' = [visibility EXCEPT ![s] = v]
      /\ UNCHANGED <<applied, inbox, delivered, row, reservations, task>>
  BY DEF AppendEvent, management
<1> HIDE DEF e
<1>5. /\ outbox' \in Seq(Event) /\ Len(outbox') = new /\ DOMAIN outbox' = 1..new
      /\ \A n \in DOMAIN outbox : outbox'[n] = outbox[n]
      /\ outbox'[new] = e
  BY <1>1, <1>2, <1>4, Appended
<1>6. DOMAIN outbox' = DOMAIN outbox \cup {new} /\ new \notin DOMAIN outbox
  BY <1>1, <1>5
<1>7. applied \in 0..Len(outbox) /\ inbox = 1..applied /\ delivered \subseteq 1..applied /\ 1..applied \subseteq DOMAIN outbox
  BY <1>1 DEF OutboxInv, Applied
<1>8. Typed'
  BY <1>1, <1>4, <1>5 DEF OutboxInv, Typed
<1>9. Applied'
  BY <1>1, <1>4, <1>5, <1>7 DEF Applied
<1>10. Told'
  <2> SUFFICES ASSUME NEW n \in DOMAIN outbox', \A m \in DOMAIN outbox' : m > n => outbox'[m].system # outbox'[n].system
               PROVE  visibility'[outbox'[n].system] = outbox'[n].shows
    BY DEF Told, IsLast
  <2>1. visibility \in [Systems -> Visibility]
    BY DEF OutboxInv, Typed
  <2>2. CASE n = new
    BY <1>3, <1>4, <1>5, <2>1, <2>2
  <2>3. CASE n \in DOMAIN outbox
    <3>1. outbox'[n] = outbox[n] /\ outbox[n].system # s
      BY <1>1, <1>3, <1>5, <2>3
    <3>2. \A m \in DOMAIN outbox : m > n => outbox[m].system # outbox[n].system
      BY <1>5, <1>6, <3>1
    <3>3. visibility[outbox[n].system] = outbox[n].shows
      BY <2>3, <3>2 DEF OutboxInv, Told, IsLast
    <3>4. outbox[n].system \in Systems
      BY <1>1, <2>3 DEF Event
    <3> QED BY <1>4, <2>1, <3>1, <3>3, <3>4
  <2> QED BY <1>6, <2>2, <2>3
<1>11. RowsFollow'
  <2> SUFFICES ASSUME NEW t \in Systems, row[t] # NoRow PROVE Follows(t)'
    BY <1>4 DEF RowsFollow
  <2>1. /\ row[t].seq \in 1..applied /\ outbox[row[t].seq].system = t
        /\ outbox[row[t].seq].shows = row[t].shows
        /\ \A m \in 1..applied : m > row[t].seq => outbox[m].system # outbox[row[t].seq].system
    BY DEF OutboxInv, RowsFollow, Follows, IsLast
  <2>2. outbox'[row[t].seq] = outbox[row[t].seq] /\ \A m \in 1..applied : outbox'[m] = outbox[m]
    BY <1>5, <1>7, <2>1
  <2> QED BY <1>4, <2>1, <2>2 DEF Follows, IsLast
<1>12. Positions'
  BY <1>1, <1>4, <1>5, <1>7 DEF OutboxInv, Typed, Work, Positions, Placed
<1>13. Claims'
  <2>1. \A c \in Callers : Pending(c)' => Pending(c) /\ caller'[c] = caller[c] /\ caller[c].reservation # i
    BY DEF Pending
  <2>2. \A c \in Callers : Pending(c)' => \A n \in DOMAIN outbox' : outbox'[n].reservation # caller[c].reservation
    <3> SUFFICES ASSUME NEW c \in Callers, Pending(c)', NEW n \in DOMAIN outbox'
                 PROVE  outbox'[n].reservation # caller[c].reservation
      OBVIOUS
    <3>1. Pending(c) /\ caller[c].reservation # i
      BY <2>1
    <3>2. \A m \in DOMAIN outbox : outbox[m].reservation # caller[c].reservation
      BY <3>1 DEF OutboxInv, Claims, Names
    <3>3. CASE n = new
      BY <1>3, <1>5, <3>1, <3>3
    <3>4. CASE n \in DOMAIN outbox
      BY <1>5, <3>2, <3>4
    <3> QED BY <1>6, <3>3, <3>4
  <2> QED BY <1>4, <2>1, <2>2 DEF OutboxInv, Claims, Names
<1>14. Uses'
  <2>1. \A n \in DOMAIN outbox' : ~Names(n, 0)' => outbox'[n].reservation \in DOMAIN reservations
    BY <1>3, <1>5, <1>6 DEF OutboxInv, Uses, Names
  <2>2. \A n, m \in DOMAIN outbox' : ~Names(n, 0)' /\ outbox'[n].reservation = outbox'[m].reservation => n = m
    BY <1>3, <1>5, <1>6, ZenonT(40) DEF OutboxInv, Uses, Names
  <2>3. \A n \in DOMAIN outbox' : outbox'[n].effect = "reduces" =>
          ~Names(n, 0)' /\ reservations[outbox'[n].reservation].system = outbox'[n].system
    BY <1>3, <1>5, <1>6 DEF OutboxInv, Uses, Names
  <2> QED BY <1>4, <2>1, <2>2, <2>3 DEF Uses
<1>15. Resolved'
  BY <1>4, <1>5, <1>7 DEF OutboxInv, Resolved, Names
<1>16. View!Commit(e)
  BY <1>4 DEF View!Commit
<1> QED BY <1>2, <1>8, <1>9, <1>10, <1>11, <1>12, <1>13, <1>14, <1>15, <1>16 DEF OutboxInv, e

(* What is reserved is hidden, and named by nothing else yet. *)
LEMMA ReserveKeeps ==
  ASSUME OutboxInv, NEW c \in Callers, NEW s \in Systems, NEW v \in Visibility,
         ReservePrivacyInvalidation(c, s, v)
  PROVE  OutboxInv' /\ View!Withdraw(s)
<1> DEFINE e == [system |-> s, resolved |-> 0]
<1> DEFINE new == Len(reservations) + 1
<1>1. /\ reservations \in Seq(Reservation) /\ DOMAIN reservations = 1..Len(reservations) /\ Len(reservations) \in Nat
      /\ row \in [Systems -> Shown] /\ caller \in [Callers -> Call]
  BY Positions1 DEF OutboxInv, Typed
<1>2. e \in Reservation /\ e.resolved = 0
  BY DEF Reservation
<1>3. /\ reservations' = Append(reservations, e) /\ Len(reservations) < MaxReservations
      /\ row' = [row EXCEPT ![s] = NoRow]
      /\ caller' = [caller EXCEPT ![c] = [reservation |-> new, target |-> v]]
      /\ UNCHANGED <<visibility, outbox, delivered, applied, inbox, task>>
  BY DEF ReservePrivacyInvalidation, account
<1> HIDE DEF e
<1>4. /\ reservations' \in Seq(Reservation) /\ Len(reservations') = new /\ DOMAIN reservations' = 1..new
      /\ \A i \in DOMAIN reservations : reservations'[i] = reservations[i]
      /\ reservations'[new] = e
  BY <1>1, <1>2, <1>3, Appended
<1>5. DOMAIN reservations' = DOMAIN reservations \cup {new} /\ new \notin DOMAIN reservations /\ new # 0
  BY <1>1, <1>4
<1>6. NoRow \in Shown /\ NoRow.shows = Nothing
  BY DEF NoRow, Shown
<1>7. [reservation |-> new, target |-> v] \in Call
  BY <1>1 DEF Call
<1>8. Typed'
  BY <1>1, <1>3, <1>4, <1>6, <1>7, ConstantsAssumption DEF OutboxInv, Typed
<1>9. Applied' /\ Told' /\ Positions'
  BY <1>3 DEF OutboxInv, Applied, Told, IsLast, Positions, Placed
<1>10. RowsFollow'
  BY <1>1, <1>3 DEF OutboxInv, RowsFollow, Follows, IsLast
<1>11. Claims'
  <2>1. caller'[c].reservation = new /\ \A d \in Callers : d # c => caller'[d] = caller[d]
    BY <1>1, <1>3
  <2>2. \A n \in DOMAIN outbox : outbox[n].reservation # new
    BY <1>5 DEF OutboxInv, Uses, Names
  <2>3. \A d \in Callers : Pending(d) => caller[d].reservation \in DOMAIN reservations
                          /\ \A n \in DOMAIN outbox : outbox[n].reservation # caller[d].reservation
    BY DEF OutboxInv, Claims, Names
  <2>4. \A d \in Callers : d # c /\ Pending(d)' => Pending(d)
    BY <2>1 DEF Pending
  <2>5. \A d \in Callers : Pending(d)' => caller'[d].reservation \in DOMAIN reservations'
                          /\ \A n \in DOMAIN outbox : outbox[n].reservation # caller'[d].reservation
    BY <1>5, <2>1, <2>2, <2>3, <2>4
  <2>6. \A d, b \in Callers : Pending(d)' /\ Pending(b)' /\ caller'[d].reservation = caller'[b].reservation => d = b
    <3> SUFFICES ASSUME NEW d \in Callers, NEW b \in Callers, Pending(d)', Pending(b)',
                        caller'[d].reservation = caller'[b].reservation
                 PROVE  d = b
      OBVIOUS
    <3>1. d # c /\ b # c => d = b
      BY <2>1, <2>4 DEF OutboxInv, Claims
    <3>2. d = c /\ b # c => FALSE
      BY <1>5, <2>1, <2>3, <2>4
    <3>3. d # c /\ b = c => FALSE
      BY <1>5, <2>1, <2>3, <2>4
    <3> QED BY <3>1, <3>2, <3>3
  <2> QED BY <1>3, <2>5, <2>6 DEF Claims, Names
<1>12. Uses'
  BY <1>3, <1>4, <1>5 DEF OutboxInv, Uses, Names
<1>13. Resolved'
  BY <1>2, <1>3, <1>4, <1>5 DEF OutboxInv, Resolved, Names
<1>14. View!Withdraw(s)
  BY <1>1, <1>3, <1>6 DEF View!Withdraw
<1> QED BY <1>8, <1>9, <1>10, <1>11, <1>12, <1>13, <1>14 DEF OutboxInv

(* A reconciliation goes on to a place in the outbox, and may mark what was *)
(* applied.                                                                 *)
LEMMA MoveKeeps ==
  ASSUME OutboxInv, NEW r \in Reconcilers, NEW t \in Work, Placed(t),
         task' = [task EXCEPT ![r] = t],
         delivered' \subseteq 1..applied,
         UNCHANGED <<visibility, outbox, applied, inbox, row, reservations, caller>>
  PROVE  OutboxInv'
<1>1. Typed'
  BY DEF OutboxInv, Typed
<1>2. Applied' /\ Told' /\ RowsFollow'
  BY DEF OutboxInv, Applied, Told, RowsFollow, Follows, IsLast
<1>3. Positions'
  BY DEF OutboxInv, Typed, Positions, Placed
<1>4. Claims' /\ Uses' /\ Resolved'
  BY DEF OutboxInv, Claims, Uses, Resolved, Pending, Names
<1> QED BY <1>1, <1>2, <1>3, <1>4 DEF OutboxInv

(* When it is an event's turn, it has been applied already or can be: no    *)
(* gap, no newer row, and a reservation that nothing else resolved.         *)
Accepted(n) == IsDuplicate(n) \/ (IsNext(n) /\ Ownable(n) /\ Resolvable(n))

LEMMA TurnsAreAccepted ==
  ASSUME OutboxInv, NEW r \in Reconcilers, At(r, "apply")
  PROVE  /\ task[r].at \in DOMAIN outbox /\ task[r].at \in 1..(applied + 1)
         /\ Accepted(task[r].at)
<1> DEFINE n == task[r].at
<1>1. n \in 1..(applied + 1) /\ n <= Len(outbox) /\ n \in Nat
  BY DEF OutboxInv, Typed, Work, Positions, Placed, At
<1>2. applied \in Nat /\ applied <= Len(outbox) /\ inbox = 1..applied
  BY Positions1 DEF OutboxInv, Typed, Applied
<1>3. n \in DOMAIN outbox /\ outbox[n] \in Event /\ DOMAIN outbox = 1..Len(outbox)
  BY <1>1, Positions1 DEF OutboxInv, Typed
<1> HIDE DEF n
<1>4. n # applied + 1 => IsDuplicate(n)
  BY <1>1, <1>2 DEF IsDuplicate
<1>5. ASSUME n = applied + 1 PROVE Ownable(n)
  <2>1. row[outbox[n].system].seq \in 0..applied
    BY <1>2, <1>3 DEF OutboxInv, RowsFollow, Follows, NoRow, Event
  <2> QED BY <1>2, <1>5, <2>1 DEF Ownable
<1>6. ASSUME n = applied + 1 PROVE Resolvable(n)
  <2> SUFFICES ASSUME outbox[n].effect = "reduces"
               PROVE  reservations[outbox[n].reservation] = [system |-> outbox[n].system, resolved |-> 0]
    BY DEF Resolvable
  <2> DEFINE i == outbox[n].reservation
  <2>1. i # 0 /\ reservations[i].system = outbox[n].system /\ i \in DOMAIN reservations
    BY <1>3 DEF OutboxInv, Uses, Names
  <2>2. reservations[i] \in Reservation
    BY <2>1, Positions1 DEF OutboxInv, Typed
  <2>3. \A m \in 1..applied : outbox[m].reservation # i
    BY <1>2, <1>3, <1>6, <2>1 DEF OutboxInv, Uses, Names
  <2>4. reservations[i].resolved = 0
    BY <2>1, <2>3 DEF OutboxInv, Resolved, Names
  <2> QED BY <2>1, <2>2, <2>4 DEF Reservation
<1> QED BY <1>1, <1>3, <1>4, <1>5, <1>6 DEF Accepted, IsNext, n

(* The next event takes effect, and resolves the reservation it names. *)
LEMMA ApplyNextKeeps ==
  ASSUME OutboxInv, NEW r \in Reconcilers, At(r, "apply"), IsNext(task[r].at), Ownable(task[r].at),
         row' = [row EXCEPT ![outbox[task[r].at].system] = RowAfter(task[r].at)],
         Resolve(task[r].at), RecordAppliedEvent(task[r].at),
         task' = [task EXCEPT ![r].pc = "mark"],
         UNCHANGED <<account, caller>>
  PROVE  OutboxInv' /\ View!Deliver
<1> DEFINE n == task[r].at
<1> DEFINE e == outbox[n]
<1>1. /\ n \in DOMAIN outbox /\ DOMAIN outbox = 1..Len(outbox) /\ Len(outbox) \in Nat /\ e \in Event
      /\ n = applied + 1 /\ n \in Nat
      /\ applied \in Nat /\ inbox = 1..applied /\ delivered \subseteq 1..applied
  BY TurnsAreAccepted, Positions1 DEF OutboxInv, Typed, Applied, IsNext
<1>2. /\ row \in [Systems -> Shown] /\ reservations \in Seq(Reservation)
      /\ DOMAIN reservations = 1..Len(reservations) /\ Len(reservations) \in Nat
      /\ \A i \in DOMAIN reservations : reservations[i] \in Reservation
      /\ caller \in [Callers -> Call] /\ task \in [Reconcilers -> Work]
  BY Positions1 DEF OutboxInv, Typed
<1>3. /\ applied' = n /\ inbox' = inbox \cup {n}
      /\ UNCHANGED <<visibility, outbox, delivered, caller>>
      /\ row' = [row EXCEPT ![e.system] = RowAfter(n)]
  BY DEF RecordAppliedEvent, account
<1>4. /\ e.system \in Systems /\ e.shows \in Visibility /\ e.reservation \in Nat
  BY <1>1, ConstantsAssumption DEF Event
<1>5. /\ RowAfter(n) \in Shown
      /\ RowAfter(n) = NoRow \/ (RowAfter(n).seq = n /\ RowAfter(n).shows = e.shows)
      /\ RowAfter(n).shows = IF e.shows = "private" THEN Nothing ELSE e.shows
  BY <1>1, <1>4 DEF RowAfter, NoRow, Shown
<1>6. /\ reservations' \in Seq(Reservation) /\ Len(reservations') = Len(reservations)
      /\ DOMAIN reservations' = DOMAIN reservations
      /\ \A i \in DOMAIN reservations :
           /\ reservations'[i].system = reservations[i].system
           /\ reservations'[i].resolved # 0 => reservations[i].resolved # 0 \/ i = e.reservation
  <2>1. CASE e.reservation # 0 /\ reservations[e.reservation].resolved = 0
    <3> DEFINE i == e.reservation
    <3>1. i \in DOMAIN reservations
      BY <1>1, <2>1 DEF OutboxInv, Uses, Names
    <3>2. reservations' = [reservations EXCEPT ![i].resolved = n]
      BY <2>1 DEF Resolve
    <3>3. /\ reservations'[i] \in Reservation /\ reservations'[i].system = reservations[i].system
          /\ \A j \in DOMAIN reservations : j # i => reservations'[j] = reservations[j]
          /\ DOMAIN reservations' = DOMAIN reservations
      BY <1>1, <1>2, <3>1, <3>2 DEF Reservation
    <3>4. reservations' \in [DOMAIN reservations -> Reservation]
      BY <1>2, <3>2, <3>3
    <3>5. reservations' \in Seq(Reservation)
      BY <1>2, <3>4, SeqDef, LenProperties
    <3>6. Len(reservations') = Len(reservations)
      BY <1>2, <3>3, <3>5, LenProperties
    <3> QED BY <3>1, <3>3, <3>5, <3>6
  <2>2. CASE ~(e.reservation # 0 /\ reservations[e.reservation].resolved = 0)
    <3>1. reservations' = reservations
      BY <2>2 DEF Resolve
    <3> QED BY <1>2, <3>1
  <2> QED BY <2>1, <2>2
<1>7. task' \in [Reconcilers -> Work] /\ task'[r].pc = "mark" /\ task'[r].at = n /\ task'[r].last = task[r].last
      /\ \A q \in Reconcilers : q # r => task'[q] = task[q]
  BY <1>2 DEF Work
<1>8. Typed'
  BY <1>2, <1>3, <1>4, <1>5, <1>6, <1>7 DEF OutboxInv, Typed
<1>9. Applied' /\ Told'
  BY <1>1, <1>3 DEF OutboxInv, Applied, Told, IsLast
<1>10. RowsFollow'
  <2> SUFFICES ASSUME NEW s \in Systems, row'[s] # NoRow PROVE Follows(s)'
    BY DEF RowsFollow
  <2>1. CASE s = e.system
    <3>1. row'[s] = RowAfter(n)
      BY <1>2, <1>3, <1>4, <2>1
    <3>2. row'[s].seq = n /\ row'[s].shows = e.shows
      BY <1>5, <3>1
    <3> QED BY <1>1, <1>3, <2>1, <3>2 DEF Follows, IsLast
  <2>2. CASE s # e.system
    <3>1. row'[s] = row[s]
      BY <1>2, <1>3, <1>4, <2>2
    <3>2. Follows(s)
      BY <3>1 DEF OutboxInv, RowsFollow
    <3> QED BY <1>1, <1>3, <2>2, <3>1, <3>2 DEF Follows, IsLast
  <2> QED BY <2>1, <2>2
<1>11. Positions'
  <2>1. Placed(task[r])
    BY DEF OutboxInv, Positions
  <2>2. Placed(task[r])'
    BY <1>1, <1>3, <1>7, <2>1 DEF Placed, At
  <2>3. \A q \in Reconcilers : q # r => Placed(task[q])'
    BY <1>1, <1>2, <1>3, <1>7 DEF OutboxInv, Positions, Placed, Work
  <2> QED BY <2>2, <2>3 DEF Positions, Placed
<1>12. Claims'
  BY <1>3, <1>6 DEF OutboxInv, Claims, Pending, Names
<1>13. Uses'
  BY <1>3, <1>6 DEF OutboxInv, Uses, Names
<1>14. Resolved'
  <2> SUFFICES ASSUME NEW i \in DOMAIN reservations, reservations'[i].resolved # 0
               PROVE  \E m \in 1..applied' : outbox[m].reservation = i
    BY <1>3, <1>6 DEF Resolved, Names
  <2>1. CASE i = e.reservation
    BY <1>1, <1>3, <2>1
  <2>2. CASE reservations[i].resolved # 0
    <3>1. \E m \in 1..applied : outbox[m].reservation = i
      BY <2>2 DEF OutboxInv, Resolved, Names
    <3> QED BY <1>1, <1>3, <3>1
  <2> QED BY <1>6, <2>1, <2>2
<1>15. View!Deliver
  <2>1. applied < Len(outbox) /\ applied' = applied + 1 /\ UNCHANGED outbox
    BY <1>1, <1>3
  <2>2. [s \in Systems |-> row'[s].shows]
        = [[s \in Systems |-> row[s].shows] EXCEPT ![e.system] = IF e.shows = "private" THEN Nothing ELSE e.shows]
    BY <1>2, <1>3, <1>4, <1>5
  <2> QED BY <1>1, <2>1, <2>2 DEF View!Deliver
<1> QED BY <1>8, <1>9, <1>10, <1>11, <1>12, <1>13, <1>14, <1>15 DEF OutboxInv

(* Going on to another step keeps the place. *)
LEMMA SamePlace ==
  ASSUME NEW r \in Reconcilers, task \in [Reconcilers -> Work], NEW pc
  PROVE  [task EXCEPT ![r].pc = pc] = [task EXCEPT ![r] = [pc |-> pc, at |-> task[r].at, last |-> task[r].last]]
<1>1. task[r] \in Work
  OBVIOUS
<1>2. [task[r] EXCEPT !.pc = pc] = [pc |-> pc, at |-> task[r].at, last |-> task[r].last]
  BY <1>1 DEF Work
<1> QED BY <1>2

(* Applying an event, which is accepted, and marking it afterwards. *)
LEMMA ApplyKeeps ==
  ASSUME OutboxInv, NEW r \in Reconcilers, ApplyEvent(r)
  PROVE  OutboxInv' /\ (View!Deliver \/ UNCHANGED <<outbox, applied, row>>)
<1> DEFINE n == task[r].at
<1>1. /\ At(r, "apply") /\ UNCHANGED <<account, caller>>
      /\ n \in DOMAIN outbox /\ n \in 1..(applied + 1) /\ Accepted(n)
      /\ task \in [Reconcilers -> Work] /\ applied \in Nat /\ inbox = 1..applied
  BY TurnsAreAccepted, Positions1 DEF ApplyEvent, OutboxInv, Typed, Applied
<1>2. task' = [task EXCEPT ![r].pc = "mark"]
  BY <1>1 DEF ApplyEvent, Accepted
<1>3. CASE IsDuplicate(n)
  <2> DEFINE t == [pc |-> "mark", at |-> n, last |-> task[r].last]
  <2>1. task' = [task EXCEPT ![r] = t] /\ t \in Work
    BY <1>1, <1>2, SamePlace DEF Work
  <2>2. n \in 1..applied
    BY <1>1, <1>3 DEF IsDuplicate
  <2>3. Placed(t)
    BY <1>1, <2>2 DEF OutboxInv, Positions, Placed, At
  <2>4. UNCHANGED <<visibility, outbox, delivered, applied, inbox, row, reservations, caller>>
    BY <1>1, <1>3 DEF ApplyEvent, account, management
  <2>5. delivered' \subseteq 1..applied
    BY <2>4 DEF OutboxInv, Applied
  <2> HIDE DEF t
  <2> QED BY <2>1, <2>3, <2>4, <2>5, MoveKeeps
<1>4. CASE ~IsDuplicate(n)
  <2>1. /\ IsNext(n) /\ Ownable(n)
        /\ row' = [row EXCEPT ![outbox[n].system] = RowAfter(n)]
        /\ Resolve(n) /\ RecordAppliedEvent(n)
    BY <1>1, <1>4 DEF ApplyEvent, Accepted
  <2> QED BY <1>1, <1>2, <2>1, ApplyNextKeeps
<1> QED BY <1>3, <1>4

(* The other steps of a reconciliation. *)
LEMMA ReconcileKeeps ==
  ASSUME OutboxInv, NEW r \in Reconcilers,
         \/ ReadSource(r) \/ RecordSourceSequence(r) \/ AppliedSequence(r)
         \/ MarkDeliveredThrough(r) \/ Fetch(r) \/ MarkDelivered(r) \/ AcquireTimesOut(r) \/ ReconcilerFails(r)
  PROVE  OutboxInv' /\ UNCHANGED <<outbox, applied, row>>
<1>1. UNCHANGED <<visibility, outbox, applied, inbox, row, reservations, caller>>
  BY DEF ReadSource, RecordSourceSequence, AppliedSequence, MarkDeliveredThrough, Fetch, MarkDelivered,
         AcquireTimesOut, ReconcilerFails, account, management
<1>2. /\ task \in [Reconcilers -> Work] /\ Placed(task[r])
      /\ Len(outbox) \in Nat /\ applied \in Nat /\ applied <= Len(outbox) /\ delivered \subseteq 1..applied
      /\ BatchLimit \in Nat /\ BatchLimit # 0
  BY Positions1, ConstantsAssumption DEF OutboxInv, Typed, Applied, Positions
<1>3. NoTask \in Work /\ Placed(NoTask)
  BY DEF NoTask, Work, Placed
<1>4. \E t \in Work : Placed(t) /\ task' = [task EXCEPT ![r] = t] /\ delivered' \subseteq 1..applied
  <2>1. CASE ReadSource(r)
    <3> DEFINE t == [pc |-> "record", at |-> Len(outbox), last |-> 0]
    <3>1. t \in Work /\ Placed(t)
      BY <1>2 DEF Work, Placed
    <3> QED BY <1>2, <2>1, <3>1 DEF ReadSource, Become, account
  <2>2. CASE RecordSourceSequence(r)
    <3> DEFINE t == [pc |-> "position", at |-> 0, last |-> 0]
    <3>1. t \in Work /\ Placed(t)
      BY DEF Work, Placed
    <3> QED BY <1>2, <2>2, <3>1 DEF RecordSourceSequence, Become, account
  <2>3. CASE AppliedSequence(r)
    <3> DEFINE t == [pc |-> "repair", at |-> applied, last |-> 0]
    <3>1. t \in Work /\ Placed(t)
      BY <1>2 DEF Work, Placed
    <3> QED BY <1>2, <2>3, <3>1 DEF AppliedSequence, Become, account
  <2>4. CASE MarkDeliveredThrough(r)
    <3> DEFINE t == [pc |-> "fetch", at |-> task[r].at, last |-> task[r].last]
    <3>1. t \in Work /\ Placed(t) /\ task' = [task EXCEPT ![r] = t]
      BY <1>2, <2>4, SamePlace DEF MarkDeliveredThrough, At, Work, Placed
    <3>2. delivered' \subseteq 1..applied
      BY <1>2, <2>4 DEF MarkDeliveredThrough, RepairedThrough, At, Work, Placed
    <3> QED BY <3>1, <3>2
  <2>5. CASE Fetch(r)
    <3> DEFINE last == Min({task[r].at + BatchLimit, Len(outbox)})
    <3> DEFINE t == [pc |-> "apply", at |-> task[r].at + 1, last |-> last]
    <3>1. task[r].at \in Nat /\ task[r].at <= applied
      BY <1>2, <2>5 DEF Fetch, At, Work, Placed
    <3>2. last \in {task[r].at + BatchLimit, Len(outbox)} /\ last <= Len(outbox)
      BY <1>2, <3>1, MinOfTwo
    <3>3. CASE last = task[r].at
      BY <1>2, <1>3, <2>5, <3>3 DEF Fetch, Finish, Become, account
    <3>4. CASE last # task[r].at
      <4>1. t \in Work /\ Placed(t)
        BY <1>2, <3>1, <3>2, <3>4 DEF Work, Placed
      <4> QED BY <1>2, <2>5, <3>4, <4>1 DEF Fetch, Become, account
    <3> QED BY <3>3, <3>4
  <2>6. CASE MarkDelivered(r)
    <3> DEFINE t == [pc |-> "apply", at |-> task[r].at + 1, last |-> task[r].last]
    <3>1. /\ task[r].at \in 1..applied /\ task[r].last \in Nat /\ task[r].at <= task[r].last
          /\ task[r].last <= Len(outbox) /\ delivered' = delivered \cup {task[r].at}
      BY <1>2, <2>6 DEF MarkDelivered, At, Work, Placed
    <3>2. CASE task[r].at = task[r].last
      BY <1>2, <1>3, <2>6, <3>1, <3>2 DEF MarkDelivered, Finish, Become
    <3>3. CASE task[r].at # task[r].last
      <4>1. t \in Work /\ Placed(t)
        BY <1>2, <3>1, <3>3 DEF Work, Placed
      <4> QED BY <1>2, <2>6, <3>1, <3>3, <4>1 DEF MarkDelivered, Become
    <3> QED BY <3>2, <3>3
  <2>7. CASE AcquireTimesOut(r) \/ ReconcilerFails(r)
    BY <1>2, <1>3, <2>7 DEF AcquireTimesOut, ReconcilerFails, Finish, Become, account
  <2> QED BY <2>1, <2>2, <2>3, <2>4, <2>5, <2>6, <2>7
<1> QED BY <1>1, <1>4, MoveKeeps

(* Every step keeps the invariant, and is one of ProjectedView or a        *)
(* stutter.                                                                *)
LEMMA StepKeeps ==
  ASSUME OutboxInv, [Next]_vars
  PROVE  OutboxInv' /\ [View!Next]_View!pvVars
<1>1. /\ visibility \in [Systems -> Visibility] /\ caller \in [Callers -> Call]
      /\ \A i \in DOMAIN reservations : reservations[i] \in Reservation
  BY Positions1 DEF OutboxInv, Typed
<1>2. \A c \in Callers : caller[c] # NoCall =>
        /\ caller[c].reservation \in DOMAIN reservations /\ caller[c].reservation \in Nat /\ caller[c].reservation # 0
        /\ \A n \in DOMAIN outbox : ~Names(n, caller[c].reservation)
        /\ reservations[caller[c].reservation].system \in Systems
        /\ \A d \in Callers : d # c => caller[d] = NoCall \/ caller[d].reservation # caller[c].reservation
  BY <1>1, Positions1 DEF OutboxInv, Typed, Claims, Pending, Reservation
<1>3. NoCall \in Call /\ \A c \in Callers : caller[c] \in Call
  BY <1>1, Visibilities DEF NoCall, Call
<1>4. ASSUME NEW s \in Systems, NEW v \in Visibility, Publish(s, v) PROVE OutboxInv' /\ View!Next
  <2>1. AppendEvent(s, v, "keeps", 0) /\ UNCHANGED <<management, caller, task>>
    BY <1>4 DEF Publish
  <2>2. \A c \in Callers : caller'[c] = NoCall \/ (caller'[c] = caller[c] /\ caller[c].reservation # 0)
    BY <1>2, <2>1
  <2> QED BY <1>1, <2>1, <2>2, CommitKeeps DEF View!Next
<1>5. ASSUME NEW c \in Callers, NEW s \in Systems, NEW v \in Visibility, ReservePrivacyInvalidation(c, s, v)
      PROVE  OutboxInv' /\ View!Next
  BY <1>5, ReserveKeeps DEF View!Next
<1>6. ASSUME NEW c \in Callers, Reduce(c) \/ Recover(c) PROVE OutboxInv' /\ View!Next
  <2> DEFINE i == caller[c].reservation
  <2> DEFINE s == reservations[i].system
  <2>1. caller[c] # NoCall /\ caller' = [caller EXCEPT ![c] = NoCall] /\ UNCHANGED <<management, task>>
    BY <1>6 DEF Reduce, Recover
  <2>2. \/ AppendEvent(s, caller[c].target, "reduces", i)
        \/ AppendEvent(s, visibility[s], "keeps", i)
    BY <1>6 DEF Reduce, Recover
  <2>3. /\ i \in DOMAIN reservations /\ i \in Nat /\ i # 0 /\ s \in Systems
        /\ \A n \in DOMAIN outbox : ~Names(n, i)
        /\ caller[c].target \in Visibility /\ visibility[s] \in Visibility
    BY <1>1, <1>2, <1>3, <2>1 DEF Call
  <2>4. /\ caller' \in [Callers -> Call]
        /\ \A d \in Callers : caller'[d] = NoCall \/ (caller'[d] = caller[d] /\ caller[d].reservation # i)
    BY <1>1, <1>2, <1>3, <2>1
  <2> HIDE DEF i, s
  <2>5. CASE AppendEvent(s, caller[c].target, "reduces", i)
    <3>1. OutboxInv' /\ \E e \in Event : View!Commit(e)
      BY <2>1, <2>3, <2>4, <2>5, s = reservations[i].system, CommitKeeps DEF s
    <3> QED BY <3>1 DEF View!Next
  <2>6. CASE AppendEvent(s, visibility[s], "keeps", i)
    <3>1. OutboxInv' /\ \E e \in Event : View!Commit(e)
      BY <2>1, <2>3, <2>4, <2>6, s = reservations[i].system, CommitKeeps DEF s
    <3> QED BY <3>1 DEF View!Next
  <2> QED BY <2>2, <2>5, <2>6
<1>7. ASSUME NEW c \in Callers, CallerFails(c) PROVE OutboxInv' /\ UNCHANGED <<outbox, applied, row>>
  <2>1. /\ caller' = [caller EXCEPT ![c] = NoCall]
        /\ UNCHANGED <<visibility, outbox, delivered, applied, inbox, row, reservations, task>>
    BY <1>7 DEF CallerFails, account, management
  <2>2. Typed' /\ Applied' /\ Told' /\ RowsFollow' /\ Positions' /\ Uses' /\ Resolved'
    BY <1>3, <2>1 DEF OutboxInv, Typed, Applied, Told, RowsFollow, Follows, IsLast, Positions, Placed, Uses, Resolved, Names
  <2>3. Claims'
    BY <1>1, <2>1 DEF OutboxInv, Claims, Pending, Names
  <2> QED BY <2>1, <2>2, <2>3 DEF OutboxInv
<1>8. ASSUME AcquireToRead \/ Release \/ UNCHANGED vars PROVE OutboxInv' /\ UNCHANGED <<outbox, applied, row>>
  <2>1. UNCHANGED <<visibility, outbox, delivered, applied, inbox, row, reservations, caller, task>>
    BY <1>8 DEF AcquireToRead, Release, account, management, vars
  <2> QED BY <2>1 DEF OutboxInv, Typed, Applied, Told, RowsFollow, Follows, IsLast, Positions, Placed,
                      Claims, Pending, Uses, Resolved, Names
<1>9. ASSUME NEW r \in Reconcilers, Reconcile(r) \/ ReconcilerFails(r)
      PROVE  OutboxInv' /\ (View!Next \/ UNCHANGED <<outbox, applied, row>>)
  BY <1>9, ReconcileKeeps, ApplyKeeps DEF Reconcile, View!Next
<1>10. UNCHANGED <<outbox, applied, row>> => UNCHANGED View!pvVars
  BY DEF View!pvVars
<1> QED BY <1>4, <1>5, <1>6, <1>7, <1>8, <1>9, <1>10 DEF Next

-----------------------------------------------------------------------------
(* The theorems.                                                           *)

(* The inductive invariant holds of every reachable state.                 *)
THEOREM OutboxInvariant == Spec => []OutboxInv
<1>1. OutboxInv /\ [Next]_vars => OutboxInv'
  BY StepKeeps
<1> QED BY InitOutbox, <1>1, PTL DEF Spec

(* Reconciliations that overlap, repeat and stop anywhere apply each event  *)
(* of an account once and in the order of its commits, and otherwise only   *)
(* withdraw rows (reconcile_account and apply_event).                       *)
THEOREM AppliedInOrder == Spec => ImplementsProjectedView
<1>1. Init => View!Init
  BY DEF Init, NoRow, View!Init
<1>2. OutboxInv /\ [Next]_vars => [View!Next]_View!pvVars
  BY StepKeeps
<1> QED BY <1>1, <1>2, OutboxInvariant, PTL DEF Spec, ImplementsProjectedView, View!Spec

(* Once every event is applied, a row that is there shows its system as the *)
(* account decided last.                                                    *)
THEOREM RowsCatchUp == Spec => []CaughtUpRowsAreCurrent
<1>1. OutboxInv => CaughtUpRowsAreCurrent
  <2> SUFFICES ASSUME OutboxInv, applied = Len(outbox), NEW s \in Systems, row[s] # NoRow
               PROVE  row[s].shows = visibility[s]
    BY DEF CaughtUpRowsAreCurrent, NoRow
  <2>1. 1..applied = DOMAIN outbox
    BY Positions1 DEF OutboxInv, Typed
  <2> QED BY <2>1 DEF OutboxInv, RowsFollow, Follows, Told
<1> QED BY <1>1, OutboxInvariant, PTL

(* No event is refused when its turn comes: there is no gap, no newer row   *)
(* and no reservation missing or resolved by another.  The refusals of      *)
(* apply_event would otherwise repeat for ever.                             *)
NothingIsRefused == \A r \in Reconcilers : At(r, "apply") => Accepted(task[r].at)

THEOREM NoRefusal == Spec => []NothingIsRefused
<1>1. OutboxInv => NothingIsRefused
  BY TurnsAreAccepted DEF NothingIsRefused
<1> QED BY <1>1, OutboxInvariant, PTL

=============================================================================
