---------------------------- MODULE AccessProofs ----------------------------
(***************************************************************************)
(* Who may come in, who they then are and what they may do: users, their   *)
(* identities at providers, API keys, the way through the gateway, sign-in,*)
(* the first session and roles, for any number of requests, however they   *)
(* interleave.  One section for each.                                      *)
(***************************************************************************)
EXTENDS Services, SequenceTheorems, FiniteSetTheorems, WellFoundedInduction, TLAPS

-----------------------------------------------------------------------------
(* Users stay what they were let in as (module Users).                      *)

(* The instance counts as everybody does.                                   *)
LEMMA MembershipCounts == \A S : Membership!Cardinality(S) = Cardinality(S)
  BY DEF Membership!Cardinality, Cardinality

Statuses == {"invited", "active", "disabled", "deleted"}
UserRows == [email : Membership!Addresses \cup {""}, status : Statuses, has : SUBSET Membership!Both]
Invitations == [email : Membership!Addresses, state : {"open", "accepted", "expired"}]
AdministratorRequest == {Membership!Idle} \cup [pc : {"authorized"}, actor : DOMAIN Administrators]

(* Nobody's address is empty, and the administrators are some users, each   *)
(* with an address of their own.                                            *)
UserConstants ==
  /\ "" \notin Membership!Addresses
  /\ Administrators \in Seq(Membership!Addresses) /\ Administrators # <<>>
  /\ \A m, n \in DOMAIN Administrators : Administrators[m] = Administrators[n] => m = n

(* Of a deleted row nothing is left, its address included; addresses are    *)
(* unique among the rows that have one; and the policy is kept.             *)
RowsHold(those, rules) ==
  /\ \A u \in DOMAIN those : those[u].status = "deleted" => those[u].email = "" /\ those[u].has = {}
  /\ \A u, v \in DOMAIN those : those[u].email = those[v].email /\ those[u].email # "" => u = v
  /\ "verified" \in rules => \A u \in DOMAIN those : those[u].status = "active" => "verified" \in those[u].has

(* Those who were disabled are that, or deleted.                            *)
Barred == \A u \in barred : people[u].status \in {"disabled", "deleted"}

(* What holds of the users, who include the administrators; of the          *)
(* invitations; and of the requests.                                        *)
PeopleHold ==
  /\ policy \in SUBSET {"register", "verified"}
  /\ people \in Seq(UserRows) /\ DOMAIN Administrators \subseteq Membership!Ids /\ barred \subseteq Membership!Ids
  /\ RowsHold(people, policy) /\ Barred /\ Membership!AdministratorStays

InvitationsHold ==
  /\ invitations \in Seq(Invitations)
  /\ used \in Seq(Nat) /\ DOMAIN used = DOMAIN invitations
  /\ \A i \in DOMAIN invitations : used[i] = IF invitations[i].state = "accepted" THEN 1 ELSE 0

RequestsHold == tasks \in [Requests -> AdministratorRequest] /\ late \subseteq DOMAIN Administrators

UsersInv == PeopleHold /\ InvitationsHold /\ RequestsHold

-----------------------------------------------------------------------------
(* Sequences. *)

(* What has the domain of a sequence and its elements is one. *)
LEMMA Mapped ==
  ASSUME NEW S, NEW s \in Seq(S), NEW t, t \in [DOMAIN s -> S]
  PROVE  t \in Seq(S) /\ DOMAIN t = DOMAIN s
<1>1. DOMAIN s = 1..Len(s) /\ Len(s) \in Nat
  BY LenProperties
<1>2. t \in [1..Len(s) -> S]
  BY <1>1
<1> QED BY <1>1, <1>2, SeqDef

(* Appending adds one position and leaves the others alone. *)
LEMMA Appended ==
  ASSUME NEW S, NEW s \in Seq(S), NEW e \in S, NEW n, n = Len(s) + 1
  PROVE  /\ Append(s, e) \in Seq(S)
         /\ DOMAIN Append(s, e) = DOMAIN s \cup {n} /\ n \notin DOMAIN s
         /\ \A i \in DOMAIN s : Append(s, e)[i] = s[i]
         /\ Append(s, e)[n] = e
<1>1. DOMAIN s = 1..Len(s) /\ Len(s) \in Nat
  BY LenProperties
<1>2. Append(s, e) \in Seq(S) /\ Len(Append(s, e)) = Len(s) + 1
  OBVIOUS
<1>3. DOMAIN Append(s, e) = 1..(Len(s) + 1)
  BY <1>2, LenProperties
<1>4. \A i \in 1..Len(s) : Append(s, e)[i] = s[i]
  BY <1>1
<1>5. Append(s, e)[Len(s) + 1] = e
  BY <1>1
<1>6. 1..(Len(s) + 1) = 1..Len(s) \cup {Len(s) + 1} /\ Len(s) + 1 \notin 1..Len(s)
  BY <1>1
<1> QED BY <1>1, <1>2, <1>3, <1>4, <1>5, <1>6

(* The elements of a sequence are where it says. *)
LEMMA ElementsOf ==
  ASSUME NEW S, NEW s \in Seq(S)
  PROVE  /\ DOMAIN s = 1..Len(s) /\ Len(s) \in Nat
         /\ \A n \in DOMAIN s : s[n] \in S
         /\ s # <<>> => 1 \in DOMAIN s
<1>1. DOMAIN s = 1..Len(s) /\ Len(s) \in Nat
  BY LenProperties
<1>2. \A n \in DOMAIN s : s[n] \in S
  BY <1>1, ElementOfSeq
<1>3. s # <<>> => Len(s) # 0
  BY EmptySeq
<1> QED BY <1>1, <1>2, <1>3

-----------------------------------------------------------------------------
(* Initially there are the administrators. *)
LEMMA InitUsers == ASSUME UserConstants, Membership!Init PROVE UsersInv
<1>1. /\ \A n \in DOMAIN Administrators : Administrators[n] \in Membership!Addresses
      /\ 1 \in DOMAIN Administrators
  BY ElementsOf DEF UserConstants
<1>2. /\ people = [n \in DOMAIN Administrators |-> Membership!Row(Administrators[n], "active", Membership!Both)]
      /\ invitations = <<>> /\ used = <<>> /\ barred = {} /\ late = {}
      /\ tasks = [r \in Requests |-> Membership!Idle] /\ policy \in SUBSET {"register", "verified"}
  BY DEF Membership!Init
<1>3. people \in Seq(UserRows) /\ Membership!Ids = DOMAIN Administrators
  <2>1. \A n \in DOMAIN Administrators : Membership!Row(Administrators[n], "active", Membership!Both) \in UserRows
    BY <1>1 DEF UserRows, Membership!Row, Statuses
  <2>2. Administrators \in [DOMAIN Administrators -> Membership!Addresses]
    BY LenProperties DEF UserConstants
  <2>3. DOMAIN Administrators = 1..Len(Administrators) /\ Len(Administrators) \in Nat
    BY ElementsOf DEF UserConstants
  <2>4. people \in [1..Len(Administrators) -> UserRows]
    BY <1>2, <2>1, <2>3
  <2> QED BY <2>3, <2>4, SeqDef DEF Membership!Ids
<1>4. \A u \in Membership!Ids : people[u].email = Administrators[u] /\ people[u].status = "active" /\ people[u].has = {"verified", "password"}
  BY <1>2, <1>3 DEF Membership!Row, Membership!Both
<1>5. InvitationsHold /\ RequestsHold
  <2>1. tasks \in [Requests -> AdministratorRequest]
    BY <1>2 DEF AdministratorRequest
  <2>2. <<>> \in Seq(Invitations) /\ <<>> \in Seq(Nat) /\ DOMAIN <<>> = {}
    BY EmptySeq
  <2> QED BY <1>2, <2>1, <2>2 DEF InvitationsHold, RequestsHold
<1>6. RowsHold(people, policy)
  <2>1. \A u \in DOMAIN people : people[u].status # "deleted"
    BY <1>4 DEF Membership!Ids
  <2>2. ASSUME NEW u \in DOMAIN people, NEW v \in DOMAIN people, people[u].email = people[v].email PROVE u = v
    <3>1. u \in DOMAIN Administrators /\ v \in DOMAIN Administrators /\ Administrators[u] = Administrators[v]
      BY <1>3, <1>4, <2>2 DEF Membership!Ids
    <3> QED BY <3>1, Zenon DEF UserConstants
  <2>3. \A u \in DOMAIN people : "verified" \in people[u].has
    BY <1>4 DEF Membership!Ids
  <2> QED BY <2>1, <2>2, <2>3 DEF RowsHold
<1>7. Membership!AdministratorStays
  BY <1>1, <1>3, <1>4 DEF Membership!AdministratorStays, Membership!Active
<1> QED BY <1>2, <1>3, <1>5, <1>6, <1>7 DEF UsersInv, PeopleHold, Barred

-----------------------------------------------------------------------------
(* What steps do to the users. *)

(* A new row with an address nobody has. *)
LEMMA PeopleAppended ==
  ASSUME PeopleHold, NEW entry \in UserRows, people' = Append(people, entry), UNCHANGED <<policy, barred, late>>,
         Membership!WithEmail(entry.email) = {}, entry.status # "deleted",
         "verified" \in policy /\ entry.status = "active" => "verified" \in entry.has
  PROVE  PeopleHold'
<1> DEFINE n == Len(people) + 1
<1>1. /\ people' \in Seq(UserRows) /\ DOMAIN people' = DOMAIN people \cup {n} /\ n \notin DOMAIN people
      /\ \A u \in DOMAIN people : people'[u] = people[u]
      /\ people'[n] = entry
  <2>1. people \in Seq(UserRows)
    BY DEF PeopleHold
  <2> HIDE DEF n
  <2>2. n = Len(people) + 1
    BY DEF n
  <2> QED BY <2>1, <2>2, Appended
<1> HIDE DEF n
<1>2. \A u \in DOMAIN people : people[u].email # entry.email
  BY DEF Membership!WithEmail, Membership!Ids
<1>3. RowsHold(people', policy')
  <2>1. RowsHold(people, policy)
    BY DEF PeopleHold
  <2>2. \A u \in DOMAIN people' : people'[u].status = "deleted" => people'[u].email = "" /\ people'[u].has = {}
    BY <1>1, <2>1 DEF RowsHold
  <2>3. \A u, v \in DOMAIN people' : people'[u].email = people'[v].email /\ people'[u].email # "" => u = v
    <3> SUFFICES ASSUME NEW u \in DOMAIN people', NEW v \in DOMAIN people', u # v,
                        people'[u].email = people'[v].email, people'[u].email # ""
                 PROVE  FALSE
      OBVIOUS
    <3>1. CASE u \in DOMAIN people /\ v \in DOMAIN people
      BY <1>1, <2>1, <3>1 DEF RowsHold
    <3>2. CASE u = n
      BY <1>1, <1>2, <3>2
    <3>3. CASE v = n
      BY <1>1, <1>2, <3>3
    <3> QED BY <1>1, <3>1, <3>2, <3>3
  <2>4. "verified" \in policy => \A u \in DOMAIN people' : people'[u].status = "active" => "verified" \in people'[u].has
    BY <1>1, <2>1 DEF RowsHold
  <2> QED BY <2>2, <2>3, <2>4 DEF RowsHold
<1>4. Barred' /\ Membership!AdministratorStays'
  BY <1>1 DEF PeopleHold, Barred, Membership!AdministratorStays, Membership!Active, Membership!Ids
<1> QED BY <1>1, <1>3, <1>4 DEF PeopleHold, Membership!Ids

(* Rows that keep their addresses or lose them. *)
LEMMA PeopleMapped ==
  ASSUME PeopleHold, people' \in [Membership!Ids -> UserRows], policy' = policy, barred' \subseteq Membership!Ids,
         \A u \in Membership!Ids : people'[u].email \in {people[u].email, ""},
         \A u \in Membership!Ids : people'[u].status = "deleted" => people'[u].email = "" /\ people'[u].has = {},
         \A u \in Membership!Ids : "verified" \in policy /\ people'[u].status = "active" => "verified" \in people'[u].has,
         \A u \in barred' : people'[u].status \in {"disabled", "deleted"},
         late' # {} \/ \E a \in DOMAIN Administrators : people'[a].status = "active"
  PROVE  PeopleHold'
<1>1. people' \in Seq(UserRows) /\ DOMAIN people' = Membership!Ids
  BY Mapped DEF PeopleHold, Membership!Ids
<1>2. RowsHold(people', policy')
  BY <1>1 DEF PeopleHold, RowsHold, Membership!Ids
<1> QED BY <1>1, <1>2 DEF PeopleHold, Barred, Membership!AdministratorStays, Membership!Active, Membership!Ids

-----------------------------------------------------------------------------
(* The steps. *)

(* A row that is inserted for an address nobody has. *)
LEMMA InsertStep ==
  ASSUME UsersInv, NEW e \in Emails, NEW as \in {"invited", "active"}, NEW has \in SUBSET {"verified"},
         as = "active" /\ "verified" \in policy => "verified" \in has,
         Membership!InsertUser(e, as, has), UNCHANGED <<policy, barred, late>>
  PROVE  PeopleHold'
<1> DEFINE entry == Membership!Row(e, as, has)
<1>1. entry \in UserRows /\ entry.email = e /\ entry.status = as /\ entry.has = has
  BY DEF UserRows, Membership!Row, Statuses, Membership!Addresses, Membership!Both
<1> HIDE DEF entry
<1>2. CASE Membership!WithEmail(e) # {}
  <2>1. UNCHANGED <<people, policy, barred, late>>
    BY <1>2 DEF Membership!InsertUser
  <2> QED BY <2>1 DEF UsersInv, PeopleHold, Barred, Membership!AdministratorStays, Membership!Active, Membership!Ids
<1>3. CASE Membership!WithEmail(e) = {}
  <2>1. people' = Append(people, entry)
    BY <1>3 DEF Membership!InsertUser, entry
  <2> QED BY <1>1, <1>3, <2>1, PeopleAppended DEF UsersInv
<1> QED BY <1>2, <1>3

(* Whatever leaves users, policy, barred and late alone keeps what holds of *)
(* the users. *)
LEMMA PeopleUnchanged == ASSUME PeopleHold, UNCHANGED <<people, policy, barred, late>> PROVE PeopleHold'
  BY DEF PeopleHold, Barred, Membership!AdministratorStays, Membership!Active, Membership!Ids

LEMMA InvitationsUnchanged == ASSUME InvitationsHold, UNCHANGED <<invitations, used>> PROVE InvitationsHold'
  BY DEF InvitationsHold

(* A request that is done is idle. *)
LEMMA DoneStep ==
  ASSUME RequestsHold, NEW r \in Requests, Membership!Done(r), late' \subseteq DOMAIN Administrators
  PROVE  RequestsHold'
  BY DEF RequestsHold, Membership!Done, AdministratorRequest

LEMMA RegisterStep == ASSUME UsersInv, Membership!Register PROVE UsersInv'
<1>1. PeopleHold'
  <2>1. PICK e \in Emails : Membership!InsertUser(e, IF "verified" \in policy THEN "invited" ELSE "active", {})
    BY DEF Membership!Register
  <2>2. UNCHANGED <<policy, barred, late>>
    BY DEF Membership!Register
  <2>3. CASE "verified" \in policy
    BY <2>1, <2>2, <2>3, InsertStep
  <2>4. CASE "verified" \notin policy
    BY <2>1, <2>2, <2>4, InsertStep
  <2> QED BY <2>3, <2>4
<1>2. InvitationsHold' /\ RequestsHold'
  BY InvitationsUnchanged DEF Membership!Register, UsersInv, RequestsHold
<1> QED BY <1>1, <1>2 DEF UsersInv

LEMMA CreateStep == ASSUME UsersInv, NEW r \in Requests, Membership!CreateUser(r) PROVE UsersInv'
<1>1. PeopleHold'
  <2>1. PICK e \in Emails, checked \in Membership!Checks : Membership!InsertUser(e, "active", checked)
    BY DEF Membership!CreateUser
  <2>2. checked \in SUBSET {"verified"} /\ ("verified" \in policy => "verified" \in checked)
    BY DEF Membership!Checks
  <2> QED BY <2>1, <2>2, InsertStep DEF Membership!CreateUser
<1>2. InvitationsHold'
  BY InvitationsUnchanged DEF Membership!CreateUser, UsersInv
<1>3. RequestsHold'
  BY DoneStep DEF Membership!CreateUser, UsersInv, RequestsHold
<1> QED BY <1>1, <1>2, <1>3 DEF UsersInv

LEMMA AuthorizeStep == ASSUME UsersInv, NEW r \in Requests, Membership!Authorize(r) PROVE UsersInv'
<1>1. PeopleHold' /\ InvitationsHold'
  BY PeopleUnchanged, InvitationsUnchanged DEF Membership!Authorize, UsersInv
<1>2. RequestsHold'
  <2>1. PICK a \in DOMAIN Administrators : tasks' = [tasks EXCEPT ![r] = [pc |-> "authorized", actor |-> a]]
    BY DEF Membership!Authorize
  <2> QED BY <2>1 DEF Membership!Authorize, UsersInv, RequestsHold, AdministratorRequest
<1> QED BY <1>1, <1>2 DEF UsersInv

LEMMA RefuseStep == ASSUME UsersInv, NEW r \in Requests, Membership!Refuse(r) PROVE UsersInv'
  BY PeopleUnchanged, InvitationsUnchanged, DoneStep DEF Membership!Refuse, UsersInv, RequestsHold

(* An invitation is one more that set no password. *)
LEMMA InviteStep == ASSUME UsersInv, NEW r \in Requests, Membership!InviteUser(r) PROVE UsersInv'
<1>1. PeopleHold' /\ RequestsHold'
  BY PeopleUnchanged, DoneStep DEF Membership!InviteUser, UsersInv, RequestsHold
<1>2. InvitationsHold'
  <2>1. PICK e \in Membership!Addresses : invitations' = Append(invitations, [email |-> e, state |-> "open"])
    BY DEF Membership!InviteUser
  <2>2. invitations \in Seq(Invitations) /\ used \in Seq(Nat) /\ used' = Append(used, 0)
    BY DEF Membership!InviteUser, UsersInv, InvitationsHold
  <2>3. [email |-> e, state |-> "open"] \in Invitations /\ 0 \in Nat
    BY DEF Invitations
  <2>4. Len(used) = Len(invitations)
    <3>1. 1..Len(used) = 1..Len(invitations) /\ Len(used) \in Nat /\ Len(invitations) \in Nat
      BY <2>2, ElementsOf DEF UsersInv, InvitationsHold
    <3> QED BY <3>1
  <2> DEFINE n == Len(invitations) + 1
             new == [email |-> e, state |-> "open"]
  <2>5. new.state = "open"
    OBVIOUS
  <2>6. n = Len(invitations) + 1 /\ n = Len(used) + 1
    BY <2>4
  <2> HIDE DEF n, new
  <2>7. /\ invitations' \in Seq(Invitations) /\ DOMAIN invitations' = DOMAIN invitations \cup {n} /\ n \notin DOMAIN invitations
        /\ (\A i \in DOMAIN invitations : invitations'[i] = invitations[i]) /\ invitations'[n] = new
    BY <2>1, <2>2, <2>3, <2>6, Appended DEF new
  <2>8. /\ used' \in Seq(Nat) /\ DOMAIN used' = DOMAIN used \cup {n}
        /\ (\A i \in DOMAIN used : used'[i] = used[i]) /\ used'[n] = 0
    BY <2>2, <2>3, <2>6, Appended
  <2> QED BY <2>5, <2>7, <2>8 DEF UsersInv, InvitationsHold
<1> QED BY <1>1, <1>2 DEF UsersInv

(* An invitation that changes its state, and is counted when it is accepted. *)
LEMMA InvitationSettled ==
  ASSUME InvitationsHold, NEW i \in DOMAIN invitations, invitations[i].state = "open", NEW to \in {"accepted", "expired"},
         invitations' = [invitations EXCEPT ![i].state = to],
         used' = IF to = "accepted" THEN [used EXCEPT ![i] = @ + 1] ELSE used
  PROVE  InvitationsHold'
<1>1. /\ invitations \in Seq(Invitations) /\ used \in Seq(Nat) /\ DOMAIN used = DOMAIN invitations
      /\ (\A n \in DOMAIN invitations : invitations[n] \in Invitations) /\ \A n \in DOMAIN used : used[n] \in Nat
  BY ElementsOf DEF InvitationsHold
<1>2. used[i] = 0
  BY DEF InvitationsHold
<1>3. invitations' \in [DOMAIN invitations -> Invitations]
  <2>1. invitations \in [DOMAIN invitations -> Invitations]
    BY <1>1, LenProperties
  <2>2. [invitations[i] EXCEPT !.state = to] \in Invitations
    BY <1>1 DEF Invitations
  <2> QED BY <2>1, <2>2
<1>4. used' \in [DOMAIN used -> Nat]
  <2>1. used \in [DOMAIN used -> Nat]
    BY <1>1, LenProperties
  <2>2. used[i] + 1 \in Nat
    BY <1>2
  <2> QED BY <2>1, <2>2
<1>5. /\ invitations' \in Seq(Invitations) /\ DOMAIN invitations' = DOMAIN invitations
      /\ used' \in Seq(Nat) /\ DOMAIN used' = DOMAIN used
  BY <1>1, <1>3, <1>4, Mapped
<1>6. ASSUME NEW n \in DOMAIN invitations
      PROVE  used'[n] = IF invitations'[n].state = "accepted" THEN 1 ELSE 0
  <2>1. CASE n = i
    <3>1. invitations'[i].state = to
      BY <1>1 DEF Invitations
    <3>2. used'[i] = IF to = "accepted" THEN 1 ELSE 0
      BY <1>1, <1>2
    <3> QED BY <2>1, <3>1, <3>2
  <2>2. CASE n # i
    <3>1. invitations'[n] = invitations[n] /\ used'[n] = used[n]
      BY <1>1, <2>2
    <3> QED BY <3>1 DEF InvitationsHold
  <2> QED BY <2>1, <2>2
<1> QED BY <1>1, <1>5, <1>6 DEF InvitationsHold

LEMMA ExpireStep == ASSUME UsersInv, NEW i \in DOMAIN invitations, Membership!Expire(i) PROVE UsersInv'
<1>1. PeopleHold' /\ RequestsHold'
  BY PeopleUnchanged DEF Membership!Expire, UsersInv, RequestsHold
<1>2. InvitationsHold'
  BY InvitationSettled DEF Membership!Expire, UsersInv
<1> QED BY <1>1, <1>2 DEF UsersInv

(* A row has its type. *)
LEMMA RowTyped ==
  ASSUME NEW e \in Membership!Addresses, NEW as \in Statuses, NEW has \in SUBSET Membership!Both
  PROVE  Membership!Row(e, as, has) \in UserRows
  BY DEF Membership!Row, UserRows

(* Whoever has the address keeps it, and only an invited user is let in. *)
LEMMA AcceptStep == ASSUME UserConstants, UsersInv, NEW i \in DOMAIN invitations, Membership!AcceptInvitation(i) PROVE UsersInv'
<1> DEFINE e == invitations[i].email
<1>1. e \in Membership!Addresses /\ e # ""
  <2>1. invitations[i] \in Invitations
    BY ElementsOf DEF UsersInv, InvitationsHold
  <2>2. e \in Membership!Addresses
    BY <2>1 DEF Invitations
  <2> QED BY <2>2 DEF UserConstants
<1>2. InvitationsHold' /\ RequestsHold'
  BY InvitationSettled DEF Membership!AcceptInvitation, UsersInv, RequestsHold
<1>3. people \in Seq(UserRows) /\ \A u \in Membership!Ids : people[u] \in UserRows
  BY ElementsOf DEF UsersInv, PeopleHold, Membership!Ids
<1>4. CASE Membership!WithEmail(e) = {}
  <2> DEFINE entry == Membership!Row(e, "active", Membership!Both)
  <2>1. entry \in UserRows /\ entry.email = e /\ entry.status = "active" /\ entry.has = {"verified", "password"}
    BY <1>1 DEF UserRows, Membership!Row, Statuses, Membership!Both
  <2>2. people' = Append(people, entry) /\ UNCHANGED <<policy, barred, late>>
    BY <1>4 DEF Membership!AcceptInvitation
  <2> HIDE DEF entry
  <2>3. PeopleHold'
    BY <1>4, <2>1, <2>2, PeopleAppended DEF UsersInv
  <2> QED BY <1>2, <2>3 DEF UsersInv
<1>5. CASE Membership!WithEmail(e) # {}
  <2> DEFINE accepted(u) == IF u.status = "invited" THEN Membership!Row(e, "active", Membership!Both) ELSE Membership!Row(e, u.status, u.has \cup {"password"})
  <2>1. people' = [u \in Membership!Ids |-> IF people[u].email = e THEN accepted(people[u]) ELSE people[u]]
    BY <1>5 DEF Membership!AcceptInvitation
  <2>2. ASSUME NEW u \in Membership!Ids
        PROVE  /\ people'[u] \in UserRows
               /\ people'[u].email \in {people[u].email, ""}
               /\ people'[u].status = "deleted" => people'[u].email = "" /\ people'[u].has = {}
               /\ "verified" \in policy /\ people'[u].status = "active" => "verified" \in people'[u].has
               /\ people'[u].status = people[u].status \/ people[u].status = "invited"
    <3>1. RowsHold(people, policy) /\ u \in DOMAIN people
      BY DEF UsersInv, PeopleHold, Membership!Ids
    <3>2. CASE people[u].email # e
      BY <1>3, <2>1, <3>1, <3>2 DEF RowsHold
    <3>3. CASE people[u].email = e /\ people[u].status = "invited"
      BY <1>1, <2>1, <3>3 DEF Membership!Row, UserRows, Statuses, Membership!Both
    <3>4. CASE people[u].email = e /\ people[u].status # "invited"
      <4>1. people'[u] = Membership!Row(e, people[u].status, people[u].has \cup {"password"})
        BY <2>1, <3>4
      <4>2. people[u].status \in Statuses /\ people[u].has \in SUBSET Membership!Both /\ people[u].status # "deleted"
        BY <1>1, <1>3, <3>1, <3>4 DEF UserRows, RowsHold
      <4>3. "verified" \in policy /\ people[u].status = "active" => "verified" \in people[u].has
        BY <3>1 DEF RowsHold
      <4>4. people'[u].email = e /\ people'[u].status = people[u].status /\ people'[u].has = people[u].has \cup {"password"}
        BY <4>1 DEF Membership!Row
      <4>5. people'[u] \in UserRows
        <5>1. people[u].has \cup {"password"} \in SUBSET Membership!Both
          BY <4>2 DEF Membership!Both
        <5>2. Membership!Row(e, people[u].status, people[u].has \cup {"password"}) \in UserRows
          BY <1>1, <4>2, <5>1, RowTyped
        <5> QED BY <4>1, <5>2
      <4> QED BY <3>4, <4>2, <4>3, <4>4, <4>5
    <3> QED BY <3>2, <3>3, <3>4
  <2>3. people' \in [Membership!Ids -> UserRows]
    BY <2>1, <2>2
  <2>4. UNCHANGED <<policy, barred, late>>
    BY DEF Membership!AcceptInvitation
  <2>5. barred' \subseteq Membership!Ids /\ \A u \in barred' : people'[u].status \in {"disabled", "deleted"}
    BY <2>2, <2>4 DEF UsersInv, PeopleHold, Barred
  <2>6. late' # {} \/ \E a \in DOMAIN Administrators : people'[a].status = "active"
    BY <2>2, <2>4 DEF UsersInv, PeopleHold, Membership!AdministratorStays, Membership!Active
  <2>7. PeopleHold'
    BY <2>2, <2>3, <2>4, <2>5, <2>6, PeopleMapped DEF UsersInv
  <2> QED BY <1>2, <2>7 DEF UsersInv
<1> QED BY <1>4, <1>5

(* One row that changes its status. *)
LEMMA PersonSettled ==
  ASSUME UsersInv, NEW u \in Membership!Ids, NEW entry \in UserRows, people' = [people EXCEPT ![u] = entry], policy' = policy,
         entry.email \in {people[u].email, ""},
         entry.status = "deleted" => entry.email = "" /\ entry.has = {},
         "verified" \in policy /\ entry.status = "active" => "verified" \in entry.has,
         barred' \subseteq barred \cup {u}, u \in barred' => entry.status \in {"disabled", "deleted"},
         late \subseteq late',
         entry.status = "active" \/ late' # {} \/ \E a \in Membership!Ids \ {u} : a \in DOMAIN Administrators /\ Membership!Active(a)
  PROVE  PeopleHold'
<1>1. people \in Seq(UserRows) /\ (\A v \in Membership!Ids : people[v] \in UserRows) /\ RowsHold(people, policy)
  BY ElementsOf DEF UsersInv, PeopleHold, Membership!Ids
<1>2. people' \in [Membership!Ids -> UserRows] /\ people'[u] = entry /\ \A v \in Membership!Ids : v # u => people'[v] = people[v]
  <2>1. people \in [Membership!Ids -> UserRows]
    BY <1>1, LenProperties DEF Membership!Ids
  <2> QED BY <2>1
<1>3. /\ \A v \in Membership!Ids : people'[v].email \in {people[v].email, ""}
      /\ \A v \in Membership!Ids : people'[v].status = "deleted" => people'[v].email = "" /\ people'[v].has = {}
      /\ \A v \in Membership!Ids : "verified" \in policy /\ people'[v].status = "active" => "verified" \in people'[v].has
  BY <1>1, <1>2 DEF RowsHold, Membership!Ids
<1>4. barred' \subseteq Membership!Ids /\ \A v \in barred' : people'[v].status \in {"disabled", "deleted"}
  BY <1>2 DEF UsersInv, PeopleHold, Barred
<1>5. late' # {} \/ \E a \in DOMAIN Administrators : people'[a].status = "active"
  <2>1. CASE entry.status = "active"
    BY <1>2, <2>1 DEF UsersInv, PeopleHold, Membership!AdministratorStays, Membership!Active
  <2>2. CASE late' # {} \/ \E a \in Membership!Ids \ {u} : a \in DOMAIN Administrators /\ Membership!Active(a)
    BY <1>2, <2>2 DEF Membership!Active
  <2> QED BY <2>1, <2>2
<1> QED BY <1>2, <1>3, <1>4, <1>5, PeopleMapped DEF UsersInv

LEMMA ActivateStep == ASSUME UsersInv, NEW r \in Requests, Membership!Activate(r) PROVE UsersInv'
<1>1. InvitationsHold' /\ RequestsHold'
  BY InvitationsUnchanged, DoneStep DEF Membership!Activate, UsersInv, RequestsHold
<1>2. PICK u \in Membership!Ids, checked \in Membership!Checks : Membership!ActivateUser(u, checked)
  BY DEF Membership!Activate
<1> DEFINE entry == Membership!Row(people[u].email, "active", people[u].has \cup checked)
<1>3. checked \in SUBSET {"verified"} /\ ("verified" \in policy => "verified" \in checked)
  BY DEF Membership!Checks
<1>4. people[u] \in UserRows
  BY ElementsOf DEF UsersInv, PeopleHold, Membership!Ids
<1>5. entry \in UserRows /\ entry.email = people[u].email /\ entry.status = "active" /\ entry.has = people[u].has \cup checked
  BY <1>3, <1>4 DEF UserRows, Membership!Row, Statuses, Membership!Both
<1>6. people' = [people EXCEPT ![u] = entry] /\ barred' = barred \ {u} /\ policy' = policy /\ late' = late
  BY <1>2 DEF Membership!ActivateUser, Membership!Activate
<1> HIDE DEF entry
<1>7. PeopleHold'
  BY <1>3, <1>5, <1>6, PersonSettled
<1> QED BY <1>1, <1>7 DEF UsersInv

(* Nobody ends themselves: an active administrator who ends another stays. *)
LEMMA EndStep == ASSUME UsersInv, NEW r \in Requests, Membership!End(r) PROVE UsersInv'
<1> DEFINE actor == tasks[r].actor
<1>1. tasks[r] \in AdministratorRequest /\ tasks[r].pc = "authorized"
  BY DEF UsersInv, RequestsHold, Membership!End, Membership!Authorized
<1>2. actor \in DOMAIN Administrators /\ actor \in Membership!Ids
  BY <1>1 DEF AdministratorRequest, Membership!Idle, UsersInv, PeopleHold
<1> HIDE DEF actor
<1>3. late' = (IF Membership!Active(actor) THEN late ELSE late \cup {actor}) /\ policy' = policy
  BY DEF Membership!End, actor
<1>4. InvitationsHold' /\ RequestsHold'
  BY <1>2, <1>3, InvitationsUnchanged, DoneStep DEF Membership!End, UsersInv, RequestsHold
<1>5. PICK u \in Membership!Ids \ {actor} : Membership!DisableUser(u) \/ Membership!DeleteUser(u)
  BY DEF Membership!End, actor
<1>6. late \subseteq late' /\ (late' # {} \/ \E a \in Membership!Ids \ {u} : a \in DOMAIN Administrators /\ Membership!Active(a))
  BY <1>2, <1>3, <1>5
<1>7. people[u] \in UserRows
  BY ElementsOf DEF UsersInv, PeopleHold, Membership!Ids
<1>8. CASE Membership!DisableUser(u)
  <2> DEFINE entry == Membership!Row(people[u].email, "disabled", people[u].has)
  <2>1. entry \in UserRows /\ entry.email = people[u].email /\ entry.status = "disabled"
    BY <1>7 DEF UserRows, Membership!Row, Statuses
  <2>2. people' = [people EXCEPT ![u] = entry] /\ barred' = barred \cup {u}
    BY <1>8 DEF Membership!DisableUser
  <2> HIDE DEF entry
  <2> QED BY <1>3, <1>4, <1>6, <2>1, <2>2, PersonSettled DEF UsersInv
<1>9. CASE Membership!DeleteUser(u)
  <2> DEFINE entry == Membership!Row("", "deleted", {})
  <2>1. entry \in UserRows /\ entry.email = "" /\ entry.status = "deleted" /\ entry.has = {}
    BY DEF UserRows, Membership!Row, Statuses
  <2>2. people' = [people EXCEPT ![u] = entry] /\ barred' = barred
    BY <1>9 DEF Membership!DeleteUser
  <2> HIDE DEF entry
  <2> QED BY <1>3, <1>4, <1>6, <2>1, <2>2, PersonSettled DEF UsersInv
<1> QED BY <1>5, <1>8, <1>9

-----------------------------------------------------------------------------
(* Every step keeps the invariant. *)
LEMMA StepUsers == ASSUME UserConstants, UsersInv, [Membership!Next]_Membership!vars PROVE UsersInv'
<1>1. CASE UNCHANGED Membership!vars
  BY <1>1, PeopleUnchanged, InvitationsUnchanged DEF Membership!vars, UsersInv, RequestsHold
<1>2. CASE Membership!Next
  BY <1>2, RegisterStep, AcceptStep, ExpireStep, AuthorizeStep, CreateStep, InviteStep, ActivateStep, EndStep, RefuseStep DEF Membership!Next
<1> QED BY <1>1, <1>2

(* What the invariant says to a reader. *)
LEMMA UsersHold == ASSUME UserConstants, UsersInv PROVE UsersStand
<1>1. Membership!VerifiedWhenRequired /\ Membership!DeletedHaveNothing
  BY DEF UsersInv, PeopleHold, RowsHold, Membership!VerifiedWhenRequired, Membership!DeletedHaveNothing, Membership!Active, Membership!Ids
<1>2. Membership!BarredStayOut /\ Membership!AdministratorStays
  BY DEF UsersInv, PeopleHold, Barred, Membership!BarredStayOut, Membership!Active
<1>3. Membership!InvitationsOnce
  <2>1. ASSUME NEW e \in Membership!Addresses
        PROVE  Cardinality(Membership!WithEmail(e)) <= 1
    <3>1. \A u, v \in Membership!WithEmail(e) : u = v
      BY DEF UsersInv, PeopleHold, RowsHold, Membership!WithEmail, Membership!Ids, UserConstants
    <3>2. CASE Membership!WithEmail(e) = {}
      BY <3>2, FS_EmptySet
    <3>3. CASE Membership!WithEmail(e) # {}
      <4>1. PICK u \in Membership!WithEmail(e) : TRUE
        BY <3>3
      <4>2. Membership!WithEmail(e) = {u}
        BY <3>1, <4>1
      <4>3. Cardinality({u}) = 1
        BY FS_Singleton
      <4> QED BY <4>2, <4>3
    <3> QED BY <3>2, <3>3
  <2> QED BY <2>1, MembershipCounts DEF UsersInv, InvitationsHold, Membership!InvitationsOnce
<1>4. Membership!TypeOK
  <2>1. used \in [DOMAIN invitations -> Nat]
    <3>1. DOMAIN used = 1..Len(used) /\ \A n \in DOMAIN used : used[n] \in Nat
      BY ElementsOf DEF UsersInv, InvitationsHold
    <3>2. used \in [1..Len(used) -> Nat]
      BY LenProperties DEF UsersInv, InvitationsHold
    <3> QED BY <3>1, <3>2 DEF UsersInv, InvitationsHold
  <2>2. policy \in SUBSET {"register", "verified"}
    BY DEF UsersInv, PeopleHold
  <2> QED
    BY <2>1, <2>2 DEF UsersInv, PeopleHold, InvitationsHold, RequestsHold, Membership!TypeOK, UserRows, Statuses,
                      Invitations, AdministratorRequest
<1> QED BY <1>1, <1>2, <1>3, <1>4 DEF Membership!UsersStand, UsersStand

(* The invariant holds always (UserLifecycleService and its repository).    *)
THEOREM UsersInvariant == ASSUME UserConstants PROVE Membership!Spec => []UsersInv
  BY InitUsers, StepUsers, PTL DEF Membership!Spec

(* Whatever administrators, invited users and those who register do at the  *)
(* same time: where addresses have to be verified nobody is active without, *)
(* a disabled user is let in by an administrator only, nothing is left of a *)
(* deleted one, an invitation sets one password, addresses stay unique, and *)
(* an administrator stays, unless one who was ended in between ended others *)
(* (disable and delete ask for the caller's status only on arrival).        *)
THEOREM UsersSound == ASSUME UserConstants PROVE Membership!Spec => []UsersStand
<1>1. UsersInv => UsersStand
  BY UsersHold
<1> QED BY <1>1, UsersInvariant, PTL

-----------------------------------------------------------------------------
(* A user who could sign in still can, for any number of subjects, users    *)
(* and requests (module Identities).                                        *)

(* The instance counts as everybody does.                                   *)
LEMMA LinksCount == \A S : (Links!IsFiniteSet(S) <=> IsFiniteSet(S)) /\ Links!Cardinality(S) = Cardinality(S)
  BY DEF Links!Cardinality, Cardinality, Links!IsFiniteSet, IsFiniteSet

UnlinkSteps == {"local", "count", "delete"}
LinkTask == [pc : {"idle", "create", "link"} \cup UnlinkSteps, user : Nat, subject : Subjects \cup {""}, count : Nat, local : BOOLEAN]

(* Requests name a subject and, when they have one, a user.                 *)
Named(q) == /\ q.pc # "idle" => q.subject \in Subjects
            /\ q.pc \notin {"idle", "create"} => q.user # 0

LinksTyped ==
  /\ IsFiniteSet(users) /\ users \subseteq Nat \ {0}
  /\ owner \in [Subjects -> Nat]
  /\ task \in [Requests -> LinkTask]
  /\ \A c \in Requests : Named(task[c])

(* A user with a password, a link, a link on its way, or one that failed.   *)
HasWay(u) == \/ u \in local \/ u \in orphans
             \/ \E s \in Subjects : owner[s] = u
             \/ \E c \in Requests : task[c].pc = "link" /\ task[c].user = u

(* What an unlinking goes on with: another way than the one it removes.     *)
Spared(c) == \/ task[c].user \in local
             \/ \E s \in Subjects : owner[s] = task[c].user /\ s # task[c].subject

LinksStand ==
  /\ \A c \in Requests : task[c].pc = "count" => (task[c].local <=> task[c].user \in local)
  /\ overlapped \/ \A c, d \in Requests : task[c].pc \in UnlinkSteps /\ task[d].pc \in UnlinkSteps
                                         /\ task[c].user = task[d].user => c = d
  /\ overlapped \/ \A c \in Requests : task[c].pc = "delete" => Spared(c)
  /\ overlapped \/ \A u \in users : HasWay(u)

LinksInv == LinksTyped /\ LinksStand

(* Initially one user has a password and the other a subject. *)
LEMMA InitLinks == Links!Init => LinksInv
<1> SUFFICES ASSUME Links!Init PROVE LinksInv
  OBVIOUS
<1>1. PICK s \in Subjects : owner = [r \in Subjects |-> IF r = s THEN 2 ELSE 0]
  BY DEF Links!Init, Links!None
<1>2. /\ users = {1, 2} /\ local = {1}
      /\ \A c \in Requests : task[c] = Links!Idle
      /\ task = [c \in Requests |-> Links!Idle]
  BY DEF Links!Init
<1>3. Links!Idle \in LinkTask /\ Links!Idle.pc = "idle"
  BY DEF Links!Idle, Links!None, LinkTask
<1>4. IsFiniteSet({1, 2})
  <2>1. {1, 2} = ({} \cup {1}) \cup {2}
    OBVIOUS
  <2>2. IsFiniteSet({} \cup {1})
    BY FS_EmptySet, FS_AddElement
  <2> QED BY <2>1, <2>2, FS_AddElement
<1>5. LinksTyped
  BY <1>1, <1>2, <1>3, <1>4 DEF LinksTyped, Named
<1>6. owner[s] = 2
  BY <1>1
<1> QED BY <1>2, <1>3, <1>5, <1>6 DEF LinksInv, LinksStand, HasWay, UnlinkSteps

(* A request that goes on: the others stay where they are.                  *)
OnlyTask(c) == \A d \in Requests : d # c => task'[d] = task[d]

(* The request becomes q, and the links stay. *)
LEMMA TaskOn ==
  ASSUME LinksInv, NEW c \in Requests, NEW q \in LinkTask, task' = [task EXCEPT ![c] = q],
         Named(q),
         UNCHANGED <<owner, local>>, users' = users, overlapped => overlapped',
         orphans \subseteq orphans', q.pc = "count" => (q.local <=> q.user \in local),
         overlapped' \/ (q.pc \in UnlinkSteps => \A d \in Requests \ {c} : task[d].pc \in UnlinkSteps => task[d].user # q.user),
         overlapped' \/ (q.pc = "delete" => q.user \in local \/ \E s \in Subjects : owner[s] = q.user /\ s # q.subject),
         task[c].pc = "link" => task[c].user \in local \cup orphans' \/ \E s \in Subjects : owner[s] = task[c].user
  PROVE  LinksInv'
<1>1. task \in [Requests -> LinkTask] /\ OnlyTask(c) /\ task'[c] = q
  BY DEF LinksInv, LinksTyped, OnlyTask
<1>2. LinksTyped'
  BY <1>1 DEF LinksInv, LinksTyped, OnlyTask, Named
<1>3. \A d \in Requests : task'[d].pc = "count" => (task'[d].local <=> task'[d].user \in local')
  BY <1>1 DEF LinksInv, LinksStand, OnlyTask
<1>4. overlapped' \/ \A d, e \in Requests : task'[d].pc \in UnlinkSteps /\ task'[e].pc \in UnlinkSteps
                                           /\ task'[d].user = task'[e].user => d = e
  <2> SUFFICES ASSUME ~overlapped', NEW d \in Requests, NEW e \in Requests,
                      task'[d].pc \in UnlinkSteps, task'[e].pc \in UnlinkSteps, task'[d].user = task'[e].user
               PROVE  d = e
    OBVIOUS
  <2>1. CASE d # c /\ e # c
    BY <1>1, <2>1 DEF LinksInv, LinksStand, OnlyTask
  <2>2. CASE d = c \/ e = c
    BY <1>1, <2>2 DEF OnlyTask
  <2> QED BY <2>1, <2>2
<1>5. overlapped' \/ \A d \in Requests : task'[d].pc = "delete" => Spared(d)'
  <2> SUFFICES ASSUME ~overlapped', NEW d \in Requests, task'[d].pc = "delete" PROVE Spared(d)'
    OBVIOUS
  <2>1. CASE d = c
    BY <1>1, <2>1 DEF Spared
  <2>2. CASE d # c
    BY <1>1, <2>2 DEF LinksInv, LinksStand, Spared, OnlyTask
  <2> QED BY <2>1, <2>2
<1>6. overlapped' \/ \A u \in users' : HasWay(u)'
  <2> SUFFICES ASSUME ~overlapped', NEW u \in users PROVE HasWay(u)'
    OBVIOUS
  <2>1. HasWay(u)
    BY DEF LinksInv, LinksStand
  <2>2. CASE u \in local \cup orphans \/ \E s \in Subjects : owner[s] = u
    BY <2>2 DEF HasWay
  <2>3. ASSUME NEW d \in Requests, task[d].pc = "link", task[d].user = u
        PROVE  HasWay(u)'
    BY <1>1, <2>3 DEF HasWay, OnlyTask
  <2> QED BY <2>1, <2>2, <2>3 DEF HasWay
<1> QED BY <1>2, <1>3, <1>4, <1>5, <1>6 DEF LinksInv, LinksStand

LEMMA IdleTyped == Links!Idle \in LinkTask /\ Links!Idle.pc = "idle"
  BY DEF Links!Idle, Links!None, LinkTask

LEMMA LoginStep == ASSUME LinksInv, NEW c \in Requests, NEW s \in Subjects, Links!Login(c, s) PROVE LinksInv'
<1> DEFINE q == [Links!Idle EXCEPT !.pc = "create", !.subject = s]
<1>1. q \in LinkTask /\ q.pc = "create" /\ q.subject = s
  BY DEF Links!Idle, Links!None, LinkTask
<1>2. task' = [task EXCEPT ![c] = q] /\ UNCHANGED <<owner, local, users, orphans, overlapped>> /\ task[c].pc = "idle"
  BY DEF Links!Login
<1> HIDE DEF q
<1> QED BY <1>1, <1>2, TaskOn DEF UnlinkSteps, Named

LEMMA LinkByHandStep ==
  ASSUME LinksInv, NEW c \in Requests, NEW s \in Subjects, NEW u \in users, Links!LinkByHand(c, u, s) PROVE LinksInv'
<1> DEFINE q == [Links!Idle EXCEPT !.pc = "link", !.user = u, !.subject = s]
<1>1. q \in LinkTask /\ q.pc = "link" /\ q.subject = s /\ q.user # 0
  BY DEF Links!Idle, Links!None, LinkTask, LinksInv, LinksTyped
<1>2. task' = [task EXCEPT ![c] = q] /\ UNCHANGED <<owner, local, users, orphans, overlapped>> /\ task[c].pc = "idle"
  BY DEF Links!LinkByHand
<1> HIDE DEF q
<1> QED BY <1>1, <1>2, TaskOn DEF UnlinkSteps, Named

(* An unlinking that begins while another of the user is under way is the   *)
(* exception; otherwise it is the only one.                                 *)
LEMMA FindForUserStep ==
  ASSUME LinksInv, NEW c \in Requests, NEW s \in Subjects, NEW u \in users, Links!FindForUser(c, u, s) PROVE LinksInv'
<1> DEFINE q == [Links!Idle EXCEPT !.pc = "local", !.user = u, !.subject = s]
<1>1. q \in LinkTask /\ q.pc = "local" /\ q.subject = s /\ q.user = u /\ u # 0
  BY DEF Links!Idle, Links!None, LinkTask, LinksInv, LinksTyped, UnlinkSteps
<1>2. /\ task' = [task EXCEPT ![c] = q] /\ UNCHANGED <<owner, local, users, orphans>> /\ task[c].pc = "idle"
      /\ overlapped' = (overlapped \/ Links!Unlinking(u) # {})
  BY DEF Links!FindForUser
<1>3. overlapped' \/ \A d \in Requests \ {c} : task[d].pc \in UnlinkSteps => task[d].user # u
  BY <1>2 DEF Links!Unlinking, UnlinkSteps
<1> HIDE DEF q
<1> QED BY <1>1, <1>2, <1>3, TaskOn DEF Named

(* A request that is unlinking goes on: it is still the only one.           *)
LEMMA OnlyUnlinking ==
  ASSUME LinksInv, NEW c \in Requests, task[c].pc \in UnlinkSteps
  PROVE  overlapped \/ \A d \in Requests \ {c} : task[d].pc \in UnlinkSteps => task[d].user # task[c].user
  BY DEF LinksInv, LinksStand

LEMMA HasLocalLoginStep == ASSUME LinksInv, NEW c \in Requests, Links!HasLocalLogin(c) PROVE LinksInv'
<1> DEFINE q == [task[c] EXCEPT !.pc = "count", !.local = task[c].user \in local]
<1>0. task[c] \in LinkTask /\ task[c].pc = "local" /\ Named(task[c])
  BY DEF Links!HasLocalLogin, LinksInv, LinksTyped
<1>3. PICK b \in BOOLEAN : b = (task[c].user \in local)
  <2>1. (task[c].user \in local) = TRUE \/ (task[c].user \in local) = FALSE
    BY SMT
  <2> QED BY <2>1, Zenon
<1>4. q = [task[c] EXCEPT !.pc = "count", !.local = b]
  BY ONLY <1>3, Zenon
<1>5. q \in LinkTask /\ q.pc = "count" /\ q.subject = task[c].subject /\ q.user = task[c].user /\ q.local = b
  BY <1>0, <1>4 DEF LinkTask, UnlinkSteps
<1>1. q \in LinkTask /\ q.pc = "count" /\ q.subject = task[c].subject /\ q.user = task[c].user /\ (q.local <=> q.user \in local)
  BY <1>3, <1>5, Zenon
<1>2. task' = [task EXCEPT ![c] = q] /\ UNCHANGED <<owner, local, users, orphans, overlapped>>
  BY DEF Links!HasLocalLogin, LinksInv, LinksTyped
<1> HIDE DEF q
<1> QED BY <1>0, <1>1, <1>2, TaskOn, OnlyUnlinking DEF UnlinkSteps, Named

(* Whoever has more than one link has another than any one of them.         *)
LEMMA AnotherLink ==
  ASSUME IsFiniteSet(Subjects), NEW u, NEW s, ~(Links!Cardinality(Links!LinksOf(u)) <= 1)
  PROVE  \E r \in Subjects : owner[r] = u /\ r # s
<1> SUFFICES ASSUME \A r \in Links!LinksOf(u) : r = s PROVE FALSE
  BY DEF Links!LinksOf
<1>1. Cardinality({s}) = 1 /\ IsFiniteSet({s})
  BY FS_Singleton
<1>2. Links!LinksOf(u) \subseteq {s}
  OBVIOUS
<1>3. Cardinality(Links!LinksOf(u)) <= Cardinality({s})
  BY <1>1, <1>2, FS_Subset
<1> QED BY <1>1, <1>3, LinksCount

LEMMA CountStep == ASSUME IsFiniteSet(Subjects), LinksInv, NEW c \in Requests, Links!Count(c) PROVE LinksInv'
<1>0. task[c] \in LinkTask /\ task[c].pc = "count" /\ Named(task[c])
      /\ UNCHANGED <<owner, local, users, orphans, overlapped>>
  BY DEF Links!Count, LinksInv, LinksTyped
<1>1. CASE task' = [task EXCEPT ![c] = Links!Idle]
  BY <1>0, <1>1, IdleTyped, TaskOn DEF UnlinkSteps, Named
<1>2. CASE /\ task' = [task EXCEPT ![c].pc = "delete"]
           /\ task[c].local \/ ~(Links!Cardinality(Links!LinksOf(task[c].user)) <= 1)
  <2> DEFINE q == [task[c] EXCEPT !.pc = "delete"]
  <2>1. q \in LinkTask /\ q.pc = "delete" /\ q.subject = task[c].subject /\ q.user = task[c].user
    BY <1>0 DEF LinkTask, UnlinkSteps
  <2>2. task' = [task EXCEPT ![c] = q]
    BY <1>2 DEF LinksInv, LinksTyped
  <2>3. q.user \in local \/ \E s \in Subjects : owner[s] = q.user /\ s # q.subject
    <3>1. CASE task[c].local
      BY <1>0, <2>1, <3>1 DEF LinksInv, LinksStand
    <3>2. CASE ~(Links!Cardinality(Links!LinksOf(task[c].user)) <= 1)
      BY <2>1, <3>2, AnotherLink
    <3> QED BY <1>2, <3>1, <3>2
  <2> HIDE DEF q
  <2> QED BY <1>0, <2>1, <2>2, <2>3, TaskOn, OnlyUnlinking DEF UnlinkSteps, Named
<1> QED BY <1>1, <1>2 DEF Links!Count, Links!Done

(* A failed request has linked its user, or is the history's to tell.       *)
LEMMA EndedLink ==
  ASSUME NEW u, orphans' = IF Links!LinksOf(u) = {} /\ u \notin local THEN orphans \cup {u} ELSE orphans
  PROVE  u \in local \cup orphans' \/ \E s \in Subjects : owner[s] = u
  BY DEF Links!LinksOf

LEMMA DieStep == ASSUME LinksInv, NEW c \in Requests, Links!Die(c) PROVE LinksInv'
<1>1. task' = [task EXCEPT ![c] = Links!Idle] /\ UNCHANGED <<owner, local, users, overlapped>> /\ orphans \subseteq orphans'
  BY DEF Links!Die, Links!Done
<1>2. task[c].pc = "link" => task[c].user \in local \cup orphans' \/ \E s \in Subjects : owner[s] = task[c].user
  BY EndedLink DEF Links!Die
<1> QED BY <1>1, <1>2, IdleTyped, TaskOn DEF UnlinkSteps, Named

(* A link that is made is its user's; no other user had it.                 *)
LEMMA LinkStep == ASSUME LinksInv, NEW c \in Requests, Links!Link(c) PROVE LinksInv'
<1>1. task[c] \in LinkTask /\ task[c].pc = "link" /\ Named(task[c])
      /\ task' = [task EXCEPT ![c] = Links!Idle] /\ UNCHANGED <<users, emails, local, overlapped>>
  BY DEF Links!Link, Links!Done, LinksInv, LinksTyped
<1>2. CASE owner[task[c].subject] # Links!None
  <2>1. UNCHANGED owner /\ orphans \subseteq orphans'
    BY <1>2 DEF Links!Link
  <2>2. task[c].user \in local \cup orphans' \/ \E s \in Subjects : owner[s] = task[c].user
    BY <1>2, EndedLink DEF Links!Link
  <2> QED BY <1>1, <2>1, <2>2, IdleTyped, TaskOn DEF UnlinkSteps, Named
<1>3. CASE owner[task[c].subject] = Links!None
  <2> DEFINE u == task[c].user
             s == task[c].subject
  <2>1. owner' = [owner EXCEPT ![s] = u] /\ UNCHANGED orphans /\ owner[s] = 0
    BY <1>3 DEF Links!Link, Links!None
  <2>2. owner \in [Subjects -> Nat] /\ u \in Nat /\ s \in Subjects /\ users \subseteq Nat \ {0}
    BY <1>1 DEF LinksInv, LinksTyped, LinkTask, Named
  <2>3. owner' \in [Subjects -> Nat] /\ owner'[s] = u /\ \A r \in Subjects : r # s => owner'[r] = owner[r]
    BY <2>1, <2>2
  <2>4. /\ task'[c] = Links!Idle /\ OnlyTask(c)
        /\ task' \in [Requests -> LinkTask]
    BY <1>1, IdleTyped DEF LinksInv, LinksTyped, OnlyTask
  <2> HIDE DEF u, s
  <2>5. LinksTyped'
    BY <1>1, <2>3, <2>4, IdleTyped DEF LinksInv, LinksTyped, OnlyTask, Named
  <2>6. \A d \in Requests : task'[d].pc = "count" => (task'[d].local <=> task'[d].user \in local')
    BY <1>1, <2>4, IdleTyped DEF LinksInv, LinksStand, OnlyTask
  <2>7. overlapped' \/ \A d, e \in Requests : task'[d].pc \in UnlinkSteps /\ task'[e].pc \in UnlinkSteps
                                             /\ task'[d].user = task'[e].user => d = e
    BY <1>1, <2>4, IdleTyped DEF LinksInv, LinksStand, OnlyTask, UnlinkSteps
  <2>8. overlapped' \/ \A d \in Requests : task'[d].pc = "delete" => Spared(d)'
    <3> SUFFICES ASSUME ~overlapped, NEW d \in Requests, task'[d].pc = "delete" PROVE Spared(d)'
      BY <1>1
    <3>1. task'[d] = task[d] /\ Spared(d)
      BY <2>4, IdleTyped DEF LinksInv, LinksStand, OnlyTask
    <3>2. ASSUME NEW r \in Subjects, owner[r] = task[d].user, r # task[d].subject PROVE Spared(d)'
      <4>1. CASE r # s
        BY <2>3, <3>1, <3>2, <4>1 DEF Spared
      <4>2. CASE r = s
        BY <2>1, <3>1, <3>2, <4>2, <2>4, IdleTyped DEF LinksInv, LinksTyped, Named
      <4> QED BY <4>1, <4>2
    <3> QED BY <1>1, <3>1, <3>2 DEF Spared
  <2>9. overlapped' \/ \A v \in users' : HasWay(v)'
    <3> SUFFICES ASSUME ~overlapped, NEW v \in users PROVE HasWay(v)'
      BY <1>1
    <3>1. HasWay(v) /\ v # 0
      BY <2>2 DEF LinksInv, LinksStand
    <3>2. CASE v \in local \cup orphans
      BY <1>1, <2>1, <3>2 DEF HasWay
    <3>3. ASSUME NEW r \in Subjects, owner[r] = v PROVE HasWay(v)'
      BY <2>1, <2>3, <3>1, <3>3 DEF HasWay
    <3>4. ASSUME NEW d \in Requests, task[d].pc = "link", task[d].user = v PROVE HasWay(v)'
      <4>1. CASE d = c
        BY <2>2, <2>3, <3>4, <4>1 DEF HasWay, u
      <4>2. CASE d # c
        BY <2>4, <3>4, <4>2 DEF HasWay, OnlyTask
      <4> QED BY <4>1, <4>2
    <3> QED BY <3>1, <3>2, <3>3, <3>4 DEF HasWay
  <2> QED BY <2>5, <2>6, <2>7, <2>8, <2>9 DEF LinksInv, LinksStand
<1> QED BY <1>2, <1>3

(* A new user is on the way to a link.                                      *)
LEMMA CreateUserStep == ASSUME LinksInv, NEW c \in Requests, Links!CreateUser(c) PROVE LinksInv'
<1>1. task[c] \in LinkTask /\ task[c].pc = "create" /\ Named(task[c]) /\ UNCHANGED <<owner, local, orphans, overlapped>>
  BY DEF Links!CreateUser, LinksInv, LinksTyped
<1>2. CASE task' = [task EXCEPT ![c] = Links!Idle] /\ users' = users
  BY <1>1, <1>2, IdleTyped, TaskOn DEF UnlinkSteps, Named
<1>3. CASE task[c].subject \notin emails
  <2> DEFINE u == Cardinality(users) + 1
             q == [task[c] EXCEPT !.pc = "link", !.user = u]
  <2>1. u \in Nat \ {0}
    BY FS_CardinalityType DEF LinksInv, LinksTyped
  <2>2. task' = [task EXCEPT ![c].pc = "link", ![c].user = u] /\ users' = users \cup {u}
    BY <1>3, LinksCount DEF Links!CreateUser
  <2> HIDE DEF u
  <2>3. q \in LinkTask /\ q.pc = "link" /\ q.subject = task[c].subject /\ q.user = u
    BY <1>1, <2>1 DEF LinkTask, UnlinkSteps
  <2>4. task' = [task EXCEPT ![c] = q]
    BY <2>2 DEF LinksInv, LinksTyped
  <2> HIDE DEF q
  <2>5. task'[c] = q /\ OnlyTask(c) /\ task' \in [Requests -> LinkTask]
    BY <2>3, <2>4 DEF LinksInv, LinksTyped, OnlyTask
  <2>6. LinksTyped'
    <3>1. IsFiniteSet(users') /\ users' \subseteq Nat \ {0}
      BY <2>1, <2>2, FS_AddElement DEF LinksInv, LinksTyped
    <3>2. \A d \in Requests : Named(task'[d])
      BY <1>1, <2>1, <2>3, <2>5 DEF LinksInv, LinksTyped, OnlyTask, Named
    <3> QED BY <1>1, <2>5, <3>1, <3>2 DEF LinksInv, LinksTyped, Named
  <2>7. \A d \in Requests : task'[d].pc = "count" => (task'[d].local <=> task'[d].user \in local')
    BY <1>1, <2>3, <2>5 DEF LinksInv, LinksStand, OnlyTask
  <2>8. overlapped' \/ \A d, e \in Requests : task'[d].pc \in UnlinkSteps /\ task'[e].pc \in UnlinkSteps
                                             /\ task'[d].user = task'[e].user => d = e
    BY <1>1, <2>3, <2>5 DEF LinksInv, LinksStand, OnlyTask, UnlinkSteps
  <2>9. overlapped' \/ \A d \in Requests : task'[d].pc = "delete" => Spared(d)'
    <3> SUFFICES ASSUME ~overlapped, NEW d \in Requests, task'[d].pc = "delete" PROVE Spared(d)'
      BY <1>1
    <3>1. task'[d] = task[d] /\ Spared(d)
      BY <2>3, <2>5 DEF LinksInv, LinksStand, OnlyTask
    <3> QED BY <1>1, <3>1 DEF Spared
  <2>10. overlapped' \/ \A v \in users' : HasWay(v)'
    <3> SUFFICES ASSUME ~overlapped, NEW v \in users' PROVE HasWay(v)'
      BY <1>1
    <3>1. CASE v = u
      BY <2>3, <2>5, <3>1 DEF HasWay
    <3>2. CASE v \in users
      <4>1. HasWay(v)
        BY <3>2 DEF LinksInv, LinksStand
      <4>2. ASSUME NEW d \in Requests, task[d].pc = "link" PROVE task'[d] = task[d]
        BY <1>1, <2>5, <4>2 DEF OnlyTask
      <4> QED BY <1>1, <4>1, <4>2 DEF HasWay
    <3> QED BY <2>2, <3>1, <3>2
  <2> QED BY <2>6, <2>7, <2>8, <2>9, <2>10 DEF LinksInv, LinksStand
<1> QED BY <1>2, <1>3 DEF Links!CreateUser, Links!Done

(* An unlinking that is the only one of its user leaves another way.        *)
LEMMA UnlinkStep == ASSUME LinksInv, NEW c \in Requests, Links!Unlink(c) PROVE LinksInv'
<1> DEFINE u == task[c].user
           s == task[c].subject
<1>1. task[c] \in LinkTask /\ task[c].pc = "delete" /\ Named(task[c])
      /\ task' = [task EXCEPT ![c] = Links!Idle] /\ UNCHANGED <<users, local, orphans, overlapped>>
  BY DEF Links!Unlink, Links!Done, LinksInv, LinksTyped
<1>2. owner' = IF owner[s] = u THEN [owner EXCEPT ![s] = 0] ELSE owner
  BY DEF Links!Unlink, Links!None
<1>3. /\ owner' \in [Subjects -> Nat] /\ s \in Subjects /\ u \in Nat
      /\ \A r \in Subjects : owner'[r] = owner[r] \/ (r = s /\ owner[r] = u)
  BY <1>1, <1>2 DEF LinksInv, LinksTyped, LinkTask, Named
<1>4. task'[c] = Links!Idle /\ OnlyTask(c) /\ task' \in [Requests -> LinkTask]
  BY <1>1, IdleTyped DEF LinksInv, LinksTyped, OnlyTask
<1>5. LinksTyped'
  BY <1>1, <1>3, <1>4, IdleTyped DEF LinksInv, LinksTyped, OnlyTask, Named
<1>6. \A d \in Requests : task'[d].pc = "count" => (task'[d].local <=> task'[d].user \in local')
  BY <1>1, <1>4, IdleTyped DEF LinksInv, LinksStand, OnlyTask
<1>7. overlapped' \/ \A d, e \in Requests : task'[d].pc \in UnlinkSteps /\ task'[e].pc \in UnlinkSteps
                                           /\ task'[d].user = task'[e].user => d = e
  BY <1>1, <1>4, IdleTyped DEF LinksInv, LinksStand, OnlyTask, UnlinkSteps
<1>8. overlapped' \/ \A d \in Requests : task'[d].pc = "delete" => Spared(d)'
  <2> SUFFICES ASSUME ~overlapped, NEW d \in Requests, task'[d].pc = "delete" PROVE Spared(d)'
    BY <1>1
  <2>1. d # c /\ task'[d] = task[d] /\ Spared(d)
    BY <1>4, IdleTyped DEF LinksInv, LinksStand, OnlyTask
  <2>2. task[d].user # u
    BY <1>1, <2>1 DEF LinksInv, LinksStand, UnlinkSteps
  <2> HIDE DEF u, s
  <2> QED BY <1>1, <1>3, <2>1, <2>2 DEF Spared
<1>9. overlapped' \/ \A v \in users' : HasWay(v)'
  <2> SUFFICES ASSUME ~overlapped, NEW v \in users PROVE HasWay(v)'
    BY <1>1
  <2>1. HasWay(v)
    BY DEF LinksInv, LinksStand
  <2>2. ASSUME NEW d \in Requests, task[d].pc = "link" PROVE task'[d] = task[d]
    BY <1>1, <1>4, <2>2 DEF OnlyTask
  <2>3. CASE v = u
    <3>1. Spared(c)
      BY <1>1 DEF LinksInv, LinksStand
    <3> QED BY <1>1, <1>3, <2>3, <3>1 DEF Spared, HasWay
  <2>4. CASE v # u
    <3> HIDE DEF u, s
    <3> QED BY <1>1, <1>3, <2>1, <2>2, <2>4 DEF HasWay
  <2> QED BY <2>3, <2>4
<1> QED BY <1>5, <1>6, <1>7, <1>8, <1>9 DEF LinksInv, LinksStand

LEMMA LinksHold == LinksInv => LastWayStays
<1> SUFFICES ASSUME LinksInv, ~overlapped, NEW u \in users, u \notin local, u \notin orphans, Links!LinksOf(u) = {}
             PROVE  \E c \in Requests : task[c].pc = "link" /\ task[c].user = u
  BY DEF LastWayStays, Links!LastWayStays
<1> QED BY DEF LinksInv, LinksStand, HasWay, Links!LinksOf

(* What is done by the requests on their way, and what an unlinking has     *)
(* found besides the link it removes (identity_linking.rs).                 *)
THEOREM LinksInvariant == ASSUME IsFiniteSet(Subjects) PROVE Links!Spec => []LinksInv
<1>1. Links!Init => LinksInv
  BY InitLinks
<1>2. LinksInv /\ [Links!Next]_Links!vars => LinksInv'
  <2> SUFFICES ASSUME LinksInv, [Links!Next]_Links!vars PROVE LinksInv'
    OBVIOUS
  <2>1. CASE UNCHANGED Links!vars
    BY <2>1 DEF Links!vars, LinksInv, LinksTyped, LinksStand, HasWay, Spared
  <2>2. CASE Links!Next
    BY <2>2, LoginStep, LinkByHandStep, FindForUserStep, CreateUserStep, LinkStep, HasLocalLoginStep, CountStep,
       UnlinkStep, DieStep DEF Links!Next
  <2> QED BY <2>1, <2>2
<1> QED BY <1>1, <1>2, PTL DEF Links!Spec

(* Whatever logins, links, unlinkings and failures come between, whoever    *)
(* could sign in still can, unless two unlinkings of one user overlapped    *)
(* (resolve_external_login, link_external_identity,                         *)
(* unlink_external_identity).                                               *)
THEOREM WaysStay == ASSUME IsFiniteSet(Subjects) PROVE Links!Spec => []LastWayStays
<1>1. LinksInv => LastWayStays
  BY LinksHold
<1> QED BY <1>1, LinksInvariant, PTL

-----------------------------------------------------------------------------
(* One live key of those rotated from one another, for any number of keys   *)
(* and requests (module ApiTokens).                                         *)

(* The instance counts as everybody does.                                   *)
LEMMA KeysCount == \A S : Keys!Cardinality(S) = Cardinality(S)
  BY DEF Keys!Cardinality, Cardinality

KeyRow == [id : Nat, root : Nat, live : BOOLEAN, expired : BOOLEAN]
KeyRequest == [pc : {"idle", "audit", "compensate", "revoke", "issue"}, key : Nat, root : Nat]

(* Keys are numbered as they were saved, and named by numbers given out.    *)
Numbered ==
  /\ IsFiniteSet(keys) /\ keys \subseteq KeyRow
  /\ step \in [Requests -> KeyRequest]
  /\ \A k \in keys : k.id <= Cardinality(keys) /\ k.root <= Cardinality(keys)
  /\ \A k, l \in keys : k.id = l.id => k = l
  /\ \A c \in Requests : step[c].key <= Cardinality(keys) /\ step[c].root <= Cardinality(keys)

(* Of one root there is one key that is not revoked, or one request that    *)
(* has revoked it and issues its successor.                                 *)
OneOfARoot ==
  /\ \A k, l \in keys : k.live /\ l.live /\ k.root = l.root => k = l
  /\ \A k \in keys : \A c \in Requests : k.live /\ step[c].pc = "issue" => step[c].root # k.root
  /\ \A c, d \in Requests : step[c].pc = "issue" /\ step[d].pc = "issue" /\ step[c].root = step[d].root => c = d
  /\ \A k \in keys : \A c \in Requests : step[c].pc = "revoke" /\ step[c].key = k.id => step[c].root = k.root

(* What is not revoked was given out, is about to be, or was left over.     *)
Pending(id) == \E c \in Requests : step[c].key = id /\ step[c].pc \in {"audit", "compensate"}
LiveIsKnown == \A k \in keys : k.live => k.id \in answered \cup leftover \/ Pending(k.id)

KeysInv == Numbered /\ OneOfARoot /\ LiveIsKnown

LEMMA InitKeys == Keys!Init => KeysInv
  BY FS_EmptySet DEF Keys!Init, Keys!Idle, KeysInv, Numbered, OneOfARoot, LiveIsKnown, KeyRequest, KeyRow

(* A row that is updated is still the row: none more, none less.            *)
RowsUpdated == \E f \in [keys -> KeyRow] :
  /\ keys' = {f[k] : k \in keys}
  /\ \A k \in keys : f[k].id = k.id /\ f[k].root = k.root /\ (f[k].live => k.live)

LEMMA UpdateKeepsCount ==
  ASSUME Numbered, NEW f \in [keys -> KeyRow], keys' = {f[k] : k \in keys}, \A k \in keys : f[k].id = k.id
  PROVE  IsFiniteSet(keys') /\ Cardinality(keys') = Cardinality(keys)
<1>1. f \in [keys -> keys']
  OBVIOUS
<1>2. \A k, l \in keys : f[k] = f[l] => k = l
  BY DEF Numbered
<1>3. f \in Bijection(keys, keys')
  BY <1>1, <1>2 DEF Bijection, Injection, IsInjective, Surjection
<1>4. ExistsBijection(keys, keys')
  BY <1>3 DEF ExistsBijection
<1> QED BY <1>4, FS_Bijection DEF Numbered

(* One request goes on, with a key it knows, as rows are updated; only to   *)
(* issue is what has to be shown.                                           *)
LEMMA RowsUpdatedStep ==
  ASSUME KeysInv, RowsUpdated, NEW c \in Requests, NEW q \in KeyRequest, step' = [step EXCEPT ![c] = q],
         answered \subseteq answered', leftover \subseteq leftover',
         q.key <= Cardinality(keys), q.root <= Cardinality(keys),
         q.pc = "issue" => /\ \A k \in keys' : k.live => k.root # q.root
                           /\ \A d \in Requests \ {c} : step[d].pc = "issue" => step[d].root # q.root,
         q.pc = "revoke" => \A k \in keys : k.id = q.key => k.root = q.root,
         \A k \in keys' : k.live /\ step[c].key = k.id /\ step[c].pc \in {"audit", "compensate"}
                          => k.id \in answered' \cup leftover' \/ (q.key = k.id /\ q.pc \in {"audit", "compensate"})
  PROVE  KeysInv'
<1>1. PICK f \in [keys -> KeyRow] :
        /\ keys' = {f[k] : k \in keys}
        /\ \A k \in keys : f[k].id = k.id /\ f[k].root = k.root /\ (f[k].live => k.live)
  BY DEF RowsUpdated
<1>2. IsFiniteSet(keys') /\ Cardinality(keys') = Cardinality(keys)
  BY <1>1, UpdateKeepsCount DEF KeysInv
<1>3. \A x \in keys' : \E k \in keys : x = f[k] /\ x \in KeyRow /\ x.id = k.id /\ x.root = k.root /\ (x.live => k.live)
  BY <1>1
<1>4. /\ step' \in [Requests -> KeyRequest] /\ step'[c] = q
      /\ \A d \in Requests : d # c => step'[d] = step[d]
  BY DEF KeysInv, Numbered
<1>5. Numbered'
  <2>1. keys' \subseteq KeyRow /\ \A x \in keys' : x.id <= Cardinality(keys) /\ x.root <= Cardinality(keys)
    BY <1>3 DEF KeysInv, Numbered
  <2>2. \A x, y \in keys' : x.id = y.id => x = y
    BY <1>3 DEF KeysInv, Numbered
  <2>3. \A d \in Requests : step'[d].key <= Cardinality(keys) /\ step'[d].root <= Cardinality(keys)
    BY <1>4 DEF KeysInv, Numbered
  <2> QED BY <1>2, <1>4, <2>1, <2>2, <2>3 DEF Numbered
<1>6. OneOfARoot'
  <2>1. \A x, y \in keys' : x.live /\ y.live /\ x.root = y.root => x = y
    BY <1>3 DEF KeysInv, OneOfARoot
  <2>2. \A x \in keys' : \A d \in Requests : x.live /\ step'[d].pc = "issue" => step'[d].root # x.root
    BY <1>3, <1>4 DEF KeysInv, OneOfARoot
  <2>3. \A d, e \in Requests : step'[d].pc = "issue" /\ step'[e].pc = "issue" /\ step'[d].root = step'[e].root => d = e
    BY <1>4 DEF KeysInv, OneOfARoot
  <2>4. \A x \in keys' : \A d \in Requests : step'[d].pc = "revoke" /\ step'[d].key = x.id => step'[d].root = x.root
    BY <1>3, <1>4 DEF KeysInv, OneOfARoot
  <2> QED BY <2>1, <2>2, <2>3, <2>4 DEF OneOfARoot
<1>7. LiveIsKnown'
  <2> SUFFICES ASSUME NEW x \in keys', x.live PROVE x.id \in answered' \cup leftover' \/ Pending(x.id)'
    BY DEF LiveIsKnown
  <2>1. x.id \in answered \cup leftover \/ Pending(x.id)
    BY <1>3 DEF KeysInv, LiveIsKnown
  <2>2. ASSUME NEW d \in Requests, step[d].key = x.id, step[d].pc \in {"audit", "compensate"}
        PROVE  x.id \in answered' \cup leftover' \/ Pending(x.id)'
    <3>1. CASE d = c
      BY <1>4, <2>2, <3>1 DEF Pending
    <3>2. CASE d # c
      BY <1>4, <2>2, <3>2 DEF Pending
    <3> QED BY <3>1, <3>2
  <2> QED BY <2>1, <2>2 DEF Pending
<1> QED BY <1>5, <1>6, <1>7 DEF KeysInv

LEMMA NoRowUpdated == ASSUME KeysInv, UNCHANGED keys PROVE RowsUpdated
<1> DEFINE f == [k \in keys |-> k]
<1>1. f \in [keys -> KeyRow] /\ \A k \in keys : f[k] = k
  BY DEF KeysInv, Numbered
<1> HIDE DEF f
<1>2. keys' = {f[k] : k \in keys}
  BY <1>1
<1> QED BY <1>1, <1>2 DEF RowsUpdated

(* Revoking updates rows, and leaves the one it names not live.             *)
LEMMA RevokeUpdates ==
  ASSUME KeysInv, NEW id, Keys!RevokeRow(id)
  PROVE  RowsUpdated /\ \A x \in keys' : x.live => x.id # id /\ x \in keys
<1> DEFINE f == [k \in keys |-> [k EXCEPT !.live = k.live /\ k.id # id]]
<1>1. keys' = {f[k] : k \in keys}
  BY DEF Keys!RevokeRow
<1>2. ASSUME NEW k \in keys
      PROVE  f[k] \in KeyRow /\ f[k].id = k.id /\ f[k].root = k.root /\ (f[k].live => k.live /\ k.id # id /\ f[k] = k)
  <2>1. k \in KeyRow
    BY DEF KeysInv, Numbered
  <2>2. CASE k.live /\ k.id # id
    <3>1. f[k] = [k EXCEPT !.live = TRUE]
      BY <2>2, Zenon
    <3> QED BY <2>1, <2>2, <3>1 DEF KeyRow
  <2>3. CASE ~(k.live /\ k.id # id)
    <3>1. f[k] = [k EXCEPT !.live = FALSE]
      BY <2>3, Zenon
    <3> QED BY <2>1, <2>3, <3>1 DEF KeyRow
  <2> QED BY <2>2, <2>3
<1>3. f \in [keys -> KeyRow]
  BY <1>2
<1> HIDE DEF f
<1> QED BY <1>1, <1>2, <1>3 DEF RowsUpdated

LEMMA IdleRequest == Keys!Idle \in KeyRequest /\ Keys!Idle.pc = "idle" /\ Keys!Idle.key = 0 /\ Keys!Idle.root = 0
  BY DEF Keys!Idle, KeyRequest

LEMMA CountIsNat == ASSUME KeysInv PROVE Cardinality(keys) \in Nat
  BY FS_CardinalityType DEF KeysInv, Numbered

(* A request is over, and rows are updated or not.                          *)
LEMMA KeyRequestEnds ==
  ASSUME KeysInv, RowsUpdated, NEW c \in Requests, step' = [step EXCEPT ![c] = Keys!Idle],
         answered \subseteq answered', leftover \subseteq leftover',
         \A k \in keys' : k.live /\ step[c].key = k.id /\ step[c].pc \in {"audit", "compensate"} => k.id \in answered' \cup leftover'
  PROVE  KeysInv'
<1> DEFINE q == Keys!Idle
<1>1. q \in KeyRequest /\ q.pc = "idle" /\ q.key = 0 /\ q.root = 0
  BY IdleRequest
<1>2. step' = [step EXCEPT ![c] = q]
  OBVIOUS
<1> HIDE DEF q
<1>3. q.key <= Cardinality(keys) /\ q.root <= Cardinality(keys)
  BY <1>1, CountIsNat
<1>4. \A k \in keys' : k.live /\ step[c].key = k.id /\ step[c].pc \in {"audit", "compensate"}
                       => k.id \in answered' \cup leftover' \/ (q.key = k.id /\ q.pc \in {"audit", "compensate"})
  OBVIOUS
<1>5. /\ q.pc = "issue" => /\ \A k \in keys' : k.live => k.root # q.root
                           /\ \A d \in Requests \ {c} : step[d].pc = "issue" => step[d].root # q.root
      /\ q.pc = "revoke" => \A k \in keys : k.id = q.key => k.root = q.root
  BY <1>1
<1> QED BY <1>1, <1>2, <1>3, <1>4, <1>5, RowsUpdatedStep

(* A new key, and what the request that saved it goes on with.              *)
LEMMA SaveStep ==
  ASSUME KeysInv, NEW c \in Requests, NEW root \in Nat, root <= Cardinality(keys) + 1, Keys!Save(root), NEW q \in KeyRequest,
         step' = [step EXCEPT ![c] = q],
         answered \subseteq answered', UNCHANGED leftover, step[c].pc \notin {"audit", "compensate"},
         q.pc \in {"idle", "audit"}, q.key <= Cardinality(keys) + 1, q.root <= Cardinality(keys) + 1,
         root = Cardinality(keys) + 1 \/ (step[c].pc = "issue" /\ step[c].root = root),
         Cardinality(keys) + 1 \in answered' \/ (q.pc = "audit" /\ q.key = Cardinality(keys) + 1)
  PROVE  KeysInv'
<1> DEFINE n == Cardinality(keys) + 1
           new == [id |-> n, root |-> root, live |-> TRUE, expired |-> FALSE]
<1>1. Cardinality(keys) \in Nat
  BY CountIsNat
<1>2. keys' = keys \cup {new} /\ new \in KeyRow /\ new.id = n /\ new.root = root
  BY <1>1, KeysCount DEF Keys!Save, Keys!Count, KeyRow
<1>3. \A k \in keys : k \in KeyRow /\ k.id < n /\ k.root < n
  BY <1>1 DEF KeysInv, Numbered, KeyRow
<1> HIDE DEF new
<1>4. Cardinality(keys') = n /\ IsFiniteSet(keys')
  <2>1. new \notin keys
    BY <1>1, <1>2, <1>3
  <2> QED BY <1>2, <2>1, FS_AddElement DEF KeysInv, Numbered
<1>5. /\ step' \in [Requests -> KeyRequest] /\ step'[c] = q
      /\ \A d \in Requests : d # c => step'[d] = step[d]
  BY DEF KeysInv, Numbered
<1>6. \A d \in Requests : step[d] \in KeyRequest /\ step[d].key < n /\ step[d].root < n
  BY <1>1 DEF KeysInv, Numbered, KeyRequest
<1>7. Numbered'
  <2>1. keys' \subseteq KeyRow /\ \A x \in keys' : x.id <= n /\ x.root <= n
    BY <1>1, <1>2, <1>3 DEF KeyRow
  <2>2. \A x, y \in keys' : x.id = y.id => x = y
    BY <1>1, <1>2, <1>3 DEF KeysInv, Numbered, KeyRow
  <2>3. \A d \in Requests : step'[d].key <= n /\ step'[d].root <= n
    BY <1>1, <1>5, <1>6 DEF KeyRequest
  <2> QED BY <1>4, <1>5, <2>1, <2>2, <2>3 DEF Numbered
<1>8. OneOfARoot'
  <2>1. \A k \in keys : k.live => k.root # root
    BY <1>1, <1>3 DEF KeysInv, OneOfARoot, KeyRow
  <2>2. \A d \in Requests : d # c /\ step[d].pc = "issue" => step[d].root # root
    BY <1>1, <1>6 DEF KeysInv, OneOfARoot, KeyRequest
  <2>3. \A x, y \in keys' : x.live /\ y.live /\ x.root = y.root => x = y
    BY <1>2, <2>1 DEF KeysInv, OneOfARoot
  <2>4. \A x \in keys' : \A d \in Requests : x.live /\ step'[d].pc = "issue" => step'[d].root # x.root
    BY <1>2, <1>5, <2>2 DEF KeysInv, OneOfARoot
  <2>5. \A d, e \in Requests : step'[d].pc = "issue" /\ step'[e].pc = "issue" /\ step'[d].root = step'[e].root => d = e
    BY <1>5 DEF KeysInv, OneOfARoot
  <2>6. \A x \in keys' : \A d \in Requests : step'[d].pc = "revoke" /\ step'[d].key = x.id => step'[d].root = x.root
    BY <1>1, <1>2, <1>5, <1>6 DEF KeysInv, OneOfARoot, KeyRequest
  <2> QED BY <2>3, <2>4, <2>5, <2>6 DEF OneOfARoot
<1>9. LiveIsKnown'
  <2> SUFFICES ASSUME NEW x \in keys', x.live PROVE x.id \in answered' \cup leftover' \/ Pending(x.id)'
    BY DEF LiveIsKnown
  <2>1. CASE x = new
    BY <1>2, <1>5, <2>1 DEF Pending
  <2>2. CASE x \in keys
    <3>1. x.id \in answered \cup leftover \/ Pending(x.id)
      BY <2>2 DEF KeysInv, LiveIsKnown
    <3> QED BY <1>5, <3>1 DEF Pending
  <2> QED BY <1>2, <2>1, <2>2
<1> QED BY <1>7, <1>8, <1>9 DEF KeysInv

LEMMA IssueStep == ASSUME KeysInv, NEW c \in Requests, Keys!Issue(c) PROVE KeysInv'
<1> DEFINE n == Cardinality(keys) + 1
           q == [pc |-> "audit", key |-> n, root |-> n]
<1>1. Cardinality(keys) \in Nat
  BY CountIsNat
<1>2. /\ step[c].pc = "idle" /\ Keys!Save(n) /\ step' = [step EXCEPT ![c] = q]
      /\ UNCHANGED <<answered, leftover>>
  BY KeysCount DEF Keys!Issue, Keys!Count
<1>3. q \in KeyRequest /\ q.pc = "audit" /\ q.key = n /\ q.root = n /\ n \in Nat /\ n <= n
  BY <1>1 DEF KeyRequest
<1> HIDE DEF q
<1> QED BY <1>1, <1>2, <1>3, SaveStep

LEMMA AuditIssuedStep == ASSUME KeysInv, NEW c \in Requests, Keys!AuditIssued(c) PROVE KeysInv'
<1>1. /\ answered' = answered \cup {step[c].key} /\ UNCHANGED <<keys, leftover>>
      /\ step' = [step EXCEPT ![c] = Keys!Idle]
  BY DEF Keys!AuditIssued, Keys!Done
<1> QED BY <1>1, NoRowUpdated, KeyRequestEnds

LEMMA AuditFailsStep == ASSUME KeysInv, NEW c \in Requests, Keys!AuditFails(c) PROVE KeysInv'
<1> DEFINE q == [step[c] EXCEPT !.pc = "compensate"]
<1>1. UNCHANGED <<keys, answered, leftover>> /\ step' = [step EXCEPT ![c] = q] /\ step[c] \in KeyRequest
  BY DEF Keys!AuditFails, KeysInv, Numbered
<1>2. q \in KeyRequest /\ q.pc = "compensate" /\ q.key = step[c].key /\ q.root = step[c].root
  BY <1>1 DEF KeyRequest
<1>3. q.key <= Cardinality(keys) /\ q.root <= Cardinality(keys)
  BY <1>2 DEF KeysInv, Numbered
<1>4. RowsUpdated
  BY <1>1, NoRowUpdated
<1>5. ASSUME NEW k \in keys', k.live, step[c].key = k.id PROVE k.id \in answered' \cup leftover' \/ (q.key = k.id /\ q.pc \in {"audit", "compensate"})
  BY <1>2, <1>5
<1> HIDE DEF q
<1> QED BY <1>1, <1>2, <1>3, <1>4, <1>5, RowsUpdatedStep

LEMMA CompensateStep == ASSUME KeysInv, NEW c \in Requests, Keys!Compensate(c) PROVE KeysInv'
<1>1. step' = [step EXCEPT ![c] = Keys!Idle] /\ UNCHANGED answered
  BY DEF Keys!Compensate, Keys!Done
<1>2. CASE Keys!RevokeRow(step[c].key) /\ UNCHANGED leftover
  BY <1>1, <1>2, RevokeUpdates, KeyRequestEnds
<1>3. CASE leftover' = leftover \cup {step[c].key} /\ UNCHANGED keys
  BY <1>1, <1>3, NoRowUpdated, KeyRequestEnds
<1> QED BY <1>2, <1>3 DEF Keys!Compensate

(* A rotation has verified a key: it is the row's root that it keeps.       *)
LEMMA VerifyStep == ASSUME KeysInv, NEW c \in Requests, NEW k \in keys, Keys!Verify(c, k) PROVE KeysInv'
<1> DEFINE q == [pc |-> "revoke", key |-> k.id, root |-> k.root]
<1>1. UNCHANGED <<keys, answered, leftover>> /\ step' = [step EXCEPT ![c] = q] /\ step[c].pc = "idle"
  BY DEF Keys!Verify
<1>2. q \in KeyRequest /\ q.pc = "revoke" /\ q.key = k.id /\ q.root = k.root
  BY DEF KeysInv, Numbered, KeyRow, KeyRequest
<1>3. q.key <= Cardinality(keys) /\ q.root <= Cardinality(keys) /\ \A l \in keys : l.id = q.key => l.root = q.root
  BY <1>2 DEF KeysInv, Numbered
<1> HIDE DEF q
<1> QED BY <1>1, <1>2, <1>3, NoRowUpdated, RowsUpdatedStep

(* Whoever revokes the row that was live goes on to issue; it was the only  *)
(* one of its root, so that nobody else is about to.                        *)
LEMMA RevokeOldStep == ASSUME KeysInv, NEW c \in Requests, Keys!RevokeOld(c) PROVE KeysInv'
<1>1. step[c].pc = "revoke" /\ Keys!RevokeRow(step[c].key) /\ UNCHANGED <<answered, leftover>>
  BY DEF Keys!RevokeOld
<1>2. RowsUpdated /\ \A x \in keys' : x.live => x.id # step[c].key /\ x \in keys
  BY <1>1, RevokeUpdates
<1>3. CASE Keys!CanRevoke(step[c].key) /\ step' = [step EXCEPT ![c].pc = "issue"]
  <2> DEFINE q == [step[c] EXCEPT !.pc = "issue"]
  <2>1. step' = [step EXCEPT ![c] = q] /\ step[c] \in KeyRequest
    BY <1>3 DEF KeysInv, Numbered
  <2>2. q \in KeyRequest /\ q.pc = "issue" /\ q.key = step[c].key /\ q.root = step[c].root
    BY <2>1 DEF KeyRequest
  <2>3. q.key <= Cardinality(keys) /\ q.root <= Cardinality(keys)
    BY <2>2 DEF KeysInv, Numbered
  <2>4. PICK k \in keys : k.id = step[c].key /\ k.live
    BY <1>3 DEF Keys!CanRevoke
  <2>5. k.root = step[c].root
    BY <1>1, <2>4 DEF KeysInv, OneOfARoot
  <2>6. \A x \in keys' : x.live => x.root # q.root
    BY <1>2, <2>2, <2>4, <2>5 DEF KeysInv, OneOfARoot
  <2>7. \A d \in Requests \ {c} : step[d].pc = "issue" => step[d].root # q.root
    BY <2>2, <2>4, <2>5 DEF KeysInv, OneOfARoot
  <2> HIDE DEF q
  <2> QED BY <1>1, <1>2, <2>1, <2>2, <2>3, <2>6, <2>7, RowsUpdatedStep
<1>4. CASE step' = [step EXCEPT ![c] = Keys!Idle]
  BY <1>1, <1>2, <1>4, KeyRequestEnds
<1> QED BY <1>3, <1>4 DEF Keys!RevokeOld, Keys!Done

LEMMA IssueNextStep == ASSUME KeysInv, NEW c \in Requests, Keys!IssueNext(c) PROVE KeysInv'
<1>1. /\ step' = [step EXCEPT ![c] = Keys!Idle] /\ UNCHANGED leftover /\ step[c].pc = "issue"
      /\ step[c] \in KeyRequest
  BY DEF Keys!IssueNext, Keys!Done, KeysInv, Numbered
<1>2. CASE UNCHANGED <<keys, answered>>
  BY <1>1, <1>2, NoRowUpdated, KeyRequestEnds
<1>3. CASE Keys!Save(step[c].root) /\ answered' = answered \cup {Keys!Count + 1}
  <2>1. Cardinality(keys) + 1 \in answered' /\ Cardinality(keys) \in Nat
    BY <1>3, KeysCount, CountIsNat DEF Keys!Count
  <2>2. step[c].root \in Nat /\ step[c].root <= Cardinality(keys) + 1
    BY <1>1, <2>1 DEF KeysInv, Numbered, KeyRequest
  <2> DEFINE q == Keys!Idle
  <2>3. q \in KeyRequest /\ q.pc = "idle" /\ q.key = 0 /\ q.root = 0 /\ step' = [step EXCEPT ![c] = q]
    BY <1>1, IdleRequest
  <2> HIDE DEF q
  <2>4. q.pc \in {"idle", "audit"} /\ q.key <= Cardinality(keys) + 1 /\ q.root <= Cardinality(keys) + 1
    BY <2>1, <2>3
  <2> QED BY <1>1, <1>3, <2>1, <2>2, <2>3, <2>4, SaveStep
<1> QED BY <1>2, <1>3 DEF Keys!IssueNext

LEMMA RotationFailsStep == ASSUME KeysInv, NEW c \in Requests, Keys!Fail(c) PROVE KeysInv'
<1>1. /\ step' = [step EXCEPT ![c] = Keys!Idle] /\ UNCHANGED <<keys, answered, leftover>>
      /\ step[c].pc \in {"revoke", "issue"}
  BY DEF Keys!Fail, Keys!Done
<1> QED BY <1>1, NoRowUpdated, KeyRequestEnds

(* Steps of no request: its row says which one it is about.                 *)
LEMMA RowsUpdatedAlone ==
  ASSUME KeysInv, RowsUpdated, UNCHANGED <<step, answered, leftover>> PROVE KeysInv'
<1>1. PICK f \in [keys -> KeyRow] :
        /\ keys' = {f[k] : k \in keys}
        /\ \A k \in keys : f[k].id = k.id /\ f[k].root = k.root /\ (f[k].live => k.live)
  BY DEF RowsUpdated
<1>2. IsFiniteSet(keys') /\ Cardinality(keys') = Cardinality(keys)
  BY <1>1, UpdateKeepsCount DEF KeysInv
<1>3. \A x \in keys' : \E k \in keys : x = f[k] /\ x \in KeyRow /\ x.id = k.id /\ x.root = k.root /\ (x.live => k.live)
  BY <1>1
<1>4. Numbered'
  BY <1>2, <1>3 DEF KeysInv, Numbered
<1>5. OneOfARoot'
  <2>1. \A x, y \in keys' : x.live /\ y.live /\ x.root = y.root => x = y
    BY <1>3 DEF KeysInv, OneOfARoot
  <2>2. \A x \in keys' : \A d \in Requests : x.live /\ step'[d].pc = "issue" => step'[d].root # x.root
    BY <1>3 DEF KeysInv, OneOfARoot
  <2>3. \A x \in keys' : \A d \in Requests : step'[d].pc = "revoke" /\ step'[d].key = x.id => step'[d].root = x.root
    BY <1>3 DEF KeysInv, OneOfARoot
  <2> QED BY <2>1, <2>2, <2>3 DEF KeysInv, OneOfARoot
<1>6. LiveIsKnown'
  BY <1>3 DEF KeysInv, LiveIsKnown, Pending
<1> QED BY <1>4, <1>5, <1>6 DEF KeysInv

LEMMA ExpireUpdates == ASSUME KeysInv, NEW k \in keys, Keys!Expire(k) PROVE RowsUpdated
<1> DEFINE over == [k EXCEPT !.expired = TRUE]
           f == [l \in keys |-> IF l = k THEN over ELSE l]
<1>1. over \in KeyRow /\ over.id = k.id /\ over.root = k.root /\ over.live = k.live
  BY DEF KeysInv, Numbered, KeyRow
<1>2. keys' = (keys \ {k}) \cup {over}
  BY DEF Keys!Expire
<1> HIDE DEF over
<1>3. f \in [keys -> KeyRow] /\ \A l \in keys : f[l] = IF l = k THEN over ELSE l
  BY <1>1 DEF KeysInv, Numbered
<1> HIDE DEF f
<1>4. keys' = {f[l] : l \in keys}
  BY <1>2, <1>3
<1> QED BY <1>1, <1>3, <1>4 DEF RowsUpdated

(* Keys are numbered, a root has one key or one request that issues it,     *)
(* and what is live was given out or is on its way (api_token.rs and the    *)
(* repository's save and revoke).                                           *)
THEOREM KeysInvariant == Keys!Spec => []KeysInv
<1>1. KeysInv /\ [Keys!Next]_Keys!vars => KeysInv'
  <2> SUFFICES ASSUME KeysInv, [Keys!Next]_Keys!vars PROVE KeysInv'
    OBVIOUS
  <2>1. CASE UNCHANGED Keys!vars
    BY <2>1, NoRowUpdated, RowsUpdatedAlone DEF Keys!vars
  <2>2. ASSUME NEW k \in keys, Keys!Revoke(k) PROVE KeysInv'
    BY <2>2, RevokeUpdates, RowsUpdatedAlone DEF Keys!Revoke
  <2>3. ASSUME NEW k \in keys, Keys!Expire(k) PROVE KeysInv'
    BY <2>3, ExpireUpdates, RowsUpdatedAlone DEF Keys!Expire
  <2>4. CASE Keys!SetOwner
    BY <2>4, NoRowUpdated, RowsUpdatedAlone DEF Keys!SetOwner
  <2>5. CASE Keys!Next
    BY <2>2, <2>3, <2>4, <2>5, IssueStep, AuditIssuedStep, AuditFailsStep, CompensateStep, RevokeOldStep,
       IssueNextStep, RotationFailsStep, VerifyStep DEF Keys!Next
  <2> QED BY <2>1, <2>5
<1> QED BY <1>1, InitKeys, PTL DEF Keys!Spec

(* However rotations of a key overlap, fail and are audited, one of its     *)
(* descendants at most can be used, and nobody holds a live key that was    *)
(* not given out, except one whose revocation failed too (issue, rotate).   *)
THEOREM KeysStand == Keys!Spec => []OneLiveKey
<1>1. KeysInv => OneLiveKey
  BY DEF KeysInv, OneOfARoot, LiveIsKnown, Pending, OneLiveKey, Keys!OneLiveKey, Keys!Live
<1> QED BY <1>1, KeysInvariant, PTL

-----------------------------------------------------------------------------
(* A handler acts only on what was proved and granted, for any routes,      *)
(* keys, systems and changes of the store (modules Routes and Gateway).     *)

(* A route that asks for a permission says where, as every row of the       *)
(* tables does.                                                             *)
Columns == {"changes", "who", "scopes", "pinned", "level", "permission", "checks", "hidden", "entry"}
Placed(g) == DOMAIN g = Columns /\ (g.level = "none" => g.permission = "none")

LEMMA OpenPlaced == ASSUME NEW m PROVE Placed(Way!Open(m)) /\ Placed(Way!Entry(m))
<1>1. DOMAIN Way!Open(m) = Columns /\ Way!Open(m).level = "none" /\ Way!Open(m).permission = "none"
  BY DEF Way!Open, Columns
<1> QED BY <1>1 DEF Way!Entry, Placed, Columns

LEMMA AsksPlaced ==
  ASSUME NEW m, NEW l, NEW p, l # "none" \/ p = "none"
  PROVE  Placed(Way!Asks(m, l, p)) /\ Placed(Way!AsksUser(m, l, p))
<1>1. DOMAIN Way!Open(m) = Columns
  BY OpenPlaced DEF Placed
<1>2. DOMAIN Way!Asks(m, l, p) = Columns /\ Way!Asks(m, l, p).level = l /\ Way!Asks(m, l, p).permission = p
  BY <1>1 DEF Way!Asks, Columns
<1>3. Placed(Way!Asks(m, l, p))
  BY <1>2 DEF Placed
<1> QED BY <1>2, <1>3 DEF Way!AsksUser, Placed, Columns

LEMMA ScopesPlaced == ASSUME NEW g, Placed(g), NEW s PROVE Placed([g EXCEPT !.scopes = s])
  BY DEF Placed, Columns

LEMMA ChecksPlaced ==
  ASSUME NEW g, Placed(g), NEW s, NEW d, NEW f
  PROVE  /\ Placed([g EXCEPT !.checks = d])
         /\ Placed([g EXCEPT !.scopes = s, !.checks = d])
         /\ Placed([g EXCEPT !.scopes = s, !.hidden = f])
         /\ Placed([g EXCEPT !.scopes = s, !.pinned = f, !.checks = d])
  BY DEF Placed, Columns

LEMMA LevelPlaced ==
  ASSUME NEW g, Placed(g), NEW l, NEW p, l # "none" PROVE Placed([g EXCEPT !.level = l, !.permission = p])
  BY DEF Placed, Columns

LEMMA TablePlaced == ASSUME NEW r, \A n \in DOMAIN r : Placed(r[n]) PROVE \A g \in Way!Table(r) : Placed(g)
  BY DEF Way!Table

LEMMA OpenTables ==
  /\ \A n \in DOMAIN Way!HealthRoutes : Placed(Way!HealthRoutes[n])
  /\ \A n \in DOMAIN Way!ReadinessRoutes : Placed(Way!ReadinessRoutes[n])
  /\ \A n \in DOMAIN Way!SessionRoutes : Placed(Way!SessionRoutes[n])
  BY OpenPlaced DEF Way!HealthRoutes, Way!ReadinessRoutes, Way!SessionRoutes

LEMMA PlainTables ==
  /\ \A n \in DOMAIN Way!ReportingRoutes : Placed(Way!ReportingRoutes[n])
  /\ \A n \in DOMAIN Way!NotificationRoutes : Placed(Way!NotificationRoutes[n])
  /\ \A n \in DOMAIN Way!DeliveryRoutes : Placed(Way!DeliveryRoutes[n])
  /\ \A n \in DOMAIN Way!AdministrationRoutes : Placed(Way!AdministrationRoutes[n])
  /\ \A n \in DOMAIN Way!ConnectorRoutes : Placed(Way!ConnectorRoutes[n])
  /\ \A n \in DOMAIN Way!AuditRoutes : Placed(Way!AuditRoutes[n])
  /\ \A n \in DOMAIN Way!RoleWrites : Placed(Way!RoleWrites[n])
  /\ \A n \in DOMAIN Way!ProfileRoutes : Placed(Way!ProfileRoutes[n])
  /\ \A n \in DOMAIN Way!IdentityRoutes : Placed(Way!IdentityRoutes[n])
  /\ \A n \in DOMAIN Way!DashboardRoutes : Placed(Way!DashboardRoutes[n])
  /\ \A n \in DOMAIN Way!UserRoutes : Placed(Way!UserRoutes[n])
  /\ \A n \in DOMAIN Way!PasswordRoutes : Placed(Way!PasswordRoutes[n])
<1> USE AsksPlaced
<1>1. \A n \in DOMAIN Way!ReportingRoutes : Placed(Way!ReportingRoutes[n])
  BY DEF Way!ReportingRoutes
<1>2. \A n \in DOMAIN Way!NotificationRoutes : Placed(Way!NotificationRoutes[n])
  BY DEF Way!NotificationRoutes
<1>3. \A n \in DOMAIN Way!DeliveryRoutes : Placed(Way!DeliveryRoutes[n])
  BY DEF Way!DeliveryRoutes
<1>4. \A n \in DOMAIN Way!AdministrationRoutes : Placed(Way!AdministrationRoutes[n])
  BY DEF Way!AdministrationRoutes
<1>5. \A n \in DOMAIN Way!ConnectorRoutes : Placed(Way!ConnectorRoutes[n])
  BY DEF Way!ConnectorRoutes
<1>6. \A n \in DOMAIN Way!AuditRoutes : Placed(Way!AuditRoutes[n])
  BY DEF Way!AuditRoutes
<1>7. \A n \in DOMAIN Way!RoleWrites : Placed(Way!RoleWrites[n])
  BY DEF Way!RoleWrites
<1>8. \A n \in DOMAIN Way!ProfileRoutes : Placed(Way!ProfileRoutes[n])
  BY DEF Way!ProfileRoutes
<1>9. \A n \in DOMAIN Way!IdentityRoutes : Placed(Way!IdentityRoutes[n])
  BY DEF Way!IdentityRoutes
<1>10. \A n \in DOMAIN Way!DashboardRoutes : Placed(Way!DashboardRoutes[n])
  BY DEF Way!DashboardRoutes
<1>11. \A n \in DOMAIN Way!UserRoutes : Placed(Way!UserRoutes[n])
  BY OpenPlaced DEF Way!UserRoutes
<1>12. \A n \in DOMAIN Way!PasswordRoutes : Placed(Way!PasswordRoutes[n])
  BY OpenPlaced DEF Way!PasswordRoutes
<1> QED BY <1>1, <1>2, <1>3, <1>4, <1>5, <1>6, <1>7, <1>8, <1>9, <1>10, <1>11, <1>12

LEMMA SystemTables ==
  /\ \A n \in DOMAIN Way!SystemRoutes : Placed(Way!SystemRoutes[n])
  /\ \A n \in DOMAIN Way!InverterRoutes : Placed(Way!InverterRoutes[n])
  /\ \A n \in DOMAIN Way!TelemetryRoutes : Placed(Way!TelemetryRoutes[n])
<1> DEFINE writes(m) == [Way!Asks(m, "system", "system_manage") EXCEPT !.scopes = {"systems_write"}, !.checks = {"after"}]
           hidden(m, p, s) == [Way!Asks(m, "system", p) EXCEPT !.scopes = {s}, !.hidden = TRUE]
           measures(m, c) == [Way!Asks(m, "system", "telemetry_write") EXCEPT !.scopes = {"telemetry_write"},
                                                                            !.pinned = TRUE, !.checks = c]
<1>1. Placed(writes("PUT")) /\ Placed(writes("DELETE")) /\ Placed(writes("POST"))
  BY AsksPlaced, ChecksPlaced
<1>2. /\ Placed(hidden("GET", "system_read", "systems_read")) /\ Placed(hidden("POST", "system_manage", "systems_write"))
      /\ Placed(hidden("PUT", "system_manage", "systems_write")) /\ Placed(hidden("DELETE", "system_manage", "systems_write"))
  BY AsksPlaced, ChecksPlaced
<1>3. Placed(measures("POST", {"after"})) /\ Placed(measures("PATCH", {})) /\ Placed(measures("DELETE", {"before"}))
  BY AsksPlaced, ChecksPlaced
<1>4. /\ Placed([Way!Asks("GET", "system", "system_read") EXCEPT !.scopes = {"systems_read"}])
      /\ Placed([Way!Asks("POST", "own", "system_manage") EXCEPT !.scopes = {"systems_write"}])
  BY AsksPlaced, ScopesPlaced
<1>5. \A n \in DOMAIN Way!SystemRoutes : Placed(Way!SystemRoutes[n])
  BY <1>1, <1>4 DEF Way!SystemRoutes
<1>6. \A n \in DOMAIN Way!InverterRoutes : Placed(Way!InverterRoutes[n])
  BY <1>2 DEF Way!InverterRoutes
<1>7. \A n \in DOMAIN Way!TelemetryRoutes : Placed(Way!TelemetryRoutes[n])
  BY <1>3 DEF Way!TelemetryRoutes
<1> QED BY <1>5, <1>6, <1>7

LEMMA ForecastTables ==
  /\ \A n \in DOMAIN Way!ForecastRoutes : Placed(Way!ForecastRoutes[n])
  /\ \A n \in DOMAIN Way!ForecastWrites : Placed(Way!ForecastWrites[n])
  /\ \A n \in DOMAIN Way!ForecastSeries : Placed(Way!ForecastSeries[n])
<1> DEFINE reads == [Way!Asks("GET", "path", "system_read") EXCEPT !.scopes = {"systems_read"}]
           writes == [Way!Asks("PUT", "path", "system_manage") EXCEPT !.scopes = {"systems_write"}, !.checks = {"before", "after"}]
           series == [Way!Asks("GET", "path", "system_read") EXCEPT !.scopes = {"systems_read"}, !.checks = {"after"}]
<1>1. Placed(reads) /\ Placed(writes) /\ Placed(series)
  BY AsksPlaced, ScopesPlaced, ChecksPlaced
<1>2. /\ Placed([reads EXCEPT !.level = "account", !.permission = "account_read"])
      /\ Placed([writes EXCEPT !.level = "account", !.permission = "account_manage"])
  BY <1>1, LevelPlaced
<1>3. \A n \in DOMAIN Way!ForecastRoutes : Placed(Way!ForecastRoutes[n])
  BY <1>1, <1>2 DEF Way!ForecastRoutes
<1>4. \A n \in DOMAIN Way!ForecastWrites : Placed(Way!ForecastWrites[n])
  BY <1>1, <1>2 DEF Way!ForecastWrites
<1>5. \A n \in DOMAIN Way!ForecastSeries : Placed(Way!ForecastSeries[n])
  BY <1>1 DEF Way!ForecastSeries
<1> QED BY <1>3, <1>4, <1>5

LEMMA CheckedTables ==
  /\ \A n \in DOMAIN Way!RoleLists : Placed(Way!RoleLists[n])
  /\ \A n \in DOMAIN Way!ApiKeyRoutes : Placed(Way!ApiKeyRoutes[n])
  /\ \A n \in DOMAIN Way!CatalogRoutes : Placed(Way!CatalogRoutes[n])
  /\ \A n \in DOMAIN Way!GeocodingRoutes : Placed(Way!GeocodingRoutes[n])
<1>1. /\ Placed([Way!Asks("GET", "account", "role_manage") EXCEPT !.checks = {"after"}])
      /\ Placed([Way!AsksUser("GET", "instance", "role_manage") EXCEPT !.checks = {"after"}])
      /\ Placed([Way!AsksUser("POST", "own", "credential_manage") EXCEPT !.checks = {"after"}])
      /\ Placed([Way!Asks("GET", "none", "none") EXCEPT !.scopes = {"systems_read"}])
      /\ Placed([Way!Asks("GET", "none", "none") EXCEPT !.scopes = {"systems_read", "systems_write"}, !.checks = {"after"}])
  BY AsksPlaced, ScopesPlaced, ChecksPlaced
<1>2. \A n \in DOMAIN Way!RoleLists : Placed(Way!RoleLists[n])
  BY <1>1, AsksPlaced, SMTT(30) DEF Way!RoleLists
<1>3. \A n \in DOMAIN Way!ApiKeyRoutes : Placed(Way!ApiKeyRoutes[n])
  BY <1>1, AsksPlaced, SMTT(30) DEF Way!ApiKeyRoutes
<1>4. \A n \in DOMAIN Way!CatalogRoutes : Placed(Way!CatalogRoutes[n])
  BY <1>1 DEF Way!CatalogRoutes
<1>5. \A n \in DOMAIN Way!GeocodingRoutes : Placed(Way!GeocodingRoutes[n])
  BY <1>1 DEF Way!GeocodingRoutes
<1> QED BY <1>2, <1>3, <1>4, <1>5

LEMMA GuardsPlaced == \A g \in Way!Guards : Placed(g)
  BY TablePlaced, OpenTables, PlainTables, SystemTables, ForecastTables, CheckedTables DEF Way!Guards

(* Names of keys are none of the words that stand for other callers.        *)
GatewayConstants == {"none", "user", "invalid", "malformed", "cookie", "cookie and csrf", "session"} \cap DOMAIN KeyOf = {}

Passed == {"record", "actor", "authorized", "service"}
AtStages == {"credential", "handler", "instance", "owner", "decision", "denial", "grants", "route", "answered"} \cup Passed
(* Two words that a proof leaves as they are.                               *)
Nowhere == ""
WithToken == "cookie and csrf"
Places == Way!Accounts \cup {Nowhere, OwnAccount} \cup {KeyOf[k].account : k \in Way!Keys}
Asking == [at : AtStages, guard : Way!Guards, credential : Way!Credentials,
           account : Places, system : Way!SystemIds \cup {Nowhere}, complete : BOOLEAN, principal : {"none", "user"} \cup Way!Keys,
           audited : {"none", "denied", "succeeded"}, acted : BOOLEAN,
           status : {"none", "200", "401", "403", "404", "422", "429", "503"}]

(* At one of the stages, or at the end of them.                             *)
At(q, stages) == q.at \in stages \/ q.acted
Somewhere(q) == q.guard.level \notin {"none", "instance"}

(* Who it is was found out.                                                 *)
Known(q, facts) ==
  At(q, AtStages \ {"credential", "answered"}) =>
    /\ q.principal # "none" => "live" \in facts
    /\ q.principal = "user" /\ q.guard.changes => q.credential = WithToken
    /\ q.guard.who # "anyone" /\ q.at # "handler" => q.principal # "none"

(* Each stage is of requests that ask for something of its kind, and a key  *)
(* asks for nothing of the instance.                                        *)
OnItsWay(q) ==
  /\ q.acted => q.at = "answered"
  /\ q.at = "credential" => q.principal = "none"
  /\ q.guard.level = "system" => q.account = Home[q.system]
  /\ q.at \in {"owner", "decision", "grants", "route"} => Somewhere(q)
  /\ q.at \in {"instance", "record", "actor", "authorized"} => q.guard.level # "none"
  /\ q.at = "instance" => q.guard.level = "instance"
  /\ At(q, {"instance"} \cup Passed) /\ q.guard.level = "instance" => ~Way!IsKey(q)

(* What was found out of the system, the key, the grants and the account.   *)
KeyFits(q) ==
  /\ KeyOf[q.principal].account = Way!Decided(q)
  /\ KeyOf[q.principal].system \in {"", q.system}
  /\ Way!permission_api_scope(q.guard.permission) \cap KeyOf[q.principal].scopes # {}

FoundOut(q, facts) ==
  /\ At(q, {"decision", "grants", "route"} \cup Passed) /\ q.guard.level \in {"system", "path"} => "registered" \in facts
  /\ At(q, {"grants", "route"} \cup Passed) /\ Way!IsKey(q) /\ Somewhere(q) => KeyFits(q)
  /\ At(q, {"route"} \cup Passed) /\ Somewhere(q) /\ q.account = Way!Decided(q) => "granted" \in facts
  /\ At(q, Passed) /\ Somewhere(q) /\ q.account = Way!Decided(q) => "ready" \in facts
  /\ At(q, Passed) /\ q.guard.level = "instance" => "granted" \in facts
  /\ At(q, {"actor", "authorized", "service"}) /\ q.guard.level # "none" => q.audited = "succeeded"
  /\ At(q, {"service"}) => Way!PathAgrees(q)

Earned(q, facts) == q \in Asking /\ Known(q, facts) /\ OnItsWay(q) /\ FoundOut(q, facts)

GatewayInv == asked = Way!Idle \/ Earned(asked, seen)

LEMMA KeysAreKeys ==
  ASSUME GatewayConstants PROVE "none" \notin Way!Keys /\ "user" \notin Way!Keys /\ "invalid" \notin Way!Keys
  BY Zenon DEF GatewayConstants, Way!Keys

(* What has been seen stays seen. *)
LEMMA SeenStays == ASSUME NEW q, NEW facts, NEW more, Earned(q, facts), facts \subseteq more PROVE Earned(q, more)
  BY DEF Earned, Known, FoundOut

LEMMA IdleIsNot == ASSUME asked = Way!Idle PROVE asked.at = "idle"
  BY DEF Way!Idle

Granted(account, system, permission) ==
  \E g \in grants : g[1] \in {Nowhere, account} /\ g[2] \in {Nowhere, system} /\ g[3] = permission

(* What holds when a request has made a step is seen.                       *)
LEMMA Noted ==
  ASSUME seen' = seen \cup Way!Facts(asked)', asked'.at \notin {"idle", "answered"}
  PROVE  /\ seen \subseteq seen'
         /\ (IF Way!IsKey(asked') THEN asked'.principal ELSE "session") \in live' => "live" \in seen'
         /\ asked'.guard.level = "instance" /\ <<Nowhere, Nowhere, asked'.guard.permission>> \in grants' => "granted" \in seen'
         /\ Somewhere(asked') /\ Granted(asked.account, asked.system, asked.guard.permission)' => "granted" \in seen'
         /\ asked'.system \in registered' => "registered" \in seen'
         /\ asked'.account \in ready' => "ready" \in seen'
<1>1. asked'.guard.level = "instance" /\ <<Nowhere, Nowhere, asked'.guard.permission>> \in grants' => "granted" \in Way!Facts(asked)'
  BY Zenon DEF Way!Facts, Way!PermittedOnInstance, Nowhere
<1>2. Somewhere(asked') /\ Granted(asked.account, asked.system, asked.guard.permission)' => "granted" \in Way!Facts(asked)'
  BY Zenon DEF Way!Facts, Way!Permitted, Granted, Nowhere, Somewhere
<1>3. /\ (IF Way!IsKey(asked') THEN asked'.principal ELSE "session") \in live' => "live" \in Way!Facts(asked)'
      /\ asked'.system \in registered' => "registered" \in Way!Facts(asked)'
      /\ asked'.account \in ready' => "ready" \in Way!Facts(asked)'
  BY DEF Way!Facts, Way!IsKey
<1> QED BY <1>1, <1>2, <1>3

(* An answer that is not the service's.                                     *)
LEMMA Refused ==
  ASSUME Earned(asked, seen), asked.at # "answered", seen \subseteq seen', NEW audited \in {"none", "denied", "succeeded"},
         NEW code \in {"401", "403", "404", "422", "429", "503"},
         asked' = [asked EXCEPT !.audited = audited, !.at = "answered", !.status = code]
  PROVE  GatewayInv'
<1>1. asked \in Asking /\ ~asked.acted
  BY DEF Earned, OnItsWay, Asking
<1>2. /\ asked' \in Asking /\ asked'.at = "answered" /\ ~asked'.acted
      /\ asked'.guard = asked.guard /\ asked'.account = asked.account /\ asked'.system = asked.system
  BY <1>1 DEF Asking, AtStages
<1>3. Earned(asked', seen')
  BY <1>1, <1>2 DEF Earned, Known, OnItsWay, FoundOut, At, Passed
<1> QED BY <1>3 DEF GatewayInv

LEMMA Answered ==
  ASSUME Earned(asked, seen), asked.at # "answered", seen \subseteq seen',
         NEW code \in {"401", "403", "404", "422", "429", "503"}, asked' = [asked EXCEPT !.at = "answered", !.status = code]
  PROVE  GatewayInv'
<1>1. asked \in Asking
  BY DEF Earned
<1>2. asked' = [asked EXCEPT !.audited = asked.audited, !.at = "answered", !.status = code] /\ asked.audited \in {"none", "denied", "succeeded"}
  BY <1>1 DEF Asking
<1> QED BY <1>2, Refused

(* A request that goes on is the same one, elsewhere.                       *)
LEMMA GoesOn ==
  ASSUME asked \in Asking, NEW at \in AtStages, asked' = [asked EXCEPT !.at = at]
  PROVE  /\ asked' \in Asking /\ asked'.at = at
         /\ asked'.guard = asked.guard /\ asked'.credential = asked.credential /\ asked'.account = asked.account
         /\ asked'.system = asked.system /\ asked'.principal = asked.principal /\ asked'.audited = asked.audited
         /\ asked'.acted = asked.acted
  BY DEF Asking

LEMMA ArriveStep == ASSUME GatewayInv, Way!Arrive PROVE GatewayInv'
<1>1. PICK guard \in Way!Guards, credential \in Way!Credentials, system \in Way!SystemIds, complete \in BOOLEAN :
      \E account \in CASE guard.level = "path" -> Way!Accounts
                       [] guard.level \in {"account", "system"} -> {Home[system]}
                       [] OTHER -> {Nowhere} :
        asked' = [at |-> "credential", guard |-> guard, credential |-> credential, account |-> account,
                  system |-> IF guard.level \in {"system", "path"} THEN system ELSE Nowhere,
                  complete |-> complete \/ guard.checks = {},
                  principal |-> "none", audited |-> "none", acted |-> FALSE, status |-> "none"]
  BY Zenon DEF Way!Arrive, Nowhere
<1>2. PICK account :
      /\ account \in Places
      /\ guard.level = "system" => account = Home[system]
      /\ asked' = [at |-> "credential", guard |-> guard, credential |-> credential, account |-> account,
                   system |-> IF guard.level \in {"system", "path"} THEN system ELSE Nowhere,
                   complete |-> complete \/ guard.checks = {},
                   principal |-> "none", audited |-> "none", acted |-> FALSE, status |-> "none"]
  BY <1>1 DEF Way!Accounts, Places
<1>3. PICK whole \in BOOLEAN : whole = (complete \/ guard.checks = {})
  <2>1. (complete \/ guard.checks = {}) = TRUE \/ (complete \/ guard.checks = {}) = FALSE
    BY SMT
  <2> QED BY <2>1, Zenon
<1> DEFINE place == IF guard.level \in {"system", "path"} THEN system ELSE Nowhere
<1>4. asked' = [at |-> "credential", guard |-> guard, credential |-> credential, account |-> account,
                system |-> place, complete |-> whole,
                principal |-> "none", audited |-> "none", acted |-> FALSE, status |-> "none"]
  BY <1>2, <1>3, Zenon
<1>5. place \in Way!SystemIds \cup {Nowhere}
  OBVIOUS
<1> HIDE DEF place
<1>6. asked' \in Asking /\ asked'.at = "credential" /\ ~asked'.acted /\ asked'.principal = "none"
  BY <1>2, <1>4, <1>5 DEF Asking, AtStages
<1>7. asked'.guard = guard /\ asked'.account = account /\ (guard.level = "system" => place = system) /\ asked'.system = place
  BY <1>4 DEF place
<1>8. OnItsWay(asked')
  BY <1>2, <1>6, <1>7 DEF OnItsWay, At, Passed
<1> QED BY <1>6, <1>8 DEF GatewayInv, Earned, Known, FoundOut, At, Passed

(* A step of a request that has arrived.                                    *)
Going == asked # Way!Idle /\ Earned(asked, seen) /\ seen' = seen \cup Way!Facts(asked)' /\ UNCHANGED <<grants, live, registered, ready>>

(* What the service relies on of the caller.                                *)
Served ==
  /\ asked.principal # "none" => "live" \in seen
  /\ asked.principal = "user" /\ asked.guard.changes => asked.credential = WithToken
  /\ asked.guard.who # "anyone" => asked.principal # "none"

LEMMA AuthenticateStep == ASSUME GatewayConstants, Going, Way!Authenticate PROVE GatewayInv'
<1> DEFINE who == Way!Principal(asked)
<1>0. asked \in Asking /\ asked.at = "credential" /\ ~asked.acted /\ seen \subseteq seen'
  BY DEF Going, Earned, OnItsWay, Way!Authenticate
<1>1. CASE \E code \in {"401", "429"} : asked' = [asked EXCEPT !.at = "answered", !.status = code]
  BY <1>0, <1>1, Answered DEF Going
<1>2. CASE asked' = [asked EXCEPT !.at = "handler"]
  BY <1>0, <1>2, GoesOn DEF AtStages, GatewayInv, Going, Earned, Known, OnItsWay, FoundOut, At, Passed
<1>3. CASE who # "invalid" /\ asked' = [asked EXCEPT !.at = "handler", !.principal = who]
  <2>1. /\ who \in {"none", "user"} \cup Way!Keys
        /\ who = "user" => "session" \in live /\ (asked.guard.changes => asked.credential = WithToken)
        /\ who \in Way!Keys => who \in live
    <3>1. \/ Way!AuthenticateSession(asked) = "invalid"
          \/ /\ Way!AuthenticateSession(asked) = "user" /\ "session" \in live
             /\ asked.guard.changes => asked.credential = WithToken
      BY Zenon DEF Way!AuthenticateSession, WithToken
    <3>2. who \in {"none", "invalid", Way!AuthenticateSession(asked)} \/ (who \in Way!Keys /\ who \in live)
      BY SMT DEF Way!Principal, Way!AuthenticateBearer
    <3> QED BY <1>3, <3>1, <3>2, KeysAreKeys
  <2> HIDE DEF who
  <2>2. /\ asked' \in Asking /\ asked'.at = "handler" /\ asked'.principal = who /\ ~asked'.acted
        /\ asked'.guard = asked.guard /\ asked'.credential = asked.credential /\ asked'.account = asked.account
        /\ asked'.system = asked.system
    BY <1>0, <1>3, <2>1 DEF Asking, AtStages
  <2>3. who # "none" => "live" \in seen'
    BY <2>1, <2>2, Noted, KeysAreKeys DEF Going, Way!IsKey
  <2>4. Known(asked', seen')
    BY <2>1, <2>2, <2>3 DEF Known, At
  <2>5. OnItsWay(asked')
    BY <1>0, <2>2 DEF Going, Earned, OnItsWay, At, Passed
  <2>6. FoundOut(asked', seen')
    BY <2>2 DEF FoundOut, At, Passed
  <2> QED BY <2>2, <2>4, <2>5, <2>6 DEF GatewayInv, Earned
<1>4. CASE who = "invalid"
  <2>1. asked' = [asked EXCEPT !.at = "answered", !.status = "401"] \/ asked' = [asked EXCEPT !.at = "handler"]
    BY <1>4, Zenon DEF Way!Authenticate, Way!Answer, Way!On
  <2> QED BY <1>1, <1>2, <2>1
<1>5. CASE who # "invalid"
  <2>1. \/ asked' = [asked EXCEPT !.at = "answered", !.status = "429"]
        \/ asked' = [asked EXCEPT !.at = "handler", !.principal = who]
    BY <1>5, Zenon DEF Way!Authenticate, Way!Answer, Way!Admit
  <2> QED BY <1>1, <1>3, <1>5, <2>1
<1> QED BY <1>4, <1>5

(* Past the handler's own questions it stays who it is.                     *)
LEMMA Moved ==
  ASSUME Going, ~asked.acted, NEW at \in AtStages \ {"credential", "handler", "answered"},
         asked.at \notin {"credential", "answered"}, asked' = [asked EXCEPT !.at = at], seen \subseteq seen',
         asked.at = "handler" /\ asked.guard.who # "anyone" => asked.principal # "none",
         OnItsWay(asked'), FoundOut(asked', seen')
  PROVE  GatewayInv'
<1>1. asked \in Asking /\ Known(asked, seen)
  BY DEF Going, Earned
<1>2. /\ asked' \in Asking /\ asked'.at = at /\ ~asked'.acted
      /\ asked'.guard = asked.guard /\ asked'.principal = asked.principal /\ asked'.credential = asked.credential
  BY <1>1, GoesOn
<1>3. asked.at \in AtStages
  BY <1>1 DEF Asking
<1>4. Known(asked', seen')
  BY <1>1, <1>2, <1>3 DEF Known, At
<1> QED BY <1>2, <1>4 DEF GatewayInv, Earned

LEMMA HandleStep == ASSUME Going, Way!Handle PROVE GatewayInv'
<1>0. asked \in Asking /\ asked.at = "handler" /\ ~asked.acted /\ seen \subseteq seen'
  BY DEF Going, Earned, OnItsWay, Way!Handle
<1>1. CASE \E code \in {"422", "403"} : asked' = [asked EXCEPT !.at = "answered", !.status = code]
  BY <1>0, <1>1, Answered DEF Going
<1>2. CASE Way!Welcome(asked) /\ asked.guard.level = "none" /\ asked' = [asked EXCEPT !.at = "service"]
  <2>1. Served
    BY <1>0, <1>2 DEF Going, Earned, Known, At, AtStages, Passed, Way!Welcome, Served
  <2>2. /\ asked' \in Asking /\ asked'.at = "service" /\ ~asked'.acted
        /\ asked'.guard = asked.guard /\ asked'.principal = asked.principal /\ asked'.credential = asked.credential
    BY <1>0, <1>2, GoesOn DEF AtStages, Passed
  <2>3. Known(asked', seen')
    BY <1>0, <2>1, <2>2 DEF Known, At, Served
  <2>4. OnItsWay(asked')
    BY <1>2, <2>2 DEF OnItsWay, At
  <2>5. FoundOut(asked', seen')
    BY <1>2, <2>2 DEF FoundOut, At, Passed, Somewhere, Way!PathAgrees
  <2> QED BY <2>2, <2>3, <2>4, <2>5 DEF GatewayInv, Earned
<1>3. CASE /\ Way!Welcome(asked) /\ asked.guard.level = "instance" /\ ~Way!IsKey(asked)
           /\ asked' = [asked EXCEPT !.at = "instance"]
  BY <1>0, <1>3, GoesOn, SeenStays DEF AtStages, Passed, GatewayInv, Going, Earned, Known, OnItsWay, FoundOut, At, Somewhere,
     Way!Welcome, Way!IsKey
<1>4. CASE /\ Way!Welcome(asked) /\ asked.guard.level = "own"
           /\ asked' = [asked EXCEPT !.at = "decision",
                                     !.account = IF Way!IsKey(asked) THEN KeyOf[asked.principal].account ELSE OwnAccount]
  <2> DEFINE account == IF Way!IsKey(asked) THEN KeyOf[asked.principal].account ELSE OwnAccount
  <2>1. account \in {OwnAccount} \cup {KeyOf[k].account : k \in Way!Keys}
    BY DEF Way!IsKey
  <2> HIDE DEF account
  <2>2. asked' = [asked EXCEPT !.at = "decision", !.account = account]
    BY <1>4 DEF account
  <2>3. /\ asked' \in Asking /\ asked'.at = "decision" /\ ~asked'.acted
        /\ asked'.guard = asked.guard /\ asked'.credential = asked.credential /\ asked'.principal = asked.principal
        /\ asked'.system = asked.system
    BY <1>0, <2>1, <2>2 DEF Asking, AtStages, Places
  <2> QED BY <1>0, <1>4, <2>3 DEF AtStages, Passed, GatewayInv, Going, Earned, Known, OnItsWay, FoundOut, At, Somewhere, Way!Welcome
<1>5. CASE Way!Welcome(asked) /\ asked.guard.level = "account" /\ asked' = [asked EXCEPT !.at = "decision"]
  BY <1>0, <1>5, GoesOn DEF AtStages, Passed, GatewayInv, Going, Earned, Known, OnItsWay, FoundOut, At, Somewhere, Way!Welcome
<1>6. CASE Way!Welcome(asked) /\ asked.guard.level \notin {"none", "instance"} /\ asked' = [asked EXCEPT !.at = "owner"]
  BY <1>0, <1>6, GoesOn DEF AtStages, Passed, GatewayInv, Going, Earned, Known, OnItsWay, FoundOut, At, Somewhere, Way!Welcome
<1>7. CASE ~Way!Welcome(asked) \/ (~asked.complete /\ "before" \in asked.guard.checks)
  <2>1. asked' = [asked EXCEPT !.at = "answered", !.status = "422"] \/ asked' = [asked EXCEPT !.at = "answered", !.status = "403"]
    BY <1>7, SMT DEF Way!Handle, Way!Answer
  <2> QED BY <1>1, <2>1
<1>8. CASE Way!Welcome(asked) /\ ~(~asked.complete /\ "before" \in asked.guard.checks)
  <2>1. \/ asked.guard.level = "none" /\ asked' = [asked EXCEPT !.at = "service"]
        \/ asked.guard.level = "instance" /\ Way!IsKey(asked) /\ asked' = [asked EXCEPT !.at = "answered", !.status = "403"]
        \/ asked.guard.level = "instance" /\ ~Way!IsKey(asked) /\ asked' = [asked EXCEPT !.at = "instance"]
        \/ asked.guard.level = "own" /\ asked' = [asked EXCEPT !.at = "decision",
                                                 !.account = IF Way!IsKey(asked) THEN KeyOf[asked.principal].account ELSE OwnAccount]
        \/ asked.guard.level = "account" /\ asked' = [asked EXCEPT !.at = "decision"]
        \/ asked.guard.level \notin {"none", "instance"} /\ asked' = [asked EXCEPT !.at = "owner"]
    BY <1>8, SMT DEF Way!Handle, Way!Answer, Way!On
  <2> QED BY <1>1, <1>2, <1>3, <1>4, <1>5, <1>6, <1>8, <2>1, Zenon
<1> QED BY <1>7, <1>8

(* A denial is on its way to be recorded.                                   *)
LEMMA Denied ==
  ASSUME Going, ~asked.acted, asked.at \in {"instance", "decision", "grants"}, asked' = [asked EXCEPT !.at = "denial"],
         seen \subseteq seen'
  PROVE  GatewayInv'
<1>1. asked \in Asking /\ OnItsWay(asked)
  BY DEF Going, Earned
<1>2. asked'.at = "denial" /\ ~asked'.acted /\ asked'.guard = asked.guard /\ asked'.account = asked.account
      /\ asked'.system = asked.system
  BY <1>1, GoesOn DEF AtStages
<1>3. OnItsWay(asked')
  BY <1>1, <1>2 DEF OnItsWay, At, Passed
<1>4. FoundOut(asked', seen')
  BY <1>2 DEF FoundOut, At, Passed
<1> QED BY <1>3, <1>4, Moved DEF AtStages

LEMMA InstanceStep == ASSUME Going, Way!AuthorizeInstance PROVE GatewayInv'
<1>0. asked \in Asking /\ asked.at = "instance" /\ ~asked.acted /\ seen \subseteq seen'
  BY DEF Going, Earned, OnItsWay, Way!AuthorizeInstance
<1>1. CASE asked' = [asked EXCEPT !.at = "answered", !.status = "503"]
  BY <1>0, <1>1, Answered DEF Going
<1>2. CASE Way!PermittedOnInstance(asked.guard.permission) /\ asked' = [asked EXCEPT !.at = "record"]
  <2>1. asked'.guard = asked.guard /\ asked'.at = "record"
    BY <1>0, <1>2, GoesOn DEF AtStages, Passed
  <2>2. grants' = grants
    BY DEF Going
  <2>3. <<Nowhere, Nowhere, asked.guard.permission>> \in grants
    BY <1>2, Zenon DEF Way!PermittedOnInstance, Nowhere
  <2>4. "granted" \in seen'
    BY <1>0, <2>1, <2>2, <2>3, Noted DEF Going, Earned, OnItsWay
  <2>5. OnItsWay(asked')
    BY <1>0, <1>2, GoesOn DEF Going, Earned, OnItsWay, AtStages, At, Passed, Way!IsKey
  <2>6. FoundOut(asked', seen')
    BY <1>0, <1>2, <2>1, <2>4, <2>5, GoesOn DEF Going, Earned, OnItsWay, FoundOut, AtStages, At, Passed, Somewhere
  <2> QED BY <1>0, <1>2, <2>5, <2>6, Moved DEF AtStages, Passed
<1>3. CASE asked' = [asked EXCEPT !.at = "denial"]
  BY <1>0, <1>3, Denied DEF Going
<1> QED BY <1>1, <1>2, <1>3 DEF Way!AuthorizeInstance, Way!Answer

LEMMA OwnerStep == ASSUME Going, Way!ResolveOwner PROVE GatewayInv'
<1>0. asked \in Asking /\ asked.at = "owner" /\ ~asked.acted /\ seen \subseteq seen'
  BY DEF Going, Earned, OnItsWay, Way!ResolveOwner
<1>1. CASE \E code \in {"403", "404", "503"} : asked' = [asked EXCEPT !.at = "answered", !.status = code]
  BY <1>0, <1>1, Answered DEF Going
<1>2. CASE asked.system \in registered /\ asked' = [asked EXCEPT !.at = "decision"]
  BY <1>0, <1>2, GoesOn, Noted DEF AtStages, Passed, GatewayInv, Going, Earned, Known, OnItsWay, FoundOut, At, Somewhere
<1> QED BY <1>1, <1>2 DEF Way!ResolveOwner, Way!Answer, Way!On

LEMMA KeyStep == ASSUME Going, Way!CheckKey PROVE GatewayInv'
<1>0. asked \in Asking /\ asked.at = "decision" /\ ~asked.acted /\ seen \subseteq seen'
  BY DEF Going, Earned, OnItsWay, Way!CheckKey
<1>1. CASE asked' = [asked EXCEPT !.at = "answered", !.status = "503"]
  BY <1>0, <1>1, Answered DEF Going
<1>2. CASE Way!KeyAllows(asked) /\ asked' = [asked EXCEPT !.at = "grants"]
  <2>1. KeyFits(asked) 
    BY <1>2 DEF Way!KeyAllows, KeyFits
  <2>2. KeyFits(asked')
    BY <1>0, <1>2, <2>1, GoesOn DEF KeyFits, Way!Decided, AtStages
  <2> QED BY <1>0, <1>2, <2>2, GoesOn DEF AtStages, Passed, GatewayInv, Going, Earned, Known, OnItsWay, FoundOut, At, Somewhere
<1>3. CASE asked' = [asked EXCEPT !.at = "denial"]
  BY <1>0, <1>3, Denied DEF Going
<1> QED BY <1>1, <1>2, <1>3 DEF Way!CheckKey, Way!Answer, Way!On

LEMMA GrantsStep == ASSUME Going, Way!CheckGrants PROVE GatewayInv'
<1>0. /\ asked \in Asking /\ ~asked.acted /\ seen \subseteq seen' /\ Somewhere(asked) /\ asked.at \in {"grants", "decision"}
      /\ asked.at = "decision" => ~Way!IsKey(asked)
  BY DEF Going, Earned, OnItsWay, Way!CheckGrants
<1>1. CASE asked' = [asked EXCEPT !.at = "answered", !.status = "503"]
  BY <1>0, <1>1, Answered DEF Going
<1>2. CASE asked' = [asked EXCEPT !.at = "denial"]
  BY <1>0, <1>2, Denied
<1>3. CASE /\ Way!Permitted(Way!Decided(asked), asked.system, asked.guard.permission)
           /\ asked' = [asked EXCEPT !.at = "route"]
  <2>1. /\ asked'.at = "route" /\ ~asked'.acted /\ asked'.guard = asked.guard /\ asked'.account = asked.account
        /\ asked'.system = asked.system /\ asked'.principal = asked.principal
    BY <1>0, <1>3, GoesOn DEF AtStages
  <2>2. Way!Decided(asked') = Way!Decided(asked) /\ (KeyFits(asked') <=> KeyFits(asked)) /\ (Way!IsKey(asked') <=> Way!IsKey(asked))
    BY <2>1 DEF Way!Decided, KeyFits, Way!IsKey
  <2>3. Granted(Way!Decided(asked), asked.system, asked.guard.permission)
    BY <1>3, Zenon DEF Way!Permitted, Granted, Nowhere
  <2>4. grants' = grants
    BY DEF Going
  <2>5. asked'.account = Way!Decided(asked') => Granted(asked.account, asked.system, asked.guard.permission)'
    BY <2>1, <2>2, <2>3, <2>4 DEF Granted
  <2>6. asked'.account = Way!Decided(asked') => "granted" \in seen'
    BY <1>0, <2>1, <2>5, Noted DEF Going, Somewhere
  <2>7. OnItsWay(asked')
    BY <1>0, <2>1 DEF Going, Earned, OnItsWay, At, Passed, Somewhere
  <2>8. FoundOut(asked', seen')
    BY <1>0, <2>1, <2>2, <2>6 DEF Going, Earned, FoundOut, At, Passed, Somewhere
  <2> QED BY <1>0, <1>3, <2>7, <2>8, Moved DEF AtStages
<1> QED BY <1>1, <1>2, <1>3 DEF Way!CheckGrants, Way!Answer, Way!On

(* What does not depend on the stage stays as it is.                        *)
LEMMA SameRequest ==
  ASSUME Going, NEW at \in AtStages, asked' = [asked EXCEPT !.at = at]
  PROVE  /\ asked'.at = at /\ asked'.acted = asked.acted /\ asked'.guard = asked.guard /\ asked'.account = asked.account
         /\ asked'.system = asked.system /\ asked'.principal = asked.principal /\ asked'.audited = asked.audited
         /\ Way!Decided(asked') = Way!Decided(asked) /\ (KeyFits(asked') <=> KeyFits(asked))
         /\ (Way!IsKey(asked') <=> Way!IsKey(asked)) /\ (Way!PathAgrees(asked') <=> Way!PathAgrees(asked))
<1>1. /\ asked'.at = at /\ asked'.acted = asked.acted /\ asked'.guard = asked.guard /\ asked'.account = asked.account
      /\ asked'.system = asked.system /\ asked'.principal = asked.principal /\ asked'.audited = asked.audited
  BY GoesOn DEF Going, Earned
<1> QED BY <1>1 DEF Way!Decided, KeyFits, Way!IsKey, Way!PathAgrees

LEMMA RouteStep == ASSUME Going, Way!ResolveRoute PROVE GatewayInv'
<1>0. asked \in Asking /\ asked.at = "route" /\ ~asked.acted /\ seen \subseteq seen' /\ Somewhere(asked)
  BY DEF Going, Earned, OnItsWay, Way!ResolveRoute
<1>1. CASE asked' = [asked EXCEPT !.at = "answered", !.status = "503"]
  BY <1>0, <1>1, Answered DEF Going
<1>2. CASE Way!Decided(asked) \in ready /\ asked' = [asked EXCEPT !.at = "record"]
  <2>1. asked'.at = "record"
    BY <1>2, SameRequest DEF AtStages, Passed
  <2>2. asked'.account = Way!Decided(asked') => "ready" \in seen'
    BY <1>2, <2>1, SameRequest, Noted DEF Going, AtStages, Passed
  <2>3. OnItsWay(asked')
    BY <1>0, <1>2, SameRequest DEF AtStages, Going, Earned, OnItsWay, At, Passed, Somewhere
  <2>4. FoundOut(asked', seen')
    BY <1>0, <1>2, <2>2, SameRequest DEF AtStages, Going, Earned, FoundOut, At, Passed, Somewhere
  <2> QED BY <1>0, <1>2, <2>3, <2>4, Moved DEF AtStages, Passed
<1> QED BY <1>1, <1>2 DEF Way!ResolveRoute, Way!Answer, Way!On

LEMMA AuditStep == ASSUME Going, Way!Audit PROVE GatewayInv'
<1>0. asked \in Asking /\ ~asked.acted /\ seen \subseteq seen' /\ asked.at \in {"denial", "record"}
  BY DEF Going, Earned, OnItsWay, Way!Audit
<1>1. CASE asked' = [asked EXCEPT !.at = "answered", !.status = "503"]
  BY <1>0, <1>1, Answered DEF Going
<1>2. CASE asked' = [asked EXCEPT !.audited = "denied", !.at = "answered", !.status = "403"]
  BY <1>0, <1>2, Refused DEF Going
<1>3. CASE /\ asked.at = "record"
           /\ asked' = [asked EXCEPT !.audited = "succeeded", !.at = IF Way!IsKey(asked) THEN "actor" ELSE "authorized"]
  <2> DEFINE next == IF Way!IsKey(asked) THEN "actor" ELSE "authorized"
  <2>1. next \in {"actor", "authorized"} /\ asked' = [asked EXCEPT !.audited = "succeeded", !.at = next]
    BY <1>3
  <2> HIDE DEF next
  <2>2. /\ asked' \in Asking /\ asked'.at = next /\ asked'.acted = asked.acted /\ asked'.guard = asked.guard
        /\ asked'.account = asked.account /\ asked'.system = asked.system /\ asked'.principal = asked.principal
        /\ asked'.credential = asked.credential /\ asked'.audited = "succeeded"
    BY <1>0, <2>1 DEF Asking, AtStages, Passed
  <2>3. Way!Decided(asked') = Way!Decided(asked) /\ (KeyFits(asked') <=> KeyFits(asked)) /\ (Way!IsKey(asked') <=> Way!IsKey(asked))
    BY <2>2 DEF Way!Decided, KeyFits, Way!IsKey
  <2>4. OnItsWay(asked')
    BY <1>0, <1>3, <2>1, <2>2, <2>3 DEF Going, Earned, OnItsWay, At, Passed
  <2>5. FoundOut(asked', seen')
    BY <1>0, <1>3, <2>1, <2>2, <2>3 DEF Going, Earned, FoundOut, At, Passed, Somewhere
  <2>6. Known(asked', seen')
    BY <1>0, <1>3, <2>1, <2>2 DEF Going, Earned, Known, At, AtStages, Passed
  <2> QED BY <2>2, <2>4, <2>5, <2>6 DEF GatewayInv, Earned
<1> QED BY <1>1, <1>2, <1>3 DEF Way!Audit, Way!Answer

LEMMA ActorStep == ASSUME Going, Way!ResolveActor PROVE GatewayInv'
<1>0. asked \in Asking /\ asked.at = "actor" /\ ~asked.acted /\ seen \subseteq seen'
  BY DEF Going, Earned, OnItsWay, Way!ResolveActor
<1>1. CASE asked' = [asked EXCEPT !.at = "answered", !.status = "503"]
  BY <1>0, <1>1, Answered DEF Going
<1>2. CASE asked' = [asked EXCEPT !.at = "authorized"]
  <2>1. OnItsWay(asked')
    BY <1>0, <1>2, SameRequest DEF AtStages, Going, Earned, OnItsWay, At, Passed
  <2>2. FoundOut(asked', seen')
    BY <1>0, <1>2, SameRequest DEF AtStages, Going, Earned, FoundOut, At, Passed, Somewhere
  <2> QED BY <1>0, <1>2, <2>1, <2>2, Moved DEF AtStages, Passed
<1> QED BY <1>1, <1>2 DEF Way!ResolveActor, Way!Answer, Way!On

LEMMA AuthorizedStep == ASSUME Going, Way!Authorized PROVE GatewayInv'
<1>0. asked \in Asking /\ asked.at = "authorized" /\ ~asked.acted /\ seen \subseteq seen'
  BY DEF Going, Earned, OnItsWay, Way!Authorized
<1>1. CASE asked' = [asked EXCEPT !.at = "answered", !.status = "403"]
  BY <1>0, <1>1, Answered DEF Going
<1>2. CASE Way!PathAgrees(asked) /\ asked' = [asked EXCEPT !.at = "service"]
  <2>1. OnItsWay(asked')
    BY <1>0, <1>2, SameRequest DEF AtStages, Going, Earned, OnItsWay, At, Passed
  <2>2. FoundOut(asked', seen')
    BY <1>0, <1>2, SameRequest DEF AtStages, Going, Earned, FoundOut, At, Passed, Somewhere
  <2> QED BY <1>0, <1>2, <2>1, <2>2, Moved DEF AtStages, Passed
<1> QED BY <1>1, <1>2 DEF Way!Authorized, Way!Answer, Way!On

LEMMA ServeStep == ASSUME Going, Way!Serve PROVE GatewayInv'
<1>0. asked \in Asking /\ asked.at = "service" /\ ~asked.acted /\ seen \subseteq seen'
  BY SMT DEF Going, Earned, OnItsWay, Way!Serve
<1>1. CASE asked' = [asked EXCEPT !.at = "answered", !.status = "422"]
  BY <1>0, <1>1, Answered DEF Going
<1>2. CASE asked' = [asked EXCEPT !.at = "answered", !.acted = TRUE, !.status = "200"]
  <2>1. /\ asked' \in Asking /\ asked'.at = "answered" /\ asked'.acted /\ asked'.guard = asked.guard
        /\ asked'.account = asked.account /\ asked'.system = asked.system /\ asked'.principal = asked.principal
        /\ asked'.credential = asked.credential /\ asked'.audited = asked.audited
    BY <1>0, <1>2 DEF Asking, AtStages
  <2>2. /\ Way!Decided(asked') = Way!Decided(asked) /\ (KeyFits(asked') <=> KeyFits(asked))
        /\ (Way!IsKey(asked') <=> Way!IsKey(asked)) /\ (Way!PathAgrees(asked') <=> Way!PathAgrees(asked))
    BY <2>1 DEF Way!Decided, KeyFits, Way!IsKey, Way!PathAgrees
  <2>3. OnItsWay(asked')
    BY <1>0, <2>1, <2>2 DEF Going, Earned, OnItsWay, At, Passed
  <2>4. FoundOut(asked', seen')
    BY <1>0, <2>1, <2>2 DEF Going, Earned, FoundOut, At, Passed, Somewhere
  <2>5. Known(asked', seen')
    BY <1>0, <2>1 DEF Going, Earned, Known, At, AtStages, Passed
  <2> QED BY <2>1, <2>3, <2>4, <2>5 DEF GatewayInv, Earned
<1> QED BY <1>1, <1>2, SMT DEF Way!Serve, Way!Answer

(* An idle request makes no other step than to arrive.                      *)
LEMMA OnlyArrives ==
  ASSUME asked = Way!Idle, Way!Step, ~Way!Arrive PROVE UNCHANGED asked
  BY DEF Way!Idle, Way!Step, Way!Authenticate, Way!Handle, Way!AuthorizeInstance, Way!ResolveOwner, Way!CheckKey, Way!CheckGrants,
         Way!ResolveRoute, Way!Audit, Way!ResolveActor, Way!Authorized, Way!Serve, Way!Change

(* A request is somewhere on its way, with what was found out so far        *)
(* (api/authentication.rs, authorization_boundary.rs).                      *)
THEOREM GatewayInvariant == ASSUME GatewayConstants PROVE Way!Spec => []GatewayInv
<1>1. Way!Init => GatewayInv
  BY DEF Way!Init, GatewayInv
<1>2. GatewayInv /\ [Way!Next]_Way!vars => GatewayInv'
  <2> SUFFICES ASSUME GatewayInv, [Way!Next]_Way!vars PROVE GatewayInv'
    OBVIOUS
  <2>1. CASE UNCHANGED Way!vars
    BY <2>1 DEF Way!vars, GatewayInv, Earned, Known, FoundOut
  <2>2. CASE Way!Next /\ Way!Arrive
    BY <2>2, ArriveStep
  <2>3. CASE Way!Next /\ ~Way!Arrive /\ asked = Way!Idle
    BY <2>3, OnlyArrives DEF Way!Next, GatewayInv
  <2>4. CASE Way!Next /\ Way!Change /\ asked # Way!Idle
    BY <2>4, SeenStays DEF Way!Change, Way!Next, GatewayInv
  <2>5. CASE Way!Next /\ ~Way!Arrive /\ ~Way!Change /\ asked # Way!Idle
    <3>1. Earned(asked, seen) /\ seen' = seen \cup Way!Facts(asked)'
      BY <2>5 DEF GatewayInv, Way!Next
    <3>2. UNCHANGED <<grants, live, registered, ready>>
      BY <2>5, Zenon DEF Way!Next, Way!Step, Way!store, Way!Authenticate, Way!Handle, Way!AuthorizeInstance, Way!ResolveOwner,
         Way!CheckKey, Way!CheckGrants, Way!ResolveRoute, Way!Audit, Way!ResolveActor, Way!Authorized, Way!Serve
    <3>3. Going
      BY <2>5, <3>1, <3>2 DEF Going
    <3> QED BY <2>5, <3>3, AuthenticateStep, HandleStep, InstanceStep, OwnerStep, KeyStep, GrantsStep, RouteStep, AuditStep,
               ActorStep, AuthorizedStep, ServeStep DEF Way!Next, Way!Step
  <2> QED BY <2>1, <2>2, <2>3, <2>4, <2>5
<1> QED BY <1>1, <1>2, PTL DEF Way!Spec

(* Whatever changes between its steps, a request reaches a service only     *)
(* with a credential that was live, the permission its route asks, on the   *)
(* very account and system, within the limits of its key, and recorded      *)
(* (every route of the API).                                                *)
THEOREM OnlyWhatIsEarned == ASSUME GatewayConstants PROVE Way!Spec => []EffectsAreEarned
<1>1. GatewayInv => EffectsAreEarned
  <2> SUFFICES ASSUME GatewayInv, asked.at = "answered", asked.acted, asked.guard.who # "anyone"
               PROVE  EffectsAreEarned
    BY DEF EffectsAreEarned, Way!EffectsAreEarned
  <2>1. asked \in Asking /\ Known(asked, seen) /\ OnItsWay(asked) /\ FoundOut(asked, seen)
    BY IdleIsNot DEF GatewayInv, Earned
  <2>2. Placed(asked.guard)
    BY <2>1, GuardsPlaced DEF Asking
  <2>3. /\ "live" \in seen
        /\ asked.principal = "user" /\ asked.guard.changes => asked.credential = WithToken
    BY <2>1 DEF Known, At
  <2>4. asked.guard.level \in {"system", "path"} => "registered" \in seen /\ asked.account = Home[asked.system]
    BY <2>1 DEF OnItsWay, FoundOut, At, Way!PathAgrees, Way!Decided
  <2>5. Somewhere(asked) => asked.account = Way!Decided(asked)
    BY <2>4 DEF Way!Decided
  <2>6. asked.guard.level # "none" => "granted" \in seen /\ asked.audited = "succeeded"
    BY <2>1, <2>5 DEF FoundOut, At, Somewhere
  <2>7. Somewhere(asked) => "ready" \in seen /\ (Way!IsKey(asked) => KeyFits(asked))
    BY <2>1, <2>5 DEF FoundOut, At
  <2>8. asked.guard.permission # "none" => asked.guard.level # "none"
    BY <2>2 DEF Placed
  <2>9. Way!IsKey(asked) /\ asked.guard.permission # "none" => Somewhere(asked)
    BY <2>1, <2>8 DEF OnItsWay, At, Somewhere
  <2> QED BY <2>3, <2>4, <2>5, <2>6, <2>7, <2>8, <2>9, Zenon DEF EffectsAreEarned, Way!EffectsAreEarned, Somewhere, KeyFits, WithToken
<1> QED BY <1>1, GatewayInvariant, PTL

-----------------------------------------------------------------------------
(* Live sessions stay within the limit, and the chosen password stands      *)
(* (module SignIn).                                                         *)

(* Numbers have a least one.                                                *)
LEMMA Least == ASSUME NEW T, T \subseteq Nat, T # {} PROVE \E n \in T : \A m \in T : n <= m
  <1> DEFINE Below == {ss \in Nat \X Nat : ss[1] < ss[2]}
  <1>1. OpToRel(<, Nat) = Below
    BY Zenon DEF OpToRel
  <1> HIDE DEF Below
  <1>2. IsWellFoundedOn(Below, Nat)
    BY <1>1, NatLessThanWellFounded, Zenon
  <1>3. PICK n \in T : \A m \in T : <<m, n>> \notin Below
    BY <1>2, WFMin
  <1>4. \A m \in Nat : m < n => <<m, n>> \in Below
    <2>1. n \in Nat
      OBVIOUS
    <2> QED BY <2>1 DEF Below
  <1>5. \A m \in T : ~(m < n)
    BY <1>3, <1>4
  <1> QED BY <1>5

(* The instance counts as everybody does.                                   *)
LEMMA SignInCounts == \A S : User!Cardinality(S) = Cardinality(S)
  BY DEF User!Cardinality, Cardinality

SessionRow == [stamp : Nat, live : BOOLEAN, since : Nat]
SignInCall == [pc : {"idle", "fail", "clear", "rehash", "issue", "save", "trim", "change", "recovery"},
               pw : Nat, rehash : BOOLEAN, stamp : Nat]
Trimming == {c \in Requests : call[c].pc = "trim"}

(* Sessions are told apart by the time they were created, those about to be *)
(* saved included; and what is above the limit is about to be trimmed, or   *)
(* its request died.                                                        *)
SeatsHold ==
  /\ IsFiniteSet(sessions) /\ sessions \subseteq SessionRow
  /\ clock \in Nat /\ recoveries \in Nat /\ untrimmed \in Nat
  /\ \A s \in sessions : s.stamp <= clock
  /\ \A s, t \in sessions : s.stamp = t.stamp => s = t
  /\ \A c \in Requests : call[c].pc = "save" => call[c].stamp <= clock /\ \A s \in sessions : s.stamp # call[c].stamp
  /\ \A c, d \in Requests : call[c].pc = "save" /\ call[d].pc = "save" /\ call[c].stamp = call[d].stamp => c = d
  /\ \A s \in sessions : s.live => s.since = recoveries
  /\ Cardinality(User!Live) <= SessionLimit + Cardinality(Trimming) + untrimmed

(* A password that was verified is one, and is saved again only to replace  *)
(* outdated parameters.                                                     *)
Verified(q) ==
  /\ q.pc \in {"clear", "rehash"} => q.pw # 0
  /\ q.pc = "rehash" => q.rehash
  /\ ~stale => ~q.rehash

(* A credential has a password, the one chosen unless hashes are outdated.  *)
Credential(stored, word) ==
  /\ {"pw", "outdated"} \subseteq DOMAIN stored /\ stored.pw \in Nat /\ stored.outdated \in BOOLEAN
  /\ stored.pw = 0 => stored = User!NoCredential
  /\ ~stale => ~stored.outdated /\ (stored.pw # 0 => stored.pw = word)

PasswordHolds ==
  /\ stale \in BOOLEAN /\ changes \in Nat /\ recovery \in Nat
  /\ Credential(cred, chosen)
  /\ \A c \in Requests : Verified(call[c])

SignInInv == call \in [Requests -> SignInCall] /\ SeatsHold /\ PasswordHolds

LEMMA InitSignIn == ASSUME IsFiniteSet(Requests), SessionLimit \in Nat, User!Init PROVE SignInInv
<1>1. call = [c \in Requests |-> User!Idle] /\ User!Idle \in SignInCall /\ User!Idle.pc = "idle" /\ ~User!Idle.rehash
  BY DEF User!Init, User!Idle, SignInCall
<1>2. SeatsHold
  <2>1. Trimming = {} /\ User!Live = {}
    BY <1>1 DEF Trimming, User!Live, User!Init
  <2> QED BY <1>1, <2>1, FS_EmptySet DEF User!Init, SeatsHold
<1>3. PasswordHolds
  <2>1. User!NoCredential.pw = 0 /\ ~User!NoCredential.outdated /\ {"pw", "outdated"} \subseteq DOMAIN User!NoCredential
    BY DEF User!NoCredential
  <2>2. Credential(cred, chosen)
    <3>1. CASE cred = User!NoCredential
      <4>1. {"pw", "outdated"} \subseteq DOMAIN cred /\ cred.pw = 0 /\ cred.outdated = FALSE
        BY <3>1 DEF User!NoCredential
      <4>2. cred.outdated \in BOOLEAN /\ ~cred.outdated
        BY <4>1, Zenon
      <4>3. cred.pw \in Nat
        BY <4>1
      <4> QED BY <3>1, <4>1, <4>2, <4>3, Zenon DEF Credential
    <3>2. CASE cred = [pw |-> 1, failed |-> 0, locked |-> FALSE, outdated |-> stale]
      <4>1. /\ {"pw", "outdated"} \subseteq DOMAIN cred /\ cred.pw = 1 /\ cred.outdated = stale
            /\ chosen = cred.pw /\ stale \in BOOLEAN
        BY <3>2 DEF User!Init
      <4>2. cred.pw \in Nat /\ cred.pw # 0
        BY <4>1
      <4>3. cred.outdated \in BOOLEAN /\ (~stale => ~cred.outdated)
        BY <4>1, Zenon
      <4> QED BY <4>1, <4>2, <4>3 DEF Credential
    <3> QED BY <3>1, <3>2 DEF User!Init
  <2>3. stale \in BOOLEAN /\ changes \in Nat /\ recovery \in Nat
    BY <2>1 DEF User!Init
  <2> QED BY <1>1, <2>2, <2>3 DEF PasswordHolds, Verified
<1> QED BY <1>1, <1>2, <1>3 DEF SignInInv

-----------------------------------------------------------------------------
(* Sessions end, or none does: the rest are as they were.                   *)
SeatsEnd(those) == \E f \in [sessions -> SessionRow] :
  /\ sessions' = {f[s] : s \in sessions}
  /\ \A s \in sessions : f[s].stamp = s.stamp /\ (f[s].live => f[s] = s /\ s \notin those)

LEMMA NoSeatEnds == ASSUME SeatsHold, UNCHANGED sessions PROVE SeatsEnd({})
<1> DEFINE f == [s \in sessions |-> s]
<1>1. f \in [sessions -> SessionRow] /\ \A s \in sessions : f[s] = s
  BY DEF SeatsHold
<1> HIDE DEF f
<1>2. sessions' = {f[s] : s \in sessions}
  BY <1>1
<1> QED BY <1>1, <1>2 DEF SeatsEnd

LEMMA RevokedEnd == ASSUME SeatsHold, NEW those, sessions' = User!Revoked(those) PROVE SeatsEnd(those)
<1> DEFINE f == [s \in sessions |-> [s EXCEPT !.live = s.live /\ s \notin those]]
<1>1. sessions' = {f[s] : s \in sessions}
  BY DEF User!Revoked
<1>2. ASSUME NEW s \in sessions
      PROVE  f[s] \in SessionRow /\ f[s].stamp = s.stamp /\ (f[s].live => f[s] = s /\ s \notin those)
  <2>1. s \in SessionRow
    BY DEF SeatsHold
  <2>2. CASE s.live /\ s \notin those
    <3>1. f[s] = [s EXCEPT !.live = TRUE]
      BY <2>2, Zenon
    <3> QED BY <2>1, <2>2, <3>1 DEF SessionRow
  <2>3. CASE ~(s.live /\ s \notin those)
    <3>1. f[s] = [s EXCEPT !.live = FALSE]
      BY <2>3, Zenon
    <3> QED BY <2>1, <2>3, <3>1 DEF SessionRow
  <2> QED BY <2>2, <2>3
<1>3. f \in [sessions -> SessionRow]
  BY <1>2
<1> HIDE DEF f
<1> QED BY <1>1, <1>2, <1>3 DEF SeatsEnd

(* The rest of what holds of sessions goes through, if nobody else is about *)
(* to save one.                                                             *)
LEMMA SeatsEndStep ==
  ASSUME SeatsHold, NEW those, SeatsEnd(those), clock' = clock, recoveries' \in Nat, untrimmed' \in Nat,
         \A c \in Requests : call'[c].pc = "save" => call'[c] = call[c],
         recoveries' = recoveries \/ sessions \subseteq those
  PROVE  /\ User!Live' \subseteq User!Live \ those /\ IsFiniteSet(User!Live)
         /\ Cardinality(User!Live') <= SessionLimit + Cardinality(Trimming') + untrimmed' => SeatsHold'
<1>1. PICK f \in [sessions -> SessionRow] :
        /\ sessions' = {f[s] : s \in sessions}
        /\ \A s \in sessions : f[s].stamp = s.stamp /\ (f[s].live => f[s] = s /\ s \notin those)
  BY DEF SeatsEnd
<1>2. User!Live' \subseteq User!Live \ those
  BY <1>1 DEF User!Live
<1>3. IsFiniteSet(User!Live) /\ User!Live \subseteq sessions
  <2>1. User!Live \subseteq sessions
    BY DEF User!Live
  <2> QED BY <2>1, FS_Subset DEF SeatsHold
<1>4. IsFiniteSet(sessions')
  <2>1. f \in Surjection(sessions, sessions')
    BY <1>1 DEF Surjection
  <2> QED BY <2>1, FS_Surjection DEF SeatsHold
<1>5. /\ sessions' \subseteq SessionRow
      /\ \A x \in sessions' : \E s \in sessions : x = f[s] /\ x.stamp = s.stamp /\ (x.live => x = s /\ s \notin those)
  BY <1>1
<1>6. \A x, y \in sessions' : x.stamp = y.stamp => x = y
  BY <1>5 DEF SeatsHold
<1>7. \A x \in sessions' : x.stamp <= clock /\ (x.live => x.since = recoveries')
  BY <1>5 DEF SeatsHold
<1>8. \A c \in Requests : call'[c].pc = "save" => call'[c].stamp <= clock /\ \A x \in sessions' : x.stamp # call'[c].stamp
  BY <1>5 DEF SeatsHold
<1>9. \A c, d \in Requests : call'[c].pc = "save" /\ call'[d].pc = "save" /\ call'[c].stamp = call'[d].stamp => c = d
  BY DEF SeatsHold
<1>10. Cardinality(User!Live') <= SessionLimit + Cardinality(Trimming') + untrimmed' => SeatsHold'
  BY <1>4, <1>5, <1>6, <1>7, <1>8, <1>9 DEF SeatsHold
<1> QED BY <1>2, <1>3, <1>10

(* So if nobody else trims, or has begun to.                                *)
LEMMA SeatsKept ==
  ASSUME IsFiniteSet(Requests), SessionLimit \in Nat, SeatsHold, NEW those, SeatsEnd(those),
         UNCHANGED <<clock, untrimmed>>, recoveries' \in Nat,
         \A c \in Requests : call'[c].pc = "save" => call'[c] = call[c],
         \A c \in Requests : call'[c].pc = "trim" <=> call[c].pc = "trim",
         recoveries' = recoveries \/ sessions \subseteq those
  PROVE  SeatsHold'
<1>1. /\ User!Live' \subseteq User!Live \ those /\ IsFiniteSet(User!Live)
      /\ Cardinality(User!Live') <= SessionLimit + Cardinality(Trimming') + untrimmed' => SeatsHold'
  BY SeatsEndStep DEF SeatsHold
<1>2. Trimming' = Trimming /\ IsFiniteSet(Trimming)
  <2>1. Trimming \subseteq Requests
    BY DEF Trimming
  <2> QED BY <2>1, FS_Subset DEF Trimming
<1>3. Cardinality(User!Live') <= Cardinality(User!Live) /\ Cardinality(User!Live') \in Nat /\ Cardinality(User!Live) \in Nat
  BY <1>1, FS_Subset, FS_CardinalityType
<1>4. Cardinality(Trimming) \in Nat
  BY <1>2, FS_CardinalityType
<1> QED BY <1>1, <1>2, <1>3, <1>4 DEF SeatsHold

-----------------------------------------------------------------------------
(* One request goes on.                                                     *)
Goes(c) == call' \in [Requests -> SignInCall] /\ \A d \in Requests : d # c => call'[d] = call[d]

LEMMA CallOn ==
  ASSUME SignInInv, NEW c \in Requests, NEW q \in SignInCall, call' = [call EXCEPT ![c] = q]
  PROVE  Goes(c) /\ call'[c] = q
BY DEF SignInInv, Goes

LEMMA CallTo ==
  ASSUME SignInInv, NEW c \in Requests, NEW pc, User!To(c, pc),
         pc \in {"idle", "fail", "clear", "rehash", "issue", "save", "trim", "change", "recovery"}
  PROVE  /\ Goes(c) /\ call'[c].pc = pc /\ call'[c].pw = call[c].pw /\ call'[c].stamp = call[c].stamp
         /\ call'[c].rehash = call[c].rehash
<1> DEFINE q == [call[c] EXCEPT !.pc = pc]
<1>1. call' = [call EXCEPT ![c] = q]
  BY DEF User!To
<1>2. call[c] \in SignInCall
  BY DEF SignInInv
<1>3. q \in SignInCall /\ q.pc = pc /\ q.pw = call[c].pw /\ q.stamp = call[c].stamp
  BY <1>2 DEF SignInCall
<1>4. q.rehash = call[c].rehash
  BY <1>2 DEF SignInCall
<1> HIDE DEF q
<1>5. Goes(c) /\ call'[c] = q
  BY <1>1, <1>3, CallOn
<1> QED BY <1>3, <1>4, <1>5, Zenon

LEMMA CallDone ==
  ASSUME SignInInv, NEW c \in Requests, User!Done(c)
  PROVE  Goes(c) /\ call'[c].pc = "idle" /\ ~call'[c].rehash
<1> DEFINE q == User!Idle
<1>1. call' = [call EXCEPT ![c] = q]
  BY DEF User!Done
<1>2. q \in SignInCall /\ q.pc = "idle" /\ ~q.rehash
  BY DEF User!Idle, SignInCall
<1> HIDE DEF q
<1>3. Goes(c) /\ call'[c] = q
  BY <1>1, <1>2, CallOn
<1> QED BY <1>2, <1>3, Zenon

(* It trims or saves no session: those that are live stay within.           *)
LEMMA SeatsGoOn ==
  ASSUME IsFiniteSet(Requests), SessionLimit \in Nat, SignInInv, NEW c \in Requests, Goes(c),
         call[c].pc # "trim", call'[c].pc \notin {"trim", "save"},
         NEW those, SeatsEnd(those), UNCHANGED <<clock, recoveries, untrimmed>>
  PROVE  SeatsHold'
<1>1. \A d \in Requests : call'[d].pc = "save" => call'[d] = call[d]
  BY DEF Goes
<1>2. \A d \in Requests : call'[d].pc = "trim" <=> call[d].pc = "trim"
  BY DEF Goes
<1>3. SeatsHold /\ recoveries' \in Nat
  BY DEF SignInInv, SeatsHold
<1> QED BY <1>1, <1>2, <1>3, SeatsKept

(* Its password is one, if it verified any.                                 *)
LEMMA PasswordGoesOn ==
  ASSUME SignInInv, NEW c \in Requests, Goes(c), Verified(call[c])', UNCHANGED stale,
         changes' \in Nat, recovery' \in Nat, Credential(cred, chosen)'
  PROVE  PasswordHolds'
<1>1. \A d \in Requests : Verified(call[d])'
  <2> SUFFICES ASSUME NEW d \in Requests PROVE Verified(call[d])'
    OBVIOUS
  <2>1. CASE d = c
    BY <2>1
  <2>2. CASE d # c
    <3>1. call'[d] = call[d] /\ Verified(call[d])
      BY <2>2 DEF Goes, SignInInv, PasswordHolds
    <3> QED BY <3>1 DEF Verified
  <2> QED BY <2>1, <2>2
<1>2. stale' \in BOOLEAN
  BY DEF SignInInv, PasswordHolds
<1> QED BY <1>1, <1>2 DEF PasswordHolds

LEMMA PasswordUntouched ==
  ASSUME SignInInv, UNCHANGED <<stale, cred, recovery, chosen, changes>>
  PROVE  stale' = stale /\ changes' \in Nat /\ recovery' \in Nat /\ Credential(cred, chosen)'
<1>1. changes' \in Nat /\ recovery' \in Nat
  BY DEF SignInInv, PasswordHolds
<1>2. Credential(cred, chosen)'
  <2>1. Credential(cred, chosen)
    BY DEF SignInInv, PasswordHolds
  <2> QED BY <2>1 DEF Credential
<1> QED BY <1>1, <1>2

(* A request that reads, and goes on to what it will do.                    *)
LEMMA OnlyCallGoesOn ==
  ASSUME IsFiniteSet(Requests), SessionLimit \in Nat, SignInInv, NEW c \in Requests, Goes(c),
         call[c].pc # "trim", call'[c].pc \notin {"trim", "save"}, Verified(call[c])',
         UNCHANGED <<stale, cred, recovery, sessions, clock, chosen, changes, recoveries, untrimmed>>
  PROVE  SignInInv'
<1>1. SeatsEnd({})
  BY NoSeatEnds DEF SignInInv
<1>2. SeatsHold'
  BY <1>1, SeatsGoOn
<1>3. PasswordHolds'
  BY PasswordUntouched, PasswordGoesOn
<1> QED BY <1>2, <1>3 DEF SignInInv, Goes

LEMMA AuthenticateCredentialStep ==
  ASSUME IsFiniteSet(Requests), SessionLimit \in Nat, SignInInv, NEW c \in Requests,
         NEW pw, User!Authenticate(c, pw)
  PROVE  SignInInv'
<1>1. /\ call[c].pc = "idle" /\ User!HasCredential
      /\ UNCHANGED <<stale, cred, recovery, sessions, clock, chosen, changes, recoveries, untrimmed>>
  BY DEF User!Authenticate
<1>2. CASE User!To(c, "fail")
  <2>1. Goes(c) /\ call'[c].pc = "fail" /\ call'[c].rehash = call[c].rehash
    BY <1>2, CallTo
  <2>2. Verified(call[c])
    BY DEF SignInInv, PasswordHolds
  <2>3. Verified(call[c])'
    BY <1>1, <2>1, <2>2 DEF Verified
  <2> QED BY <1>1, <2>1, <2>3, OnlyCallGoesOn
<1>3. CASE pw = cred.pw /\ call' = [call EXCEPT ![c] = [User!Idle EXCEPT !.pc = "clear", !.pw = pw, !.rehash = cred.outdated]]
  <2> DEFINE q == [User!Idle EXCEPT !.pc = "clear", !.pw = pw, !.rehash = cred.outdated]
  <2>1. Credential(cred, chosen)
    BY DEF SignInInv, PasswordHolds
  <2>2. PICK b \in BOOLEAN : b = cred.outdated
    BY <2>1, Zenon DEF Credential
  <2>3. ~stale => ~b
    BY <2>1, <2>2, Zenon DEF Credential
  <2>4. q = [User!Idle EXCEPT !.pc = "clear", !.pw = pw, !.rehash = b]
    BY <2>2, Zenon
  <2> HIDE DEF q
  <2>5. pw \in Nat /\ pw # 0
    BY <1>1, <1>3, <2>1 DEF Credential, User!HasCredential
  <2>6. q \in SignInCall /\ q.pc = "clear" /\ q.pw = pw /\ q.rehash = b
    BY <2>4, <2>5 DEF User!Idle, SignInCall
  <2>7. Goes(c) /\ call'[c] = q
    BY <1>3, <2>6, CallOn DEF q
  <2>8. Verified(call[c])'
    BY <1>1, <2>3, <2>5, <2>6, <2>7 DEF Verified
  <2> QED BY <1>1, <2>6, <2>7, <2>8, OnlyCallGoesOn
<1> QED BY <1>2, <1>3 DEF User!Authenticate

-----------------------------------------------------------------------------
(* The credential.                                                          *)

(* Counting attempts and locking leave the password as it is.               *)
LEMMA AttemptsCounted ==
  ASSUME SignInInv, cred.pw # 0, NEW v, NEW w, cred' = [cred EXCEPT !.failed = v, !.locked = w], UNCHANGED <<stale, chosen>>
  PROVE  Credential(cred, chosen)'
<1>1. Credential(cred, chosen)
  BY DEF SignInInv, PasswordHolds
<1>2. DOMAIN cred' = DOMAIN cred /\ cred'.pw = cred.pw /\ cred'.outdated = cred.outdated
  BY <1>1 DEF Credential
<1> HIDE DEF User!NoCredential
<1>3. cred.outdated \in BOOLEAN /\ (~stale => ~cred.outdated)
  BY <1>1 DEF Credential
<1>4. cred'.outdated \in BOOLEAN /\ (~stale' => ~cred'.outdated)
  BY <1>2, <1>3, Zenon
<1> QED BY <1>1, <1>2, <1>4 DEF Credential

LEMMA Cleared ==
  ASSUME SignInInv, User!ClearFailedAttempts, UNCHANGED <<stale, chosen>>
  PROVE  Credential(cred, chosen)'
<1>1. Credential(cred, chosen)
  BY DEF SignInInv, PasswordHolds
<1>2. CASE User!HasCredential
  <2>1. cred.pw # 0
    BY <1>1, <1>2 DEF Credential, User!HasCredential
  <2>2. cred' = [cred EXCEPT !.failed = 0, !.locked = FALSE]
    BY <1>2 DEF User!ClearFailedAttempts
  <2> QED BY <2>1, <2>2, AttemptsCounted
<1>3. CASE ~User!HasCredential
  BY <1>1, <1>3 DEF Credential, User!ClearFailedAttempts
<1> QED BY <1>2, <1>3

LEMMA Failed ==
  ASSUME SignInInv, User!RecordFailedAttempt, UNCHANGED <<stale, chosen>>
  PROVE  Credential(cred, chosen)'
<1>1. Credential(cred, chosen)
  BY DEF SignInInv, PasswordHolds
<1>2. CASE User!HasCredential
  <2>1. cred.pw # 0
    BY <1>1, <1>2 DEF Credential, User!HasCredential
  <2>2. PICK v, w : v = User!Min({cred.failed + 1, MaxAttempts}) /\ w = (cred.locked \/ cred.failed + 1 >= MaxAttempts)
    BY Zenon
  <2>3. cred' = [cred EXCEPT !.failed = v, !.locked = w]
    BY <1>2, <2>2, Zenon DEF User!RecordFailedAttempt
  <2> QED BY <2>1, <2>3, AttemptsCounted
<1>3. CASE ~User!HasCredential
  BY <1>1, <1>3 DEF Credential, User!RecordFailedAttempt
<1> QED BY <1>2, <1>3

(* A password that is saved is the one chosen, or replaces outdated         *)
(* parameters; the row of a deleted user is left.                           *)
LEMMA PasswordSaved ==
  ASSUME SignInInv, NEW pw \in Nat, pw # 0, User!SavePassword(pw), UNCHANGED stale,
         status = "deleted" => chosen' = chosen,
         status # "deleted" /\ ~stale => chosen' = pw
  PROVE  Credential(cred, chosen)'
<1>1. Credential(cred, chosen)
  BY DEF SignInInv, PasswordHolds
<1>2. CASE status = "deleted"
  BY <1>1, <1>2 DEF Credential, User!SavePassword
<1>3. CASE status # "deleted"
  <2>1. cred' = [pw |-> pw, failed |-> 0, locked |-> FALSE, outdated |-> FALSE]
    BY <1>3 DEF User!SavePassword
  <2>2. {"pw", "outdated"} \subseteq DOMAIN cred' /\ cred'.pw = pw /\ cred'.outdated = FALSE
    BY <2>1
  <2>3. cred'.outdated \in BOOLEAN /\ ~cred'.outdated
    BY <2>2, Zenon
  <2> QED BY <1>3, <2>2, <2>3 DEF Credential
<1> QED BY <1>2, <1>3

-----------------------------------------------------------------------------
(* The steps of a sign-in.                                                  *)

(* A request that writes the credential.                                    *)
LEMMA CredentialStep ==
  ASSUME IsFiniteSet(Requests), SessionLimit \in Nat, SignInInv, NEW c \in Requests, Goes(c),
         call[c].pc # "trim", call'[c].pc \notin {"trim", "save"}, Verified(call[c])',
         UNCHANGED <<stale, sessions, clock, recoveries, untrimmed>>,
         changes' \in Nat, recovery' \in Nat, Credential(cred, chosen)'
  PROVE  SignInInv'
<1>1. SeatsEnd({})
  BY NoSeatEnds DEF SignInInv
<1>2. SeatsHold'
  BY <1>1, SeatsGoOn
<1>3. PasswordHolds'
  BY PasswordGoesOn
<1> QED BY <1>2, <1>3 DEF SignInInv, Goes

LEMMA IdleVerified == ASSUME NEW c, call'[c].pc = "idle", ~call'[c].rehash PROVE Verified(call[c])'
BY DEF Verified

LEMMA NumbersStay == ASSUME SignInInv, UNCHANGED <<changes, recovery>> PROVE changes' \in Nat /\ recovery' \in Nat
BY DEF SignInInv, PasswordHolds

LEMMA FailStep ==
  ASSUME IsFiniteSet(Requests), SessionLimit \in Nat, SignInInv, NEW c \in Requests, User!Fail(c) PROVE SignInInv'
<1>1. /\ call[c].pc = "fail" /\ User!RecordFailedAttempt /\ User!Done(c)
      /\ UNCHANGED <<stale, recovery, sessions, clock, chosen, changes, recoveries, untrimmed>>
  BY DEF User!Fail
<1>2. Credential(cred, chosen)'
  BY <1>1, Failed
<1>3. Goes(c) /\ call'[c].pc = "idle" /\ Verified(call[c])'
  BY <1>1, CallDone, IdleVerified
<1> QED BY <1>1, <1>2, <1>3, NumbersStay, CredentialStep

LEMMA ClearStep ==
  ASSUME IsFiniteSet(Requests), SessionLimit \in Nat, SignInInv, NEW c \in Requests, User!Clear(c) PROVE SignInInv'
<1>1. /\ call[c].pc = "clear" /\ User!ClearFailedAttempts /\ User!To(c, IF call[c].rehash THEN "rehash" ELSE "issue")
      /\ UNCHANGED <<stale, recovery, sessions, clock, chosen, changes, recoveries, untrimmed>>
  BY DEF User!Clear
<1>2. Credential(cred, chosen)'
  BY <1>1, Cleared
<1>3. Verified(call[c])
  BY DEF SignInInv, PasswordHolds
<1>4. CASE call[c].rehash
  <2>1. User!To(c, "rehash")
    BY <1>1, <1>4
  <2>2. Goes(c) /\ call'[c].pc = "rehash" /\ call'[c].pw = call[c].pw /\ call'[c].rehash = call[c].rehash
    BY <2>1, CallTo
  <2>3. Verified(call[c])'
    BY <1>1, <1>3, <1>4, <2>2 DEF Verified
  <2> QED BY <1>1, <1>2, <2>2, <2>3, NumbersStay, CredentialStep
<1>5. CASE ~call[c].rehash
  <2>1. User!To(c, "issue")
    BY <1>1, <1>5
  <2>2. Goes(c) /\ call'[c].pc = "issue" /\ call'[c].rehash = call[c].rehash
    BY <2>1, CallTo
  <2>3. Verified(call[c])'
    BY <1>1, <1>5, <2>2 DEF Verified
  <2> QED BY <1>1, <1>2, <2>2, <2>3, NumbersStay, CredentialStep
<1> QED BY <1>4, <1>5

LEMMA RehashStep ==
  ASSUME IsFiniteSet(Requests), SessionLimit \in Nat, SignInInv, NEW c \in Requests, User!Rehash(c) PROVE SignInInv'
<1>1. /\ call[c].pc = "rehash" /\ User!SavePassword(call[c].pw) /\ User!To(c, "issue")
      /\ UNCHANGED <<stale, recovery, sessions, clock, chosen, changes, recoveries, untrimmed>>
  BY DEF User!Rehash
<1>2. Verified(call[c]) /\ call[c] \in SignInCall
  BY DEF SignInInv, PasswordHolds
<1>3. call[c].pw \in Nat /\ call[c].pw # 0 /\ stale
  BY <1>1, <1>2 DEF Verified, SignInCall
<1>4. Credential(cred, chosen)'
  BY <1>1, <1>3, PasswordSaved
<1>5. Goes(c) /\ call'[c].pc = "issue"
  BY <1>1, CallTo
<1>6. Verified(call[c])'
  BY <1>1, <1>3, <1>5 DEF Verified
<1> QED BY <1>1, <1>4, <1>5, <1>6, NumbersStay, CredentialStep

LEMMA IssueSessionStep ==
  ASSUME IsFiniteSet(Requests), SessionLimit \in Nat, SignInInv, NEW c \in Requests, User!Issue(c) PROVE SignInInv'
<1> DEFINE q == [call[c] EXCEPT !.pc = "save", !.stamp = clock + 1]
<1>1. /\ call[c].pc = "issue" /\ clock' = clock + 1 /\ call' = [call EXCEPT ![c] = q]
      /\ UNCHANGED <<stale, cred, recovery, sessions, chosen, changes, recoveries, untrimmed>>
  BY DEF User!Issue
<1>2. call[c] \in SignInCall /\ clock \in Nat /\ Verified(call[c])
  BY DEF SignInInv, SeatsHold, PasswordHolds
<1>3. q \in SignInCall /\ q.pc = "save" /\ q.stamp = clock + 1 /\ q.rehash = call[c].rehash
  <2> DEFINE p == [call[c] EXCEPT !.pc = "save"]
  <2>1. p \in SignInCall /\ p.pc = "save"
    BY <1>2 DEF SignInCall
  <2>2. p.rehash = call[c].rehash
    BY <1>2 DEF SignInCall
  <2>3. q = [p EXCEPT !.stamp = clock + 1]
    OBVIOUS
  <2> HIDE DEF p, q
  <2>4. q \in SignInCall /\ q.pc = "save" /\ q.stamp = clock + 1
    BY <1>2, <2>1, <2>3 DEF SignInCall
  <2>5. q.rehash = p.rehash
    BY <2>1, <2>3 DEF SignInCall
  <2> QED BY <2>2, <2>4, <2>5, Zenon
<1> HIDE DEF q
<1>4. Goes(c) /\ call'[c] = q
  BY <1>1, <1>3, CallOn
<1>5. PasswordHolds'
  <2>1. Verified(call[c])'
    BY <1>1, <1>2, <1>3, <1>4 DEF Verified
  <2> QED BY <1>1, <1>4, <2>1, PasswordUntouched, PasswordGoesOn
<1>6. SeatsHold'
  <2>1. Trimming' = Trimming /\ User!Live' = User!Live
    BY <1>1, <1>3, <1>4 DEF Trimming, Goes, User!Live
  <2>2. \A s \in sessions : s \in SessionRow /\ s.stamp <= clock
    BY DEF SignInInv, SeatsHold
  <2>3. \A s \in sessions : s.stamp <= clock' /\ s.stamp # clock'
    BY <1>1, <1>2, <2>2 DEF SessionRow
  <2>4. ASSUME NEW d \in Requests, call'[d].pc = "save"
        PROVE  call'[d].stamp <= clock' /\ (d # c => call'[d].stamp # clock') /\ \A s \in sessions : s.stamp # call'[d].stamp
    <3>1. CASE d = c
      BY <1>1, <1>2, <1>3, <1>4, <2>3, <3>1
    <3>2. CASE d # c
      <4>1. call'[d] = call[d] /\ call[d] \in SignInCall /\ call[d].stamp <= clock /\ \A s \in sessions : s.stamp # call[d].stamp
        BY <1>4, <2>4, <3>2 DEF Goes, SignInInv, SeatsHold
      <4> QED BY <1>1, <1>2, <3>2, <4>1 DEF SignInCall
    <3> QED BY <3>1, <3>2
  <2>5. \A d, e \in Requests : call'[d].pc = "save" /\ call'[e].pc = "save" /\ call'[d].stamp = call'[e].stamp => d = e
    <3> SUFFICES ASSUME NEW d \in Requests, NEW e \in Requests, d # e, call'[d].pc = "save", call'[e].pc = "save"
                 PROVE  call'[d].stamp # call'[e].stamp
      OBVIOUS
    <3>1. CASE d = c \/ e = c
      BY <1>1, <1>3, <1>4, <2>4, <3>1
    <3>2. CASE d # c /\ e # c
      BY <1>4, <3>2 DEF Goes, SignInInv, SeatsHold
    <3> QED BY <3>1, <3>2
  <2> QED BY <1>1, <1>2, <2>1, <2>3, <2>4, <2>5 DEF SignInInv, SeatsHold
<1> QED BY <1>4, <1>5, <1>6 DEF SignInInv, Goes

LEMMA SaveSessionStep ==
  ASSUME IsFiniteSet(Requests), SessionLimit \in Nat, SignInInv, NEW c \in Requests, User!SaveSession(c) PROVE SignInInv'
<1> DEFINE new == [stamp |-> call[c].stamp, live |-> TRUE, since |-> recoveries]
<1>1. /\ call[c].pc = "save" /\ sessions' = sessions \cup {new} /\ User!To(c, "trim")
      /\ UNCHANGED <<stale, cred, recovery, clock, chosen, changes, recoveries, untrimmed>>
  BY DEF User!SaveSession
<1>2. call[c] \in SignInCall /\ Verified(call[c]) /\ call[c].stamp <= clock /\ \A s \in sessions : s.stamp # call[c].stamp
  BY <1>1 DEF SignInInv, SeatsHold, PasswordHolds
<1>3. new \in SessionRow /\ new.stamp = call[c].stamp /\ new.live /\ new.since = recoveries
  BY <1>2 DEF SessionRow, SignInCall, SignInInv, SeatsHold
<1> HIDE DEF new
<1>4. Goes(c) /\ call'[c].pc = "trim" /\ call'[c].rehash = call[c].rehash
  BY <1>1, CallTo
<1>5. PasswordHolds'
  <2>1. Verified(call[c])'
    BY <1>1, <1>2, <1>4 DEF Verified
  <2> QED BY <1>1, <1>4, <2>1, PasswordUntouched, PasswordGoesOn
<1>6. /\ IsFiniteSet(sessions) /\ IsFiniteSet(User!Live) /\ IsFiniteSet(Trimming)
      /\ Cardinality(User!Live) \in Nat /\ Cardinality(Trimming) \in Nat
      /\ untrimmed \in Nat /\ Cardinality(User!Live) <= SessionLimit + Cardinality(Trimming) + untrimmed
  <2>1. User!Live \subseteq sessions /\ Trimming \subseteq Requests
    BY DEF User!Live, Trimming
  <2> QED BY <2>1, FS_Subset, FS_CardinalityType DEF SignInInv, SeatsHold
<1>7. Cardinality(User!Live') = Cardinality(User!Live) + 1
  <2>1. User!Live' = User!Live \cup {new} /\ new \notin User!Live
    BY <1>1, <1>2, <1>3 DEF User!Live
  <2> QED BY <1>6, <2>1, FS_AddElement
<1>8. Cardinality(Trimming') = Cardinality(Trimming) + 1
  <2>1. Trimming' = Trimming \cup {c} /\ c \notin Trimming
    BY <1>1, <1>4 DEF Trimming, Goes
  <2> QED BY <1>6, <2>1, FS_AddElement
<1>9. SeatsHold'
  <2>1. IsFiniteSet(sessions') /\ sessions' \subseteq SessionRow
    BY <1>1, <1>3, <1>6, FS_AddElement DEF SignInInv, SeatsHold
  <2>2. \A s \in sessions' : s.stamp <= clock /\ (s.live => s.since = recoveries)
    BY <1>1, <1>2, <1>3 DEF SignInInv, SeatsHold
  <2>3. \A s, t \in sessions' : s.stamp = t.stamp => s = t
    BY <1>1, <1>2, <1>3 DEF SignInInv, SeatsHold
  <2>4. ASSUME NEW d \in Requests, call'[d].pc = "save" PROVE d # c /\ call'[d] = call[d] /\ call[d].pc = "save"
    BY <1>4, <2>4 DEF Goes
  <2>5. ASSUME NEW d \in Requests, call'[d].pc = "save"
        PROVE  call'[d].stamp <= clock /\ \A s \in sessions' : s.stamp # call'[d].stamp
    <3>1. d # c /\ call'[d] = call[d] /\ call[d].pc = "save"
      BY <2>4, <2>5
    <3> QED BY <1>1, <1>3, <3>1 DEF SignInInv, SeatsHold
  <2>6. \A d, e \in Requests : call'[d].pc = "save" /\ call'[e].pc = "save" /\ call'[d].stamp = call'[e].stamp => d = e
    BY <2>4 DEF SignInInv, SeatsHold
  <2>7. clock \in Nat /\ recoveries \in Nat /\ untrimmed \in Nat
    BY DEF SignInInv, SeatsHold
  <2>8. Cardinality(User!Live') <= SessionLimit + Cardinality(Trimming') + untrimmed
    BY <1>6, <1>7, <1>8
  <2> QED BY <1>1, <2>1, <2>2, <2>3, <2>5, <2>6, <2>7, <2>8 DEF SeatsHold
<1> QED BY <1>4, <1>5, <1>9 DEF SignInInv, Goes

(* What is not among the oldest is no more than the limit: all of it but    *)
(* the oldest is newer than that one.                                       *)
LEMMA NewestAreFew ==
  ASSUME SessionLimit \in Nat, SeatsHold, NEW kept, kept \subseteq User!Live \ User!Oldest(SessionLimit)
  PROVE  IsFiniteSet(kept) /\ Cardinality(kept) \in Nat /\ Cardinality(kept) <= SessionLimit
<1>1. User!Live \subseteq sessions /\ IsFiniteSet(User!Live) /\ IsFiniteSet(kept)
  <2>1. User!Live \subseteq sessions
    BY DEF User!Live
  <2>2. IsFiniteSet(User!Live)
    BY <2>1, FS_Subset DEF SeatsHold
  <2> QED BY <2>1, <2>2, FS_Subset
<1>2. Cardinality(kept) \in Nat
  BY <1>1, FS_CardinalityType
<1>3. CASE kept = {}
  BY <1>1, <1>2, <1>3, FS_EmptySet
<1>4. CASE kept # {}
  <2> DEFINE times == {s.stamp : s \in kept}
  <2>1. \A s \in kept : s \in sessions /\ s.stamp \in Nat
    BY <1>1 DEF SeatsHold, SessionRow
  <2>2. times \subseteq Nat /\ times # {}
    BY <1>4, <2>1
  <2>3. PICK n \in times : \A m \in times : n <= m
    BY <2>2, Least
  <2>4. PICK s \in kept : s.stamp = n
    BY <2>3
  <2> DEFINE newer == {t \in User!Live : t.stamp > s.stamp}
  <2>5. kept \subseteq newer \cup {s}
    <3> SUFFICES ASSUME NEW t \in kept, t # s PROVE t \in newer
      OBVIOUS
    <3>1. t \in sessions /\ s \in sessions /\ t.stamp \in Nat /\ s.stamp \in Nat /\ s.stamp <= t.stamp
      BY <2>1, <2>3, <2>4
    <3>2. s.stamp # t.stamp
      BY <3>1 DEF SeatsHold
    <3> QED BY <3>1, <3>2
  <2>6. IsFiniteSet(newer) /\ Cardinality(newer) \in Nat
    BY <1>1, FS_Subset, FS_CardinalityType
  <2>7. ~(Cardinality(newer) >= SessionLimit)
    BY <2>4, SignInCounts DEF User!Oldest
  <2>8. s \notin newer
    BY <2>1
  <2>9. IsFiniteSet(newer \cup {s}) /\ Cardinality(newer \cup {s}) = Cardinality(newer) + 1
    BY <2>6, <2>8, FS_AddElement
  <2>10. Cardinality(kept) <= Cardinality(newer \cup {s})
    BY <2>5, <2>9, FS_Subset
  <2> QED BY <1>1, <1>2, <2>6, <2>7, <2>9, <2>10
<1> QED BY <1>1, <1>2, <1>3, <1>4

LEMMA TrimStep ==
  ASSUME IsFiniteSet(Requests), SessionLimit \in Nat, SignInInv, NEW c \in Requests, User!Trim(c) PROVE SignInInv'
<1>1. /\ call[c].pc = "trim" /\ sessions' = User!Revoked(User!Oldest(SessionLimit)) /\ User!Done(c) /\ untrimmed' = 0
      /\ UNCHANGED <<stale, cred, recovery, clock, chosen, changes, recoveries>>
  BY DEF User!Trim
<1>2. Goes(c) /\ call'[c].pc = "idle" /\ Verified(call[c])'
  BY <1>1, CallDone, IdleVerified
<1>3. PasswordHolds'
  BY <1>1, <1>2, PasswordUntouched, PasswordGoesOn
<1>4. SeatsEnd(User!Oldest(SessionLimit))
  BY <1>1, RevokedEnd DEF SignInInv
<1>5. untrimmed' \in Nat /\ recoveries' \in Nat /\ \A d \in Requests : call'[d].pc = "save" => call'[d] = call[d]
  BY <1>1, <1>2 DEF Goes, SignInInv, SeatsHold
<1>6. /\ User!Live' \subseteq User!Live \ User!Oldest(SessionLimit)
      /\ Cardinality(User!Live') <= SessionLimit + Cardinality(Trimming') + untrimmed' => SeatsHold'
  BY <1>1, <1>4, <1>5, SeatsEndStep DEF SignInInv
<1>7. Cardinality(User!Live') \in Nat /\ Cardinality(User!Live') <= SessionLimit
  BY <1>6, NewestAreFew DEF SignInInv
<1>8. Cardinality(Trimming') \in Nat
  <2>1. Trimming' \subseteq Requests
    BY DEF Trimming
  <2> QED BY <2>1, FS_Subset, FS_CardinalityType
<1>9. SeatsHold'
  BY <1>1, <1>6, <1>7, <1>8
<1> QED BY <1>2, <1>3, <1>9 DEF SignInInv, Goes

LEMMA RequestDiesStep ==
  ASSUME IsFiniteSet(Requests), SessionLimit \in Nat, SignInInv, NEW c \in Requests, User!Die(c) PROVE SignInInv'
<1>1. /\ User!Done(c) /\ untrimmed' = untrimmed + (IF call[c].pc = "trim" THEN 1 ELSE 0)
      /\ UNCHANGED <<stale, cred, recovery, sessions, clock, chosen, changes, recoveries>>
  BY DEF User!Die
<1>2. Goes(c) /\ call'[c].pc = "idle" /\ Verified(call[c])'
  BY <1>1, CallDone, IdleVerified
<1>3. CASE call[c].pc # "trim"
  <2>1. untrimmed' = untrimmed
    BY <1>1, <1>3 DEF SignInInv, SeatsHold
  <2> QED BY <1>1, <1>2, <1>3, <2>1, OnlyCallGoesOn
<1>4. CASE call[c].pc = "trim"
  <2>1. PasswordHolds'
    BY <1>1, <1>2, PasswordUntouched, PasswordGoesOn
  <2>2. untrimmed \in Nat /\ untrimmed' = untrimmed + 1 /\ recoveries' \in Nat
    BY <1>1, <1>4 DEF SignInInv, SeatsHold
  <2>3. \A d \in Requests : call'[d].pc = "save" => call'[d] = call[d]
    BY <1>2 DEF Goes
  <2>4. /\ User!Live' \subseteq User!Live \ {} /\ IsFiniteSet(User!Live)
        /\ Cardinality(User!Live') <= SessionLimit + Cardinality(Trimming') + untrimmed' => SeatsHold'
    <3>1. SeatsEnd({})
      BY <1>1, NoSeatEnds DEF SignInInv
    <3> QED BY <1>1, <2>2, <2>3, <3>1, SeatsEndStep DEF SignInInv
  <2>5. /\ Cardinality(User!Live') <= Cardinality(User!Live)
        /\ Cardinality(User!Live') \in Nat /\ Cardinality(User!Live) \in Nat
    BY <2>4, FS_Subset, FS_CardinalityType
  <2>6. Cardinality(Trimming') = Cardinality(Trimming) - 1 /\ Cardinality(Trimming) \in Nat
    <3>1. Trimming' = Trimming \ {c} /\ c \in Trimming
      BY <1>2, <1>4 DEF Trimming, Goes
    <3>2. IsFiniteSet(Trimming)
      <4>1. Trimming \subseteq Requests
        BY DEF Trimming
      <4> QED BY <4>1, FS_Subset
    <3> QED BY <3>1, <3>2, FS_RemoveElement, FS_CardinalityType
  <2>7. Cardinality(User!Live) <= SessionLimit + Cardinality(Trimming) + untrimmed
    BY DEF SignInInv, SeatsHold
  <2>8. SeatsHold'
    BY <2>2, <2>4, <2>5, <2>6, <2>7
  <2> QED BY <1>2, <2>1, <2>8 DEF SignInInv, Goes
<1> QED BY <1>3, <1>4

LEMMA LogoutStep ==
  ASSUME IsFiniteSet(Requests), SessionLimit \in Nat, SignInInv, NEW c \in Requests, NEW s, User!Logout(c, s) PROVE SignInInv'
<1>1. /\ call[c].pc = "idle" /\ sessions' = User!Revoked({s})
      /\ UNCHANGED <<stale, cred, recovery, clock, chosen, changes, recoveries, untrimmed>>
  BY DEF User!Logout
<1>2. PICK pc \in {"idle", "issue"} : User!To(c, pc)
  BY DEF User!Logout
<1>3. Goes(c) /\ call'[c].pc = pc /\ call'[c].rehash = call[c].rehash
  BY <1>2, CallTo
<1>4. Verified(call[c])
  BY DEF SignInInv, PasswordHolds
<1>5. Verified(call[c])'
  BY <1>1, <1>3, <1>4 DEF Verified
<1>6. SeatsHold'
  <2>1. SeatsEnd({s})
    BY <1>1, RevokedEnd DEF SignInInv
  <2> QED BY <1>1, <1>3, <2>1, SeatsGoOn
<1>7. PasswordHolds'
  BY <1>1, <1>3, <1>5, PasswordUntouched, PasswordGoesOn
<1> QED BY <1>3, <1>6, <1>7 DEF SignInInv, Goes

-----------------------------------------------------------------------------
(* Choosing a password.                                                     *)
LEMMA ToReadStep ==
  ASSUME IsFiniteSet(Requests), SessionLimit \in Nat, SignInInv, NEW c \in Requests, NEW pc \in {"change", "recovery"},
         call[c].pc = "idle", User!To(c, pc),
         UNCHANGED <<stale, cred, recovery, sessions, clock, chosen, changes, recoveries, untrimmed>>
  PROVE  SignInInv'
<1>1. Goes(c) /\ call'[c].pc = pc /\ call'[c].rehash = call[c].rehash
  BY CallTo
<1>2. Verified(call[c])
  BY DEF SignInInv, PasswordHolds
<1>3. Verified(call[c])'
  BY <1>1, <1>2 DEF Verified
<1> QED BY <1>1, <1>3, OnlyCallGoesOn

LEMMA ChangePasswordStep ==
  ASSUME IsFiniteSet(Requests), SessionLimit \in Nat, SignInInv, NEW c \in Requests, User!ChangePassword(c) PROVE SignInInv'
<1>1. /\ call[c].pc = "change" /\ User!SavePassword(changes + 1) /\ User!Done(c)
      /\ IF status = "deleted" THEN UNCHANGED <<chosen, changes>> ELSE chosen' = changes + 1 /\ changes' = changes + 1
      /\ UNCHANGED <<stale, recovery, sessions, clock, recoveries, untrimmed>>
  BY DEF User!ChangePassword, User!Chosen
<1>2. changes \in Nat /\ recovery \in Nat
  BY DEF SignInInv, PasswordHolds
<1>3. changes + 1 \in Nat /\ changes + 1 # 0 /\ changes' \in Nat /\ recovery' \in Nat
  BY <1>1, <1>2
<1>4. Credential(cred, chosen)'
  BY <1>1, <1>3, PasswordSaved
<1>5. Goes(c) /\ call'[c].pc = "idle" /\ Verified(call[c])'
  BY <1>1, CallDone, IdleVerified
<1> QED BY <1>1, <1>3, <1>4, <1>5, CredentialStep

LEMMA CreateRecoveryStep ==
  ASSUME IsFiniteSet(Requests), SessionLimit \in Nat, SignInInv, NEW c \in Requests, User!CreateRecovery(c) PROVE SignInInv'
<1>1. /\ call[c].pc = "recovery" /\ recovery' = changes + 1 /\ changes' = changes + 1 /\ User!Done(c)
      /\ UNCHANGED <<stale, cred, sessions, clock, chosen, recoveries, untrimmed>>
  BY DEF User!CreateRecovery
<1>2. changes' \in Nat /\ recovery' \in Nat
  BY <1>1 DEF SignInInv, PasswordHolds
<1>3. Credential(cred, chosen)'
  <2>1. Credential(cred, chosen)
    BY DEF SignInInv, PasswordHolds
  <2> QED BY <1>1, <2>1 DEF Credential
<1>4. Goes(c) /\ call'[c].pc = "idle" /\ Verified(call[c])'
  BY <1>1, CallDone, IdleVerified
<1> QED BY <1>1, <1>2, <1>3, <1>4, CredentialStep

-----------------------------------------------------------------------------
(* Administration, and time.                                                *)
LEMMA NoCallStep ==
  ASSUME IsFiniteSet(Requests), SessionLimit \in Nat, SignInInv, UNCHANGED <<stale, call, clock, untrimmed>>,
         NEW those, SeatsEnd(those), recoveries' \in Nat, recoveries' = recoveries \/ sessions \subseteq those,
         changes' \in Nat, recovery' \in Nat, Credential(cred, chosen)'
  PROVE  SignInInv'
<1>1. SeatsHold'
  BY SeatsKept DEF SignInInv
<1>2. \A d \in Requests : Verified(call[d])'
  BY DEF SignInInv, PasswordHolds, Verified
<1>3. stale' \in BOOLEAN
  BY DEF SignInInv, PasswordHolds
<1>4. PasswordHolds'
  BY <1>2, <1>3 DEF PasswordHolds
<1> QED BY <1>1, <1>4 DEF SignInInv

LEMMA SignInTyped == ASSUME SignInInv PROVE changes \in Nat /\ recovery \in Nat /\ recoveries \in Nat /\ SeatsHold
BY DEF SignInInv, PasswordHolds, SeatsHold

LEMMA SetInitialPasswordStep == ASSUME IsFiniteSet(Requests), SessionLimit \in Nat, SignInInv, User!SetInitialPassword PROVE SignInInv'
<1>1. /\ status # "deleted" /\ User!SavePassword(changes + 1) /\ chosen' = changes + 1 /\ changes' = changes + 1
      /\ UNCHANGED <<stale, recovery, sessions, clock, call, recoveries, untrimmed>>
  BY DEF User!SetInitialPassword, User!Chosen
<1>2. changes + 1 \in Nat /\ changes + 1 # 0 /\ changes' \in Nat /\ recovery' \in Nat /\ recoveries' \in Nat
  BY <1>1, SignInTyped
<1>3. Credential(cred, chosen)'
  BY <1>1, <1>2, PasswordSaved
<1>4. SeatsEnd({})
  BY <1>1, NoSeatEnds, SignInTyped
<1> QED BY <1>1, <1>2, <1>3, <1>4, NoCallStep

LEMMA ConsumeRecoveryStep == ASSUME IsFiniteSet(Requests), SessionLimit \in Nat, SignInInv, User!ConsumeRecovery PROVE SignInInv'
<1>1. /\ recovery # 0 /\ status = "active" /\ User!SavePassword(recovery) /\ chosen' = recovery
      /\ recovery' = 0 /\ recoveries' = recoveries + 1 /\ sessions' = User!Revoked(sessions)
      /\ UNCHANGED <<stale, clock, call, changes, untrimmed>>
  BY DEF User!ConsumeRecovery
<1>2. recovery \in Nat /\ recovery' \in Nat /\ changes' \in Nat /\ recoveries' \in Nat
  BY <1>1, SignInTyped
<1>3. Credential(cred, chosen)'
  BY <1>1, <1>2, PasswordSaved
<1>4. SeatsEnd(sessions)
  BY <1>1, RevokedEnd, SignInTyped
<1> QED BY <1>1, <1>2, <1>3, <1>4, NoCallStep

(* Sessions end, and the credential is the one there was, or none.          *)
LEMMA EndedStep ==
  ASSUME IsFiniteSet(Requests), SessionLimit \in Nat, SignInInv, UNCHANGED <<stale, call, clock, untrimmed, recoveries, chosen, changes>>,
         NEW those, SeatsEnd(those), recovery' \in {0, recovery}, Credential(cred, chosen)'
  PROVE  SignInInv'
<1>1. recoveries' \in Nat /\ changes' \in Nat /\ recovery' \in Nat
  BY SignInTyped
<1> QED BY <1>1, NoCallStep

LEMMA CredentialStays ==
  ASSUME SignInInv, UNCHANGED <<stale, cred, chosen>> PROVE Credential(cred, chosen)'
<1>1. Credential(cred, chosen)
  BY DEF SignInInv, PasswordHolds
<1> QED BY <1>1 DEF Credential

LEMMA AdministrationStep ==
  ASSUME IsFiniteSet(Requests), SessionLimit \in Nat, SignInInv, User!ActivateUser \/ User!DisableUser \/ User!UnlockUser \/ User!DeleteUser PROVE SignInInv'
<1>1. CASE User!ActivateUser
  <2>1. UNCHANGED <<stale, cred, recovery, sessions, clock, call, chosen, changes, recoveries, untrimmed>>
    BY <1>1 DEF User!ActivateUser
  <2>2. SeatsEnd({}) /\ Credential(cred, chosen)'
    BY <2>1, NoSeatEnds, SignInTyped, CredentialStays
  <2> QED BY <2>1, <2>2, EndedStep
<1>2. CASE User!DisableUser
  <2>1. /\ sessions' = User!Revoked(sessions)
        /\ UNCHANGED <<stale, cred, recovery, clock, call, chosen, changes, recoveries, untrimmed>>
    BY <1>2 DEF User!DisableUser
  <2>2. SeatsEnd(sessions) /\ Credential(cred, chosen)'
    BY <2>1, RevokedEnd, SignInTyped, CredentialStays
  <2> QED BY <2>1, <2>2, EndedStep
<1>3. CASE User!UnlockUser
  <2>1. /\ User!ClearFailedAttempts
        /\ UNCHANGED <<stale, recovery, sessions, clock, call, chosen, changes, recoveries, untrimmed>>
    BY <1>3 DEF User!UnlockUser
  <2>2. SeatsEnd({}) /\ Credential(cred, chosen)'
    BY <2>1, NoSeatEnds, SignInTyped, Cleared
  <2> QED BY <2>1, <2>2, EndedStep
<1>4. CASE User!DeleteUser
  <2>1. /\ cred' = User!NoCredential /\ recovery' = 0 /\ sessions' = User!Revoked(sessions)
        /\ UNCHANGED <<stale, clock, call, chosen, changes, recoveries, untrimmed>>
    BY <1>4 DEF User!DeleteUser
  <2>2. SeatsEnd(sessions)
    BY <2>1, RevokedEnd, SignInTyped
  <2>3. Credential(cred, chosen)'
    <3>1. {"pw", "outdated"} \subseteq DOMAIN cred' /\ cred'.pw = 0 /\ cred'.outdated = FALSE
      BY <2>1 DEF User!NoCredential
    <3>2. cred'.outdated \in BOOLEAN /\ ~cred'.outdated
      BY <3>1, Zenon
    <3>3. cred'.pw \in Nat
      BY <3>1
    <3> QED BY <2>1, <3>1, <3>2, <3>3, Zenon DEF Credential
  <2> QED BY <2>1, <2>2, <2>3, EndedStep
<1> QED BY <1>1, <1>2, <1>3, <1>4

LEMMA TimePassesStep == ASSUME IsFiniteSet(Requests), SessionLimit \in Nat, SignInInv, User!Expire PROVE SignInInv'
<1>1. UNCHANGED <<stale, clock, call, chosen, changes, recoveries, untrimmed>>
  BY DEF User!Expire
<1>2. CASE cred.locked /\ cred' = [cred EXCEPT !.locked = FALSE] /\ UNCHANGED <<recovery, sessions>>
  <2>1. Credential(cred, chosen)
    BY DEF SignInInv, PasswordHolds
  <2>2. cred # User!NoCredential
    <3>1. User!NoCredential.locked = FALSE
      BY DEF User!NoCredential
    <3>2. cred.locked
      BY <1>2
    <3> QED BY <3>1, <3>2, Zenon
  <2>3. cred.pw # 0
    BY <2>1, <2>2 DEF Credential
  <2>4. Credential(cred, chosen)'
    <3>1. DOMAIN cred' = DOMAIN cred /\ cred'.pw = cred.pw /\ cred'.outdated = cred.outdated
      BY <1>2, <2>1 DEF Credential
    <3>2. cred'.outdated \in BOOLEAN /\ (~stale' => ~cred'.outdated)
      BY <1>1, <2>1, <3>1, Zenon DEF Credential
    <3> QED BY <1>1, <2>1, <2>3, <3>1, <3>2 DEF Credential
  <2>5. SeatsEnd({})
    BY <1>2, NoSeatEnds, SignInTyped
  <2> QED BY <1>1, <1>2, <2>4, <2>5, EndedStep
<1>3. CASE recovery' = 0 /\ UNCHANGED <<cred, sessions>>
  <2>1. SeatsEnd({}) /\ Credential(cred, chosen)'
    BY <1>1, <1>3, NoSeatEnds, SignInTyped, CredentialStays
  <2> QED BY <1>1, <1>3, <2>1, EndedStep
<1>4. CASE (\E s \in User!Live : sessions' = User!Revoked({s}) /\ UNCHANGED <<cred, recovery>>)
  <2>1. PICK s \in User!Live : sessions' = User!Revoked({s}) /\ UNCHANGED <<cred, recovery>>
    BY <1>4
  <2>2. SeatsEnd({s}) /\ Credential(cred, chosen)'
    BY <1>1, <2>1, RevokedEnd, SignInTyped, CredentialStays
  <2> QED BY <1>1, <2>1, <2>2, EndedStep
<1> QED BY <1>2, <1>3, <1>4 DEF User!Expire

LEMMA StepSignIn ==
  ASSUME IsFiniteSet(Requests), SessionLimit \in Nat, SignInInv, [User!Next]_User!vars PROVE SignInInv'
<1>1. CASE UNCHANGED User!vars
  <2>1. UNCHANGED <<stale, cred, recovery, sessions, clock, call, chosen, changes, recoveries, untrimmed>>
    BY <1>1 DEF User!vars
  <2>2. SeatsEnd({}) /\ Credential(cred, chosen)'
    BY <2>1, NoSeatEnds, SignInTyped, CredentialStays
  <2> QED BY <2>1, <2>2, EndedStep
<1>2. ASSUME NEW c \in Requests, NEW pw, User!ReadForChange(c, pw) PROVE SignInInv'
  BY <1>2, ToReadStep DEF User!ReadForChange
<1>3. ASSUME NEW c \in Requests, User!RequestRecovery(c) PROVE SignInInv'
  BY <1>3, ToReadStep DEF User!RequestRecovery
<1> QED BY <1>1, <1>2, <1>3, AuthenticateCredentialStep, FailStep, ClearStep, RehashStep, IssueSessionStep, SaveSessionStep,
           TrimStep, RequestDiesStep, LogoutStep, ChangePasswordStep, CreateRecoveryStep, SetInitialPasswordStep,
           ConsumeRecoveryStep, AdministrationStep, TimePassesStep DEF User!Next

LEMMA SignInHolds == ASSUME SignInInv PROVE SignInStands
<1>1. \A s \in User!Live : s.since = recoveries
  BY DEF SignInInv, SeatsHold, User!Live
<1>2. User!Cardinality(User!Live) <= SessionLimit + User!Cardinality({c \in Requests : call[c].pc = "trim"}) + untrimmed
  BY SignInCounts DEF SignInInv, SeatsHold, Trimming
<1>3. User!ChosenPasswordStands
  <2>1. Credential(cred, chosen)
    BY DEF SignInInv, PasswordHolds
  <2>2. User!HasCredential /\ ~stale => cred.pw # 0 /\ (cred.pw # 0 => cred.pw = chosen)
    BY <2>1 DEF Credential, User!HasCredential
  <2> QED BY <2>2 DEF User!ChosenPasswordStands
<1> QED BY <1>1, <1>2, <1>3 DEF SignInStands, User!SessionsEnd

(* Type correctness, and what is above makes each step of a sign-in, a      *)
(* change, a recovery or a session's end keep what it has to (authenticate, *)
(* issue_at, consume_recovery and their repository).                        *)
THEOREM SignInInvariant ==
  ASSUME IsFiniteSet(Requests), SessionLimit \in Nat PROVE User!Spec => []SignInInv
<1>1. User!Init => SignInInv
  BY InitSignIn
<1>2. SignInInv /\ [User!Next]_User!vars => SignInInv'
  BY StepSignIn
<1> QED BY <1>1, <1>2, PTL DEF User!Spec

(* However requests overlap, fail or die, a user has no more live sessions  *)
(* than the limit and those yet to be trimmed; none saved before a recovery *)
(* outlives it; and the password last chosen is the one stored unless       *)
(* hashes are outdated (issue_at, consume_recovery, save_password).         *)
THEOREM SignInsStand ==
  ASSUME IsFiniteSet(Requests), SessionLimit \in Nat PROVE User!Spec => []SignInStands
<1>1. SignInInv => SignInStands
  BY SignInHolds
<1> QED BY <1>1, SignInInvariant, PTL

-----------------------------------------------------------------------------
(* The first session of a user.  How far a session came says what is there  *)
(* by then; memberships, roles and assignments stay, and a database that    *)
(* was reserved is never none again.                                        *)
Prepared == kind = "sqlite" => database \notin {"none", "reserved"}

Stages == {"idle", "account", "membership", "provision", "activate", "unsafe", "roles", "save", "assign", "owned", "answered"}

(* What is there once the session s is where it is.                         *)
Reached(s) ==
  /\ s.pc \in {"provision", "activate", "roles", "save", "assign", "owned", "answered"} => Person \in members
  /\ s.pc \in {"provision", "activate"} => kind = "sqlite"
  /\ s.pc \in {"roles", "save", "assign", "owned", "answered"} => Prepared
  /\ s.pc = "save" => \A n \in DOMAIN Kinds : Kinds[n] \in builtIn \/ n \in s.missing
  /\ s.pc \in {"assign", "owned", "answered"} => \A n \in DOMAIN Kinds : Kinds[n] \in builtIn
  /\ s.pc \in {"owned", "answered"} => <<Person, First!Owner>> \in assigned

SessionTyped ==
  /\ kind \in {"sqlite", "postgres"}
  /\ first \in [Requests -> [pc : Stages, missing : SUBSET DOMAIN Kinds, again : BOOLEAN]]

SessionInv ==
  /\ SessionTyped
  /\ standing = "active" => Prepared
  /\ \A c \in Requests : Reached(first[c])

LEMMA InitFirstSession == First!Init => SessionInv
BY DEF First!Init, First!Idle, SessionInv, SessionTyped, Stages, Reached, Prepared

(* A session c goes on, and what was there stays.                           *)
LEMMA SessionMoves ==
  ASSUME SessionInv, NEW c \in Requests, NEW s \in [pc : Stages, missing : SUBSET DOMAIN Kinds, again : BOOLEAN],
         first' = [first EXCEPT ![c] = s], kind' = kind,
         members \subseteq members', builtIn \subseteq builtIn', assigned \subseteq assigned',
         Prepared => Prepared', standing' = "active" => Prepared', Reached(s)'
  PROVE  SessionInv'
<1>1. SessionTyped'
  BY DEF SessionInv, SessionTyped
<1>2. ASSUME NEW d \in Requests PROVE Reached(first[d])'
  <2>1. CASE d = c
    <3>1. first'[d] = s
      BY <2>1 DEF SessionInv, SessionTyped
    <3> QED BY <3>1
  <2>2. CASE d # c
    <3>1. first'[d] = first[d] /\ Reached(first[d])
      BY <2>2 DEF SessionInv, SessionTyped
    <3> QED BY <3>1 DEF Reached, First!Owner
  <2> QED BY <2>1, <2>2
<1> QED BY <1>1, <1>2 DEF SessionInv

(* Sessions stay where they are, and what was there stays.                  *)
LEMMA SessionsStay ==
  ASSUME SessionInv, UNCHANGED <<first, kind>>,
         members \subseteq members', builtIn \subseteq builtIn', assigned \subseteq assigned',
         Prepared => Prepared', standing' = "active" => Prepared'
  PROVE  SessionInv'
BY DEF SessionInv, SessionTyped, Reached, First!Owner

(* One that is given up promises nothing.                                   *)
LEMMA SessionEnds ==
  ASSUME SessionInv, NEW c \in Requests, NEW pc \in {"idle", "unsafe"}, First!Goto(c, pc),
         UNCHANGED <<kind, members, builtIn, assigned>>, Prepared => Prepared', standing' = "active" => Prepared'
  PROVE  SessionInv'
<1>1. PICK s \in [pc : Stages, missing : SUBSET DOMAIN Kinds, again : BOOLEAN] : s = [first[c] EXCEPT !.pc = pc]
  BY DEF SessionInv, SessionTyped, Stages
<1>2. first' = [first EXCEPT ![c] = s] /\ s.pc = pc
  BY <1>1 DEF SessionInv, SessionTyped, First!Goto
<1>3. Reached(s)'
  BY <1>2 DEF Reached
<1>4. members \subseteq members' /\ builtIn \subseteq builtIn' /\ assigned \subseteq assigned'
  OBVIOUS
<1> QED BY <1>2, <1>3, <1>4, SessionMoves

(* One that goes on to the stage pc with what it takes there.               *)
LEMMA SessionGoes ==
  ASSUME SessionInv, NEW c \in Requests, NEW pc \in Stages \ {"save"}, First!Goto(c, pc), kind' = kind,
         members \subseteq members', builtIn \subseteq builtIn', assigned \subseteq assigned',
         Prepared => Prepared', standing' = "active" => Prepared',
         Reached([pc |-> pc])'
  PROVE  SessionInv'
<1>1. PICK s \in [pc : Stages, missing : SUBSET DOMAIN Kinds, again : BOOLEAN] : s = [first[c] EXCEPT !.pc = pc]
  BY DEF SessionInv, SessionTyped
<1>2. first' = [first EXCEPT ![c] = s] /\ s.pc = pc
  BY <1>1 DEF SessionInv, SessionTyped, First!Goto
<1>3. Reached(s)'
  BY <1>2 DEF Reached
<1> QED BY <1>2, <1>3, SessionMoves

LEMMA SessionBeginsStep == ASSUME SessionInv, NEW c \in Requests, First!Begin(c) PROVE SessionInv'
<1>1. PICK s : s = (IF First!ActiveAccount(Person) THEN [First!Idle EXCEPT !.pc = "roles", !.again = TRUE]
                    ELSE [First!Idle EXCEPT !.pc = "account"])
  OBVIOUS
<1>2. first' = [first EXCEPT ![c] = s] /\ UNCHANGED <<kind, standing, database, leasedBy, members, builtIn, assigned, mishaps>>
  BY <1>1 DEF First!Begin, First!account, First!access
<1>3. s \in [pc : Stages, missing : SUBSET DOMAIN Kinds, again : BOOLEAN]
  BY <1>1 DEF First!Idle, Stages
<1>4. Reached(s)'
  BY <1>1, <1>2 DEF Reached, Prepared, SessionInv, First!Idle, First!ActiveAccount
<1>5. (Prepared => Prepared') /\ (standing' = "active" => Prepared')
  BY <1>2 DEF Prepared, SessionInv
<1>6. members \subseteq members' /\ builtIn \subseteq builtIn' /\ assigned \subseteq assigned' /\ kind' = kind
  BY <1>2
<1> QED BY <1>2, <1>3, <1>4, <1>5, <1>6, SessionMoves

LEMMA AccountSavedStep == ASSUME SessionInv, NEW c \in Requests, First!SaveAccount(c) PROVE SessionInv'
<1>1. First!Goto(c, "membership") /\ "membership" \in Stages \ {"save"}
  BY DEF First!SaveAccount, Stages
<1>2. /\ standing' = IF kind = "sqlite" THEN "provisioning" ELSE "active"
      /\ UNCHANGED <<kind, database, leasedBy, members, builtIn, assigned, mishaps>>
  BY DEF First!SaveAccount, First!access
<1>3. Reached([pc |-> "membership"])'
  BY DEF Reached
<1>4. (Prepared => Prepared') /\ (standing' = "active" => Prepared')
  BY <1>2 DEF Prepared
<1> QED BY <1>1, <1>2, <1>3, <1>4, SessionGoes

LEMMA MembershipSavedStep == ASSUME SessionInv, NEW c \in Requests, First!SaveMembership(c) PROVE SessionInv'
<1>1. PICK pc \in Stages \ {"save"} : pc = (IF kind = "sqlite" THEN "provision" ELSE "roles")
  BY DEF Stages
<1>2. First!Goto(c, pc) /\ members' = members \cup {Person} /\ UNCHANGED <<kind, standing, database, leasedBy, builtIn, assigned, mishaps>>
  BY <1>1 DEF First!SaveMembership, First!account
<1>3. Reached([pc |-> pc])'
  BY <1>1, <1>2 DEF Reached, Prepared
<1>4. (Prepared => Prepared') /\ (standing' = "active" => Prepared')
  BY <1>2 DEF Prepared, SessionInv
<1> QED BY <1>1, <1>2, <1>3, <1>4, SessionGoes

LEMMA ReservedStep == ASSUME SessionInv, NEW c \in Requests, First!Reserve(c) PROVE SessionInv'
<1>1. /\ first[c].pc = "provision" /\ kind = "sqlite" /\ Person \in members
      /\ database' = IF database = "none" THEN "reserved" ELSE database
      /\ UNCHANGED <<kind, members, builtIn, assigned, mishaps>>
  BY DEF First!Reserve, First!At, First!access, SessionInv, Reached
<1>2. Prepared => Prepared'
  BY <1>1 DEF Prepared
<1>3. CASE database' = "active" /\ First!Goto(c, "roles") /\ UNCHANGED <<standing, leasedBy>>
  <2>1. Reached([pc |-> "roles"])' /\ (standing' = "active" => Prepared') /\ "roles" \in Stages \ {"save"}
    BY <1>1, <1>3 DEF Reached, Prepared, Stages
  <2> QED BY <1>1, <1>2, <1>3, <2>1, SessionGoes
<1>4. CASE database' = "unavailable" /\ First!Goto(c, "unsafe") /\ UNCHANGED <<standing, leasedBy>>
  <2>1. standing' = "active" => Prepared'
    BY <1>4 DEF Prepared
  <2> QED BY <1>1, <1>2, <1>4, <2>1, SessionEnds
<1>5. CASE database' = "reserved" /\ standing' = "provisioning" /\ First!Goto(c, "activate")
  <2>1. Reached([pc |-> "activate"])' /\ (standing' = "active" => Prepared') /\ "activate" \in Stages \ {"save"}
    BY <1>1, <1>5 DEF Reached, Prepared, Stages
  <2> QED BY <1>1, <1>2, <1>5, <2>1, SessionGoes
<1>6. CASE standing' = "provisioning" /\ First!Goto(c, "idle")
  <2>1. standing' = "active" => Prepared'
    BY <1>6
  <2> QED BY <1>1, <1>2, <1>6, <2>1, SessionEnds
<1> QED BY <1>3, <1>4, <1>5, <1>6 DEF First!Reserve

LEMMA ActivatedStep == ASSUME SessionInv, NEW c \in Requests, First!Activate(c) PROVE SessionInv'
<1>1. /\ first[c].pc = "activate" /\ Person \in members /\ database' = "active" /\ First!Goto(c, "roles")
      /\ UNCHANGED <<kind, members, builtIn, assigned, mishaps>>
  BY DEF First!Activate, First!At, First!access, SessionInv, Reached
<1>2. Prepared' /\ "roles" \in Stages \ {"save"}
  BY <1>1 DEF Prepared, Stages
<1>3. Reached([pc |-> "roles"])'
  BY <1>1, <1>2 DEF Reached
<1> QED BY <1>1, <1>2, <1>3, SessionGoes

LEMMA UnavailableStep == ASSUME SessionInv, NEW c \in Requests, First!MarkUnavailable(c) PROVE SessionInv'
<1>1. /\ database' = "unavailable" /\ First!Goto(c, "idle")
      /\ UNCHANGED <<kind, members, builtIn, assigned, mishaps>>
  BY DEF First!MarkUnavailable, First!access
<1>2. Prepared'
  BY <1>1 DEF Prepared
<1> QED BY <1>1, <1>2, SessionEnds

LEMMA RolesReadStep == ASSUME SessionInv, NEW c \in Requests, First!ReadRoles(c) PROVE SessionInv'
<1>1. PICK s : s = [first[c] EXCEPT !.missing = {n \in DOMAIN Kinds : Kinds[n] \notin builtIn}, !.pc = "save"]
  OBVIOUS
<1>2. first' = [first EXCEPT ![c] = s] /\ UNCHANGED <<kind, standing, database, leasedBy, members, builtIn, assigned, mishaps>>
  BY <1>1 DEF First!ReadRoles, First!account, First!access, SessionInv, SessionTyped
<1>3. /\ s \in [pc : Stages, missing : SUBSET DOMAIN Kinds, again : BOOLEAN]
      /\ s.pc = "save" /\ s.missing = {n \in DOMAIN Kinds : Kinds[n] \notin builtIn}
  BY <1>1 DEF SessionInv, SessionTyped, Stages
<1>4. Person \in members /\ Prepared
  BY DEF First!ReadRoles, First!At, SessionInv, Reached
<1>5. Reached(s)'
  BY <1>2, <1>3, <1>4 DEF Reached, Prepared
<1>6. (Prepared => Prepared') /\ (standing' = "active" => Prepared')
  BY <1>2 DEF Prepared, SessionInv
<1>7. members \subseteq members' /\ builtIn \subseteq builtIn' /\ assigned \subseteq assigned' /\ kind' = kind
  BY <1>2
<1> QED BY <1>2, <1>3, <1>5, <1>6, <1>7, SessionMoves

LEMMA RoleSavedStep == ASSUME SessionInv, NEW c \in Requests, First!SaveRole(c) PROVE SessionInv'
<1>1. PICK n : n = First!NextMissing(first[c].missing)
  OBVIOUS
<1>2. first[c].pc = "save" /\ UNCHANGED <<kind, standing, database, leasedBy, members, assigned, mishaps>>
  BY DEF First!SaveRole, First!account, First!At
<1>3. (Prepared => Prepared') /\ (standing' = "active" => Prepared')
  BY <1>2 DEF Prepared, SessionInv
<1>4. CASE Kinds[n] \in builtIn
  <2>1. First!Goto(c, "idle") /\ UNCHANGED builtIn
    BY <1>1, <1>4 DEF First!SaveRole
  <2> QED BY <1>2, <1>3, <2>1, SessionEnds
<1>5. CASE Kinds[n] \notin builtIn
  <2>1. PICK s : s = [first[c] EXCEPT !.missing = @ \ {n}]
    OBVIOUS
  <2>2. builtIn' = builtIn \cup {Kinds[n]} /\ first' = [first EXCEPT ![c] = s]
    BY <1>1, <1>5, <2>1 DEF First!SaveRole, SessionInv, SessionTyped
  <2>3. /\ s \in [pc : Stages, missing : SUBSET DOMAIN Kinds, again : BOOLEAN]
        /\ s.pc = "save" /\ s.missing = first[c].missing \ {n}
    BY <1>2, <2>1 DEF SessionInv, SessionTyped
  <2>4. Person \in members /\ Prepared /\ \A m \in DOMAIN Kinds : Kinds[m] \in builtIn \/ m \in first[c].missing
    BY <1>2 DEF SessionInv, Reached
  <2>5. Reached(s)'
    BY <1>2, <2>2, <2>3, <2>4 DEF Reached, Prepared
  <2> QED BY <1>2, <1>3, <2>2, <2>3, <2>5, SessionMoves
<1> QED BY <1>4, <1>5

LEMMA AssignmentsReadStep == ASSUME SessionInv, NEW c \in Requests, First!ReadAssignments(c) PROVE SessionInv'
<1>1. PICK pc \in Stages \ {"save"} : pc = (IF First!OwnerIsSeated THEN "owned" ELSE "assign")
  BY DEF Stages
<1>2. First!Goto(c, pc) /\ UNCHANGED <<kind, standing, database, leasedBy, members, builtIn, assigned, mishaps>>
  BY <1>1 DEF First!ReadAssignments, First!account, First!access
<1>3. Person \in members /\ Prepared /\ \A n \in DOMAIN Kinds : Kinds[n] \in builtIn
  BY DEF First!ReadAssignments, First!At, SessionInv, Reached
<1>4. Reached([pc |-> pc])'
  BY <1>1, <1>2, <1>3 DEF Reached, Prepared, First!OwnerIsSeated, First!Owner
<1>5. (Prepared => Prepared') /\ (standing' = "active" => Prepared')
  BY <1>2 DEF Prepared, SessionInv
<1> QED BY <1>1, <1>2, <1>4, <1>5, SessionGoes

LEMMA AssignmentSavedStep == ASSUME SessionInv, NEW c \in Requests, First!SaveAssignment(c) PROVE SessionInv'
<1>1. /\ First!Goto(c, "owned") /\ "owned" \in Stages \ {"save"} /\ assigned' = assigned \cup {<<Person, First!Owner>>}
      /\ UNCHANGED <<kind, standing, database, leasedBy, members, builtIn, mishaps>>
  BY DEF First!SaveAssignment, First!account, Stages
<1>2. Person \in members /\ Prepared /\ \A n \in DOMAIN Kinds : Kinds[n] \in builtIn
  BY DEF First!SaveAssignment, First!At, SessionInv, Reached
<1>3. Reached([pc |-> "owned"])'
  BY <1>1, <1>2 DEF Reached, Prepared, First!Owner
<1>4. (Prepared => Prepared') /\ (standing' = "active" => Prepared')
  BY <1>1 DEF Prepared, SessionInv
<1> QED BY <1>1, <1>3, <1>4, SessionGoes

LEMMA AnsweredStep == ASSUME SessionInv, NEW c \in Requests, First!Answer(c) PROVE SessionInv'
<1>1. PICK s : s = (IF first[c].again THEN [First!Idle EXCEPT !.pc = "answered"] ELSE [First!Idle EXCEPT !.pc = "roles", !.again = TRUE])
  OBVIOUS
<1>2. first' = [first EXCEPT ![c] = s] /\ UNCHANGED <<kind, standing, database, leasedBy, members, builtIn, assigned, mishaps>>
  BY <1>1 DEF First!Answer, First!account, First!access, SessionInv, SessionTyped
<1>3. s \in [pc : Stages, missing : SUBSET DOMAIN Kinds, again : BOOLEAN] /\ s.pc \in {"answered", "roles"}
  BY <1>1 DEF First!Idle, Stages
<1>4. Person \in members /\ Prepared /\ <<Person, First!Owner>> \in assigned /\ \A n \in DOMAIN Kinds : Kinds[n] \in builtIn
  BY DEF First!Answer, First!At, SessionInv, Reached
<1>5. Reached(s)'
  BY <1>2, <1>3, <1>4 DEF Reached, Prepared, First!Owner
<1>6. (Prepared => Prepared') /\ (standing' = "active" => Prepared')
  BY <1>2 DEF Prepared, SessionInv
<1>7. members \subseteq members' /\ builtIn \subseteq builtIn' /\ assigned \subseteq assigned' /\ kind' = kind
  BY <1>2
<1> QED BY <1>2, <1>3, <1>5, <1>6, <1>7, SessionMoves

LEMMA SessionFailsStep == ASSUME SessionInv, NEW c \in Requests, First!Fail(c) \/ First!Die(c) PROVE SessionInv'
<1>1. UNCHANGED <<kind, standing, database, members, builtIn, assigned>>
  BY DEF First!Fail, First!Die, First!account, First!access
<1>2. PICK pc \in {"idle", "unsafe"} : First!Goto(c, pc)
  BY DEF First!Fail, First!Die
<1>3. (Prepared => Prepared') /\ (standing' = "active" => Prepared')
  BY <1>1 DEF Prepared, SessionInv
<1> QED BY <1>1, <1>2, <1>3, SessionEnds

LEMMA StepFirstSession == ASSUME SessionInv, [First!Next]_First!vars PROVE SessionInv'
<1>1. ASSUME NEW guest \in Guests, First!Grant(guest) PROVE SessionInv'
  <2>1. assigned \subseteq assigned' /\ UNCHANGED <<kind, standing, database, leasedBy, members, builtIn, first, mishaps>>
    BY <1>1 DEF First!Grant, First!account
  <2>2. (Prepared => Prepared') /\ (standing' = "active" => Prepared')
    BY <2>1 DEF Prepared, SessionInv
  <2> QED BY <2>1, <2>2, SessionsStay
<1>2. CASE First!LeaseLapses \/ UNCHANGED First!vars
  <2>1. UNCHANGED <<kind, standing, database, members, builtIn, assigned, first>>
    BY <1>2 DEF First!LeaseLapses, First!vars, First!access
  <2>2. (Prepared => Prepared') /\ (standing' = "active" => Prepared')
    BY <2>1 DEF Prepared, SessionInv
  <2> QED BY <2>1, <2>2, SessionsStay
<1> QED BY <1>1, <1>2, SessionBeginsStep, AccountSavedStep, MembershipSavedStep, ReservedStep, ActivatedStep, UnavailableStep,
           RolesReadStep, RoleSavedStep, AssignmentsReadStep, AssignmentSavedStep, AnsweredStep, SessionFailsStep DEF First!Next

(* However far a session of the user came, the membership, the roles, the   *)
(* assignment and the database it takes for done are there (bootstrap and   *)
(* provision_personal_account).                                             *)
THEOREM SessionInvariant == First!Spec => []SessionInv
<1>1. First!Init => SessionInv
  BY InitFirstSession
<1>2. SessionInv /\ [First!Next]_First!vars => SessionInv'
  BY StepFirstSession
<1> QED BY <1>1, <1>2, PTL DEF First!Spec

(* Whoever is answered owns their account, whatever failed or died before   *)
(* and whichever session did what (bootstrap, ensure_personal_owner).       *)
THEOREM AnsweredOwn == First!Spec => []AnsweredIsSeated
<1>1. SessionInv => AnsweredIsSeated
  BY DEF SessionInv, Reached, Prepared, AnsweredIsSeated, First!AnsweredIsSeated, First!At, First!Range
<1> QED BY <1>1, SessionInvariant, PTL

-----------------------------------------------------------------------------
(* Inheritance stays valid, and the two decisions agree (module Roles).     *)

(* A set of numbers that has zero, and with each number the next, has all.  *)
LEMMA EveryNumber == ASSUME NEW T, 0 \in T, \A n \in Nat : n \in T => n + 1 \in T PROVE \A n \in Nat : n \in T
<1> DEFINE Rest == Nat \ T
           Below == {ss \in Nat \X Nat : ss[1] < ss[2]}
<1> SUFFICES ASSUME Rest # {} PROVE FALSE
  OBVIOUS
<1>1. OpToRel(<, Nat) = Below
  BY Zenon DEF OpToRel
<1> HIDE DEF Below
<1>2. IsWellFoundedOn(Below, Nat)
  BY <1>1, NatLessThanWellFounded, Zenon
<1>3. Rest \subseteq Nat
  OBVIOUS
<1> HIDE DEF Rest
<1>4. PICK n \in Rest : \A m \in Rest : <<m, n>> \notin Below
  BY <1>2, <1>3, WFMin
<1>5. n \in Nat /\ n \notin T
  BY DEF Rest
<1>6. n # 0 /\ n - 1 \in Nat /\ n - 1 < n
  BY <1>5
<1>7. n - 1 \in T
  BY <1>4, <1>5, <1>6 DEF Rest, Below
<1> QED BY <1>5, <1>6, <1>7

RoleConstants ==
  /\ IsFiniteSet(Access!Ids) /\ CustomRoles \cap DOMAIN BuiltInRoles = {}
  /\ NoRole \notin [permissions : SUBSET Access!Permissions, parents : SUBSET Access!Ids]
  /\ \A g \in GrantedRoles : g.role \in DOMAIN BuiltInRoles

RoleDefinitions == [permissions : SUBSET Access!Permissions, parents : SUBSET Access!Ids]

-----------------------------------------------------------------------------
(* The evaluator.                                                           *)

(* What it finds of each role by those that are being visited, if it is     *)
(* asked of g above the role.                                               *)
Found(rs, g, visiting) ==
  [r \in Access!Ids |->
    IF r \in visiting \/ r \notin Access!Existing(rs) THEN Access!Broken
    ELSE [valid |-> \A p \in Access!Parents(rs, r) : g[visiting \cup {r}][p].valid,
          permissions |-> Access!Own(rs, r) \cup UNION {g[visiting \cup {r}][p].permissions : p \in Access!Parents(rs, r)}]]

(* The recursion ends: each round visits one role more.                     *)
LEMMA ResolutionsExist ==
  ASSUME IsFiniteSet(Access!Ids), NEW rs
  PROVE \E g : g = [visiting \in SUBSET Access!Ids |-> Found(rs, g, visiting)]
<1> DEFINE Left(V) == Cardinality(Access!Ids \ V)
           Few(n) == {V \in SUBSET Access!Ids : Left(V) <= n}
           Solved == {n \in Nat : \E g : g = [V \in Few(n) |-> Found(rs, g, V)]}
<1>1. \A V \in SUBSET Access!Ids : Left(V) \in Nat /\ Left(V) <= Cardinality(Access!Ids)
  <2> SUFFICES ASSUME NEW V \in SUBSET Access!Ids PROVE Left(V) \in Nat /\ Left(V) <= Cardinality(Access!Ids)
    OBVIOUS
  <2>1. Access!Ids \ V \in SUBSET Access!Ids
    OBVIOUS
  <2> QED BY <2>1, FS_Subset, FS_CardinalityType
<1>2. \A V \in SUBSET Access!Ids, r \in Access!Ids : r \notin V => V \cup {r} \in SUBSET Access!Ids /\ Left(V \cup {r}) = Left(V) - 1
  <2> SUFFICES ASSUME NEW V \in SUBSET Access!Ids, NEW r \in Access!Ids, r \notin V
               PROVE V \cup {r} \in SUBSET Access!Ids /\ Left(V \cup {r}) = Left(V) - 1
    OBVIOUS
  <2>1. Access!Ids \ (V \cup {r}) = (Access!Ids \ V) \ {r} /\ r \in Access!Ids \ V
    OBVIOUS
  <2>2. IsFiniteSet(Access!Ids \ V)
    BY FS_Subset
  <2>3. Cardinality((Access!Ids \ V) \ {r}) = Cardinality(Access!Ids \ V) - 1
    BY <2>1, <2>2, FS_RemoveElement
  <2>4. V \cup {r} \in SUBSET Access!Ids
    OBVIOUS
  <2> QED BY ONLY <2>1, <2>3, <2>4
<1> HIDE DEF Left
<1>3. \A n \in Nat : \A g, h, V :
        V \in Few(n) /\ (\A W \in SUBSET Access!Ids : Left(W) < Left(V) => g[W] = h[W]) => Found(rs, g, V) = Found(rs, h, V)
  <2> SUFFICES ASSUME NEW n \in Nat, NEW g, NEW h, NEW V \in Few(n), \A W \in SUBSET Access!Ids : Left(W) < Left(V) => g[W] = h[W]
               PROVE Found(rs, g, V) = Found(rs, h, V)
    OBVIOUS
  <2>1. \A r \in Access!Ids : r \notin V => g[V \cup {r}] = h[V \cup {r}]
    BY <1>1, <1>2
  <2> QED BY <2>1, Zenon DEF Found
<1>4. 0 \in Solved
  <2>1. \E g : g = [V \in Few(0) |-> Found(rs, g, V)]
    <3> DEFINE g == [V \in Few(0) |-> Found(rs, {}, V)]
    <3>1. \A V \in Few(0) : Found(rs, {}, V) = Found(rs, g, V)
      <4> SUFFICES ASSUME NEW V \in Few(0) PROVE Found(rs, {}, V) = Found(rs, g, V)
        OBVIOUS
      <4>1. \A W \in SUBSET Access!Ids : ~(Left(W) < Left(V))
        BY <1>1
      <4> QED BY <4>1, <1>3
    <3>2. g = [V \in Few(0) |-> Found(rs, g, V)]
      BY <3>1, Zenon
    <3> HIDE DEF g
    <3> QED BY <3>2
  <2> QED BY <2>1, Zenon
<1>5. \A n \in Nat : n \in Solved => n + 1 \in Solved
  <2> SUFFICES ASSUME NEW n \in Nat, n \in Solved PROVE n + 1 \in Solved
    OBVIOUS
  <2>1. PICK g : g = [V \in Few(n) |-> Found(rs, g, V)]
    BY Zenon
  <2> DEFINE h == [V \in Few(n + 1) |-> Found(rs, g, V)]
  <2>2. \A V \in Few(n) : g[V] = Found(rs, g, V)
    BY <2>1, Zenon
  <2>3. Few(n) \subseteq Few(n + 1)
    BY <1>1
  <2>4. \A V \in Few(n) : h[V] = g[V]
    BY <2>2, <2>3, Zenon
  <2>5. \A V \in Few(n + 1) : Found(rs, g, V) = Found(rs, h, V)
    <3> SUFFICES ASSUME NEW V \in Few(n + 1) PROVE Found(rs, g, V) = Found(rs, h, V)
      OBVIOUS
    <3> HIDE DEF h
    <3>1. \A W \in SUBSET Access!Ids : Left(W) < Left(V) => g[W] = h[W]
      BY <1>1, <2>4
    <3> QED BY <3>1, <1>3
  <2>6. h = [V \in Few(n + 1) |-> Found(rs, h, V)]
    <3> HIDE DEF Few
    <3>1. [V \in Few(n + 1) |-> Found(rs, g, V)] = [V \in Few(n + 1) |-> Found(rs, h, V)]
      BY <2>5, Zenon
    <3> QED BY <3>1
  <2> HIDE DEF h
  <2>7. \E f : f = [V \in Few(n + 1) |-> Found(rs, f, V)]
    BY <2>6, Zenon
  <2>8. n + 1 \in Nat
    OBVIOUS
  <2> QED BY <2>7, <2>8, Zenon
<1>6. Cardinality(Access!Ids) \in Solved
  <2> HIDE DEF Solved
  <2>1. \A n \in Nat : n \in Solved
    BY <1>4, <1>5, EveryNumber
  <2> QED BY <2>1, FS_CardinalityType
<1>7. Few(Cardinality(Access!Ids)) = SUBSET Access!Ids
  BY <1>1
<1> QED BY <1>6, <1>7, Zenon

(* The evaluator follows the recursion.                                     *)
LEMMA ResolutionsUnfold ==
  ASSUME IsFiniteSet(Access!Ids), NEW rs, NEW visiting \in SUBSET Access!Ids
  PROVE Access!Resolutions(rs)[visiting] = Found(rs, Access!Resolutions(rs), visiting)
<1> DEFINE Good(g) == g = [V \in SUBSET Access!Ids |->
        [r \in Access!Ids |->
          IF r \in V \/ r \notin Access!Existing(rs) THEN Access!Broken
          ELSE LET above == {g[V \cup {r}][p] : p \in Access!Parents(rs, r)}
               IN [valid |-> \A a \in above : a.valid,
                   permissions |-> Access!Own(rs, r) \cup UNION {a.permissions : a \in above}]]]
<1>1. ASSUME NEW g PROVE Good(g) <=> g = [V \in SUBSET Access!Ids |-> Found(rs, g, V)]
  <2>1. ASSUME NEW V, NEW r PROVE
          LET above == {g[V \cup {r}][p] : p \in Access!Parents(rs, r)}
          IN /\ (\A a \in above : a.valid) <=> \A p \in Access!Parents(rs, r) : g[V \cup {r}][p].valid
             /\ UNION {a.permissions : a \in above} = UNION {g[V \cup {r}][p].permissions : p \in Access!Parents(rs, r)}
    OBVIOUS
  <2> DEFINE one(V, r) ==
        IF r \in V \/ r \notin Access!Existing(rs) THEN Access!Broken
        ELSE LET above == {g[V \cup {r}][p] : p \in Access!Parents(rs, r)}
             IN [valid |-> \A a \in above : a.valid,
                 permissions |-> Access!Own(rs, r) \cup UNION {a.permissions : a \in above}]
      other(V, r) ==
        IF r \in V \/ r \notin Access!Existing(rs) THEN Access!Broken
        ELSE [valid |-> \A p \in Access!Parents(rs, r) : g[V \cup {r}][p].valid,
              permissions |-> Access!Own(rs, r) \cup UNION {g[V \cup {r}][p].permissions : p \in Access!Parents(rs, r)}]
  <2>2. ASSUME NEW V, NEW r PROVE one(V, r) = other(V, r)
    BY <2>1
  <2>3. Good(g) <=> g = [V \in SUBSET Access!Ids |-> [r \in Access!Ids |-> one(V, r)]]
    OBVIOUS
  <2>4. [V \in SUBSET Access!Ids |-> Found(rs, g, V)] = [V \in SUBSET Access!Ids |-> [r \in Access!Ids |-> other(V, r)]]
    BY DEF Found
  <2> HIDE DEF one, other
  <2>5. [V \in SUBSET Access!Ids |-> [r \in Access!Ids |-> one(V, r)]] = [V \in SUBSET Access!Ids |-> [r \in Access!Ids |-> other(V, r)]]
    BY <2>2
  <2> QED BY <2>3, <2>4, <2>5
<1>2. Access!Resolutions(rs) = CHOOSE g : Good(g)
  BY Zenon DEF Access!Resolutions
<1> HIDE DEF Good
<1>3. \E g : Good(g)
  BY <1>1, ResolutionsExist, Zenon
<1>4. Good(Access!Resolutions(rs))
  BY <1>2, <1>3, Zenon
<1>5. Access!Resolutions(rs) = [V \in SUBSET Access!Ids |-> Found(rs, Access!Resolutions(rs), V)]
  BY <1>4, <1>1, Zenon
<1> QED BY <1>5, Zenon

(* What a round finds of one role.                                          *)
LEMMA OneRound ==
  ASSUME IsFiniteSet(Access!Ids), NEW rs, NEW visiting \in SUBSET Access!Ids, NEW r \in Access!Ids
  PROVE LET found == Access!Resolutions(rs)[visiting][r]
            above(p) == Access!Resolutions(rs)[visiting \cup {r}][p]
        IN /\ r \in visiting \/ r \notin Access!Existing(rs) => ~found.valid
           /\ r \notin visiting /\ r \in Access!Existing(rs) =>
                /\ found.valid <=> \A p \in Access!Parents(rs, r) : above(p).valid
                /\ Access!Own(rs, r) \subseteq found.permissions
                /\ found.permissions = Access!Own(rs, r) \cup UNION {above(p).permissions : p \in Access!Parents(rs, r)}
<1> DEFINE g == Access!Resolutions(rs)
           above(p) == g[visiting \cup {r}][p]
           ok == \A p \in Access!Parents(rs, r) : above(p).valid
           all == Access!Own(rs, r) \cup UNION {above(p).permissions : p \in Access!Parents(rs, r)}
<1> HIDE DEF g
<1>1. g[visiting] = Found(rs, g, visiting)
  BY ResolutionsUnfold DEF g
<1>2. Found(rs, g, visiting)[r] = IF r \in visiting \/ r \notin Access!Existing(rs) THEN Access!Broken ELSE [valid |-> ok, permissions |-> all]
  BY DEF Found
<1>0. Access!Own(rs, r) \subseteq all
  OBVIOUS
<1> HIDE DEF ok, all
<1>3. r \in visiting \/ r \notin Access!Existing(rs) => ~g[visiting][r].valid
  BY <1>1, <1>2 DEF Access!Broken
<1>4. r \notin visiting /\ r \in Access!Existing(rs) => (g[visiting][r].valid <=> ok) /\ g[visiting][r].permissions = all
  BY <1>1, <1>2
<1> QED BY <1>0, <1>3, <1>4 DEF g, ok, all

-----------------------------------------------------------------------------
(* What it takes for a role to be valid.                                    *)

(* Roles that inherit from each other only, and not in a circle.            *)
Closed(rs, S) == \A r \in S : Access!Parents(rs, r) \subseteq S
Rooted(rs, C) ==
  /\ C \subseteq Access!Existing(rs) /\ Closed(rs, C)
  /\ \A S \in SUBSET C : S # {} => \E r \in S : Access!Parents(rs, r) \cap S = {}

RoleTable == [CustomRoles -> RoleDefinitions \cup {NoRole}]

(* A set of sets of roles has one that cannot be extended by a role.        *)
LEMMA LargestOne ==
  ASSUME IsFiniteSet(Access!Ids), NEW T, T \subseteq SUBSET Access!Ids, T # {}
  PROVE \E V \in T : \A r \in Access!Ids : r \notin V => V \cup {r} \notin T
<1> DEFINE I == Access!Ids
           U == {I \ V : V \in T}
<1>1. IsWellFoundedOn(StrictSubsetOrdering(I), SUBSET I)
  BY FS_StrictSubsetOrderingWellFounded, FS_FiniteSubsetsOfFinite
<1>2. U \subseteq SUBSET I /\ U # {}
  <2>1. PICK V : V \in T
    OBVIOUS
  <2>2. I \ V \in U
    BY <2>1
  <2>3. ASSUME NEW X \in U PROVE X \subseteq I
    OBVIOUS
  <2> HIDE DEF U
  <2> QED BY <2>2, <2>3
<1>3. PICK X \in U : \A Y \in U : <<Y, X>> \notin StrictSubsetOrdering(I)
  <2> HIDE DEF U
  <2> QED BY <1>1, <1>2, WFMin
<1>4. PICK V \in T : X = I \ V
  OBVIOUS
<1>5. ASSUME NEW r \in I, r \notin V, V \cup {r} \in T PROVE FALSE
  <2> DEFINE Y == I \ (V \cup {r})
  <2>1. Y \in U /\ Y \subseteq X /\ Y # X
    BY <1>4, <1>5
  <2>2. <<Y, X>> \in StrictSubsetOrdering(I)
    BY <2>1, <1>2 DEF StrictSubsetOrdering
  <2> QED BY <2>1, <2>2, <1>3
<1> QED BY <1>5

LEMMA ParentsKnown ==
  ASSUME RoleConstants, NEW rs \in RoleTable, NEW r \in Access!Existing(rs) PROVE Access!Parents(rs, r) \subseteq Access!Ids /\ r \in Access!Ids
<1>1. CASE r \in CustomRoles
  <2>1. rs[r] \in RoleDefinitions
    BY <1>1 DEF RoleConstants, RoleTable, Access!Existing
  <2> QED BY <1>1, <2>1 DEF RoleDefinitions, Access!Parents, Access!Ids
<1>2. CASE r \notin CustomRoles
  BY <1>2 DEF Access!Existing, Access!Parents, Access!Ids
<1> QED BY <1>1, <1>2

(* A valid role and what it inherits from, directly or not, are rooted.     *)
LEMMA ValidIsRooted ==
  ASSUME RoleConstants, NEW rs \in RoleTable, NEW s \in Access!Ids, Access!Resolve(rs, s).valid
  PROVE \E C : Rooted(rs, C) /\ s \in C
<1>0. IsFiniteSet(Access!Ids)
  BY DEF RoleConstants
<1> DEFINE Good(V, r) == \E C \in SUBSET Access!Ids : Rooted(rs, C) /\ r \in C /\ C \cap V = {}
           Valid(V, r) == Access!Resolutions(rs)[V][r].valid
           Bad == {V \in SUBSET Access!Ids : \E r \in Access!Ids : Valid(V, r) /\ ~Good(V, r)}
<1>1. ASSUME NEW V \in SUBSET Access!Ids, NEW r \in Access!Ids, Valid(V, r)
      PROVE r \notin V /\ r \in Access!Existing(rs) /\ \A p \in Access!Parents(rs, r) : Valid(V \cup {r}, p)
  BY <1>0, <1>1, OneRound
<1> HIDE DEF Valid
<1>2. ASSUME Bad # {} PROVE FALSE
  <2>1. Bad \subseteq SUBSET Access!Ids
    OBVIOUS
  <2>2. PICK V \in Bad : \A r \in Access!Ids : r \notin V => V \cup {r} \notin Bad
    <3> HIDE DEF Bad
    <3> QED BY <1>0, <1>2, <2>1, LargestOne
  <2>3. PICK r \in Access!Ids : Valid(V, r) /\ ~Good(V, r)
    OBVIOUS
  <2> DEFINE W == V \cup {r}
             Wide == {C \in SUBSET Access!Ids : Rooted(rs, C) /\ C \cap W = {}}
             C == {r} \cup UNION Wide
  <2>4. r \notin V /\ r \in Access!Existing(rs) /\ W \in SUBSET Access!Ids /\ V \in SUBSET Access!Ids
    BY <1>1, <2>3
  <2>5. \A p \in Access!Parents(rs, r) : p \in Access!Ids /\ Valid(W, p)
    BY <1>1, <2>3, <2>4, ParentsKnown
  <2>6. \A p \in Access!Parents(rs, r) : Good(W, p)
    BY <2>2, <2>4, <2>5
  <2>7. Access!Parents(rs, r) \subseteq UNION Wide
    BY <2>6
  <2>8. \A D \in Wide : D \subseteq Access!Existing(rs) /\ Closed(rs, D) /\ D \cap W = {}
    BY DEF Rooted
  <2>9. C \subseteq Access!Existing(rs) /\ Closed(rs, C) /\ C \cap V = {} /\ C \in SUBSET Access!Ids
    <3>1. C \subseteq Access!Existing(rs) /\ C \cap V = {} /\ C \in SUBSET Access!Ids
      BY <2>4, <2>8
    <3>2. ASSUME NEW x \in C PROVE Access!Parents(rs, x) \subseteq C
      <4>1. CASE x = r
        BY <4>1, <2>7
      <4>2. CASE x # r
        BY <4>2, <2>8 DEF Closed
      <4> QED BY <4>1, <4>2
    <3> HIDE DEF C
    <3> QED BY <3>1, <3>2 DEF Closed
  <2>10. ASSUME NEW S \in SUBSET C, S # {} PROVE \E x \in S : Access!Parents(rs, x) \cap S = {}
    <3>1. CASE \E D \in Wide : S \cap D # {}
      <4>1. PICK D \in Wide : S \cap D # {}
        BY <3>1
      <4>2. S \cap D \in SUBSET D
        OBVIOUS
      <4>3. Rooted(rs, D)
        OBVIOUS
      <4>4. PICK x \in S \cap D : Access!Parents(rs, x) \cap (S \cap D) = {}
        BY <4>1, <4>2, <4>3 DEF Rooted
      <4>5. Access!Parents(rs, x) \subseteq D
        BY <2>8, <4>4 DEF Closed
      <4> QED BY <4>4, <4>5
    <3>2. CASE \A D \in Wide : S \cap D = {}
      <4>1. S = {r}
        BY <2>10, <3>2
      <4>2. r \notin Access!Parents(rs, r)
        BY <2>7, <2>8
      <4> QED BY <4>1, <4>2
    <3> QED BY <3>1, <3>2
  <2>11. Rooted(rs, C) /\ r \in C
    <3>1. r \in C
      OBVIOUS
    <3> HIDE DEF C
    <3> QED BY <3>1, <2>9, <2>10 DEF Rooted
  <2> HIDE DEF C
  <2> QED BY <2>3, <2>9, <2>11
<1>3. {} \notin Bad
  BY <1>2
<1>4. Valid({}, s)
  BY DEF Valid, Access!Resolve
<1> QED BY <1>3, <1>4

(* What a role inherits from, itself included, within a closed set.         *)
Line(rs, C, r) == {x \in C : \A D \in SUBSET C : Closed(rs, D) /\ r \in D => x \in D}

LEMMA LineHolds ==
  ASSUME NEW rs, NEW C, Closed(rs, C), NEW r \in C
  PROVE /\ r \in Line(rs, C, r) /\ Line(rs, C, r) \subseteq C /\ Closed(rs, Line(rs, C, r))
        /\ \A p \in Access!Parents(rs, r) : p \in C /\ p \in Line(rs, C, r) /\ Line(rs, C, p) \subseteq Line(rs, C, r)
<1>1. r \in Line(rs, C, r) /\ Line(rs, C, r) \subseteq C
  BY DEF Line
<1>2. Closed(rs, Line(rs, C, r))
  BY DEF Line, Closed
<1>3. ASSUME NEW p \in Access!Parents(rs, r) PROVE p \in C /\ p \in Line(rs, C, r) /\ Line(rs, C, p) \subseteq Line(rs, C, r)
  <2>1. p \in C /\ p \in Line(rs, C, r)
    BY <1>1, <1>2 DEF Closed
  <2> QED BY <1>1, <1>2, <2>1 DEF Line
<1> QED BY <1>1, <1>2, <1>3

(* No role inherits from what inherits from it.                             *)
LEMMA NoCircle ==
  ASSUME NEW rs, NEW C, Rooted(rs, C), NEW r \in C, NEW p \in Access!Parents(rs, r)
  PROVE r \notin Line(rs, C, p)
<1> SUFFICES ASSUME r \in Line(rs, C, p) PROVE FALSE
  OBVIOUS
<1>1. Closed(rs, C)
  BY DEF Rooted
<1>2. p \in C /\ p \in Line(rs, C, r)
  BY <1>1, LineHolds
<1> DEFINE S == {x \in Line(rs, C, r) : r \in Line(rs, C, x)}
<1>3. r \in S /\ S \subseteq C
  BY <1>1, LineHolds
<1>4. ASSUME NEW x \in S PROVE \E y \in Access!Parents(rs, x) : y \in S
  <2>1. CASE x = r
    BY <2>1, <1>2
  <2>2. CASE x # r
    <3> DEFINE D == {x} \cup UNION {Line(rs, C, y) : y \in Access!Parents(rs, x)}
    <3>1. x \in C /\ r \in Line(rs, C, x) /\ x \in Line(rs, C, r)
      BY <1>3
    <3>2. \A y \in Access!Parents(rs, x) : y \in C /\ y \in Line(rs, C, y) /\ Closed(rs, Line(rs, C, y)) /\ Line(rs, C, y) \subseteq C
      BY <1>1, <3>1, LineHolds
    <3>3. D \subseteq C /\ x \in D
      BY <3>1, <3>2
    <3>4. Closed(rs, D)
      <4> SUFFICES ASSUME NEW z \in D PROVE Access!Parents(rs, z) \subseteq D
        BY DEF Closed
      <4>1. CASE z = x
        BY <4>1, <3>2
      <4>2. CASE z # x
        BY <4>2, <3>2 DEF Closed
      <4> QED BY <4>1, <4>2
    <3>5. r \in D
      BY <3>1, <3>3, <3>4 DEF Line
    <3>6. PICK y \in Access!Parents(rs, x) : r \in Line(rs, C, y)
      BY <2>2, <3>5
    <3>7. y \in Line(rs, C, r)
      BY <1>1, <3>1, LineHolds DEF Closed
    <3> QED BY <3>6, <3>7
  <2> QED BY <2>1, <2>2
<1> HIDE DEF S
<1>5. PICK x \in S : Access!Parents(rs, x) \cap S = {}
  BY <1>3 DEF Rooted
<1> QED BY <1>4, <1>5

(* In a rooted set the evaluator finds every role valid.                    *)
LEMMA RootedIsValid ==
  ASSUME RoleConstants, NEW rs \in RoleTable, NEW C, Rooted(rs, C), NEW s \in C
  PROVE Access!Resolve(rs, s).valid
<1>0. IsFiniteSet(Access!Ids)
  BY DEF RoleConstants
<1> DEFINE Valid(V, r) == Access!Resolutions(rs)[V][r].valid
           Clear(r) == {V \in SUBSET Access!Ids : V \cap Line(rs, C, r) = {}}
           Bad == {r \in C : \E V \in Clear(r) : ~Valid(V, r)}
<1>1. Closed(rs, C) /\ C \subseteq Access!Existing(rs)
  BY DEF Rooted
<1>2. C \subseteq Access!Ids
  BY <1>1, ParentsKnown
<1>3. ASSUME NEW V \in SUBSET Access!Ids, NEW r \in Access!Ids, r \notin V, r \in Access!Existing(rs),
             \A p \in Access!Parents(rs, r) : Valid(V \cup {r}, p)
      PROVE Valid(V, r)
  BY <1>0, <1>3, OneRound
<1> HIDE DEF Valid
<1>4. ASSUME Bad # {} PROVE FALSE
  <2>1. Bad \in SUBSET C
    OBVIOUS
  <2>2. PICK r \in Bad : Access!Parents(rs, r) \cap Bad = {}
    <3> HIDE DEF Bad
    <3> QED BY <1>4, <2>1 DEF Rooted
  <2>3. PICK V \in Clear(r) : ~Valid(V, r)
    OBVIOUS
  <2>4. r \in C /\ r \in Line(rs, C, r) /\ V \in SUBSET Access!Ids /\ V \cap Line(rs, C, r) = {}
    BY <2>1, <1>1, LineHolds
  <2>5. ASSUME NEW p \in Access!Parents(rs, r) PROVE Valid(V \cup {r}, p)
    <3>1. p \in C /\ Line(rs, C, p) \subseteq Line(rs, C, r)
      BY <1>1, <2>4, LineHolds
    <3>2. r \notin Line(rs, C, p)
      BY <2>4, NoCircle
    <3>3. V \cup {r} \in Clear(p)
      BY <1>2, <2>4, <3>1, <3>2
    <3>4. p \notin Bad
      BY <2>2
    <3> QED BY <3>1, <3>3, <3>4
  <2>6. r \notin V /\ r \in Access!Existing(rs) /\ r \in Access!Ids
    BY <1>1, <1>2, <2>4
  <2> QED BY <2>3, <2>4, <2>5, <2>6, <1>3
<1>5. {} \in Clear(s)
  OBVIOUS
<1>6. Valid({}, s)
  BY <1>4, <1>5
<1> QED BY <1>6 DEF Valid, Access!Resolve

-----------------------------------------------------------------------------
(* What saving and deleting a role changes.                                 *)
LEMMA WithRole ==
  ASSUME RoleConstants, NEW rs \in RoleTable, NEW r \in CustomRoles, NEW def \in RoleDefinitions
  PROVE LET with == [rs EXCEPT ![r] = def] IN
        /\ with \in RoleTable /\ Access!Existing(with) = Access!Existing(rs) \cup {r}
        /\ Access!Parents(with, r) = def.parents
        /\ \A s : s # r => Access!Parents(with, s) = Access!Parents(rs, s)
<1> DEFINE with == [rs EXCEPT ![r] = def]
<1>1. with \in RoleTable /\ with[r] = def /\ (\A s \in CustomRoles : s # r => with[s] = rs[s]) /\ def # NoRole
  BY DEF RoleTable, RoleConstants, RoleDefinitions
<1> HIDE DEF with
<1>2. Access!Existing(with) = Access!Existing(rs) \cup {r}
  BY <1>1 DEF Access!Existing
<1>3. Access!Parents(with, r) = def.parents /\ \A s : s # r => Access!Parents(with, s) = Access!Parents(rs, s)
  BY <1>1 DEF Access!Parents
<1> QED BY <1>1, <1>2, <1>3 DEF with

LEMMA WithoutRole ==
  ASSUME RoleConstants, NEW rs \in RoleTable, NEW d \in CustomRoles
  PROVE LET without == [rs EXCEPT ![d] = NoRole] IN
        /\ without \in RoleTable /\ Access!Existing(without) = Access!Existing(rs) \ {d}
        /\ \A s : s # d => Access!Parents(without, s) = Access!Parents(rs, s)
<1> DEFINE without == [rs EXCEPT ![d] = NoRole]
<1>1. without \in RoleTable /\ without[d] = NoRole /\ \A s \in CustomRoles : s # d => without[s] = rs[s]
  BY DEF RoleTable
<1> HIDE DEF without
<1>2. Access!Existing(without) = Access!Existing(rs) \ {d}
  BY <1>1 DEF Access!Existing, RoleConstants
<1>3. \A s : s # d => Access!Parents(without, s) = Access!Parents(rs, s)
  BY <1>1 DEF Access!Parents
<1> QED BY <1>1, <1>2, <1>3 DEF without

(* A role that is saved over rooted ones, and is itself rooted.             *)
LEMMA SavedIsRooted ==
  ASSUME RoleConstants, NEW rs \in RoleTable, NEW r \in CustomRoles, NEW def \in RoleDefinitions,
         Rooted(rs, Access!Existing(rs)), def.parents \subseteq Access!Existing(rs),
         NEW C, Rooted([rs EXCEPT ![r] = def], C), r \in C
  PROVE Rooted([rs EXCEPT ![r] = def], Access!Existing([rs EXCEPT ![r] = def]))
<1> DEFINE with == [rs EXCEPT ![r] = def]
           All == Access!Existing(with)
<1>1. /\ All = Access!Existing(rs) \cup {r} /\ Access!Parents(with, r) = def.parents
      /\ \A s : s # r => Access!Parents(with, s) = Access!Parents(rs, s)
  BY WithRole
<1> HIDE DEF with
<1>2. Closed(with, All)
  BY <1>1 DEF Rooted, Closed
<1>3. Rooted(with, C)
  BY DEF with
<1>4. ASSUME NEW S \in SUBSET All, S # {} PROVE \E x \in S : Access!Parents(with, x) \cap S = {}
  <2>1. CASE S \cap C # {}
    <3>1. PICK x \in S \cap C : Access!Parents(with, x) \cap (S \cap C) = {}
      <4>1. S \cap C \in SUBSET C
        OBVIOUS
      <4> QED BY <2>1, <4>1, <1>3 DEF Rooted
    <3>2. Access!Parents(with, x) \subseteq C
      BY <1>3 DEF Rooted, Closed
    <3> QED BY <3>1, <3>2
  <2>2. CASE S \cap C = {}
    <3>1. r \notin S /\ S \in SUBSET Access!Existing(rs)
      BY <2>2, <1>1
    <3>2. PICK x \in S : Access!Parents(rs, x) \cap S = {}
      BY <1>4, <3>1 DEF Rooted
    <3> QED BY <1>1, <3>1, <3>2
  <2> QED BY <2>1, <2>2
<1>5. Rooted(with, All)
  BY <1>2, <1>4 DEF Rooted
<1> QED BY <1>5 DEF with

(* Whatever is rooted stays so without a role nobody in it inherits from.   *)
LEMMA RootedWithout ==
  ASSUME RoleConstants, NEW rs \in RoleTable, NEW d \in CustomRoles, NEW C, Rooted(rs, C),
         \A s \in C \ {d} : d \notin Access!Parents(rs, s)
  PROVE Rooted([rs EXCEPT ![d] = NoRole], C \ {d})
<1> DEFINE without == [rs EXCEPT ![d] = NoRole]
<1>1. Access!Existing(without) = Access!Existing(rs) \ {d} /\ \A s : s # d => Access!Parents(without, s) = Access!Parents(rs, s)
  BY WithoutRole
<1> HIDE DEF without
<1>2. Closed(without, C \ {d})
  BY <1>1 DEF Rooted, Closed
<1>3. ASSUME NEW S \in SUBSET (C \ {d}), S # {} PROVE \E x \in S : Access!Parents(without, x) \cap S = {}
  <2>1. S \in SUBSET C
    OBVIOUS
  <2>2. PICK x \in S : Access!Parents(rs, x) \cap S = {}
    BY <1>3, <2>1 DEF Rooted
  <2> QED BY <1>1, <2>2
<1>4. Rooted(without, C \ {d})
  BY <1>1, <1>2, <1>3 DEF Rooted
<1> QED BY <1>4 DEF without

-----------------------------------------------------------------------------
(* The invariant of the roles.                                              *)
RoleRequests ==
  [pc : {"idle", "save", "delete", "assign"}, role : Access!Ids \cup {NoRole}, def : RoleDefinitions \cup {NoRole},
   user : Grantees \cup {NoRole}, scope : Access!Scopes, stale : BOOLEAN]

RolesTyped ==
  /\ roles \in RoleTable /\ raced \in BOOLEAN /\ decision \in [Requests -> RoleRequests]
  /\ \A c \in Requests :
       /\ decision[c].pc \in {"save", "delete"} => decision[c].role \in CustomRoles
       /\ decision[c].pc = "save" => decision[c].def \in RoleDefinitions

(* What a request is about to save is rooted with it, as long as no other   *)
(* role was saved since it was decided on, whatever was deleted.            *)
SaveIsRooted(q) ==
  q.pc = "save" /\ ~q.stale /\ q.def.parents \subseteq Access!Existing(roles) =>
    \E C : Rooted([roles EXCEPT ![q.role] = q.def], C) /\ q.role \in C

RolesInv ==
  /\ RolesTyped
  /\ \A a \in assignments : a.role \in Access!Existing(roles)
  /\ Closed(roles, Access!Existing(roles))
  /\ raced \/ Rooted(roles, Access!Existing(roles))
  /\ \A c \in Requests : SaveIsRooted(decision[c])

LEMMA InitRoles == ASSUME RoleConstants, Access!Init PROVE RolesInv
<1>1. roles \in RoleTable /\ \A r \in CustomRoles : roles[r] # NoRole => roles[r].parents = {}
  BY DEF Access!Init, RoleTable, RoleDefinitions
<1>2. \A r \in Access!Existing(roles) : Access!Parents(roles, r) = {}
  BY <1>1 DEF Access!Existing, Access!Parents, RoleConstants
<1>3. Closed(roles, Access!Existing(roles)) /\ Rooted(roles, Access!Existing(roles))
  BY <1>2 DEF Closed, Rooted
<1>4. RolesTyped
  <2>1. Access!Idle \in RoleRequests
    BY DEF Access!Idle, RoleRequests, Access!Scopes
  <2> QED BY <1>1, <2>1 DEF RolesTyped, Access!Init, Access!Idle
<1>5. \A a \in assignments : a.role \in Access!Existing(roles)
  BY DEF Access!Init, RoleConstants, Access!Existing
<1>6. \A c \in Requests : SaveIsRooted(decision[c])
  BY DEF Access!Init, Access!Idle, SaveIsRooted
<1> QED BY <1>3, <1>4, <1>5, <1>6 DEF RolesInv

(* A step that leaves the roles: one request goes on, with a role it may    *)
(* save or delete.                                                          *)
LEMMA DecisionMoves ==
  ASSUME RolesInv, NEW c \in Requests, NEW q \in RoleRequests, decision' = [decision EXCEPT ![c] = q],
         roles' = roles, raced' = raced,
         q.pc \in {"save", "delete"} => q.role \in CustomRoles,
         q.pc = "save" => q.def \in RoleDefinitions,
         SaveIsRooted(q),
         \A a \in assignments' : a.role \in Access!Existing(roles)
  PROVE RolesInv'
<1>1. decision' \in [Requests -> RoleRequests] /\ \A d \in Requests : decision'[d] = IF d = c THEN q ELSE decision[d]
  BY DEF RolesInv, RolesTyped
<1>2. RolesTyped'
  BY <1>1 DEF RolesInv, RolesTyped
<1>3. ASSUME NEW d \in Requests PROVE SaveIsRooted(decision[d])'
  BY <1>1 DEF RolesInv, SaveIsRooted
<1> QED BY <1>2, <1>3 DEF RolesInv

LEMMA IdleMoves == Access!Idle \in RoleRequests /\ Access!Idle.pc = "idle" /\ SaveIsRooted(Access!Idle)
BY DEF Access!Idle, RoleRequests, Access!Scopes, SaveIsRooted

LEMMA StepDefine ==
  ASSUME RoleConstants, RolesInv, NEW c \in Requests, NEW user, NEW r \in CustomRoles,
         NEW permissions \in SUBSET Access!Permissions, NEW parents \in SUBSET (Access!Existing(roles) \ {r}),
         Access!Define(c, user, r, permissions, parents)
  PROVE RolesInv'
<1> DEFINE def == [permissions |-> permissions, parents |-> parents]
           q == [Access!Idle EXCEPT !.pc = "save", !.role = r, !.def = def]
           with == [roles EXCEPT ![r] = def]
<1>1. parents \subseteq Access!Ids
  BY DEF Access!Existing, Access!Ids
<1>2. def \in RoleDefinitions
  BY <1>1 DEF RoleDefinitions
<1>3. q \in RoleRequests /\ q.pc = "save" /\ q.role = r /\ q.def = def
  BY <1>2 DEF Access!Idle, RoleRequests, Access!Scopes, Access!Ids
<1>4. Access!Resolve(with, r).valid
  BY DEF Access!Define, Access!MayDelegate
<1>5. with \in RoleTable
  BY <1>2, WithRole DEF RolesInv, RolesTyped
<1>6. PICK C : Rooted(with, C) /\ r \in C
  BY <1>4, <1>5, ValidIsRooted DEF Access!Ids
<1>7. decision' = [decision EXCEPT ![c] = q] /\ roles' = roles /\ raced' = raced /\ assignments' = assignments
  BY DEF Access!Define
<1> HIDE DEF q, def
<1>8. SaveIsRooted(q)
  BY <1>3, <1>6 DEF SaveIsRooted
<1>9. \A a \in assignments' : a.role \in Access!Existing(roles)
  BY <1>7 DEF RolesInv
<1> QED BY <1>2, <1>3, <1>7, <1>8, <1>9, DecisionMoves

LEMMA StepSaveRole ==
  ASSUME RoleConstants, RolesInv, NEW c \in Requests, Access!SaveRole(c)
  PROVE RolesInv'
<1> DEFINE q == decision[c]
<1>1. q.role \in CustomRoles /\ q.def \in RoleDefinitions /\ q.pc = "save" /\ assignments' = assignments
  BY DEF Access!SaveRole, RolesInv, RolesTyped
<1>2. CASE ~(q.def.parents \subseteq Access!Existing(roles))
  <2>1. decision' = [decision EXCEPT ![c] = Access!Idle] /\ roles' = roles /\ raced' = raced
    BY <1>2 DEF Access!SaveRole, Access!Done
  <2>2. \A a \in assignments' : a.role \in Access!Existing(roles)
    BY <1>1 DEF RolesInv
  <2> QED BY <2>1, <2>2, IdleMoves, DecisionMoves
<1>3. CASE q.def.parents \subseteq Access!Existing(roles)
  <2> DEFINE with == [roles EXCEPT ![q.role] = q.def]
  <2>1. /\ roles' = with /\ raced' = (raced \/ q.stale)
        /\ decision' = [d \in Requests |-> IF d = c THEN Access!Idle ELSE [decision[d] EXCEPT !.stale = decision[d].pc = "save"]]
    BY <1>3 DEF Access!SaveRole
  <2>2. roles \in RoleTable
    BY DEF RolesInv, RolesTyped
  <2>3. /\ with \in RoleTable /\ Access!Existing(with) = Access!Existing(roles) \cup {q.role}
        /\ Access!Parents(with, q.role) = q.def.parents
        /\ \A s : s # q.role => Access!Parents(with, s) = Access!Parents(roles, s)
    BY <1>1, <2>2, WithRole
  <2>4. raced' \/ Rooted(with, Access!Existing(with))
    <3> SUFFICES ASSUME ~raced' PROVE Rooted(with, Access!Existing(with))
      OBVIOUS
    <3>1. ~raced /\ ~q.stale
      BY <2>1
    <3>2. PICK C : Rooted(with, C) /\ q.role \in C
      BY <1>1, <1>3, <3>1 DEF RolesInv, SaveIsRooted
    <3>3. Rooted(roles, Access!Existing(roles))
      BY <3>1 DEF RolesInv
    <3> QED BY <1>1, <1>3, <2>2, <3>2, <3>3, SavedIsRooted
  <2> HIDE DEF with
  <2>5. Closed(with, Access!Existing(with))
    BY <1>3, <2>3 DEF RolesInv, Closed
  <2>6. \A a \in assignments' : a.role \in Access!Existing(with)
    BY <1>1, <2>3 DEF RolesInv
  <2>7. ASSUME NEW d \in Requests
        PROVE /\ decision'[d] \in RoleRequests
              /\ decision'[d].pc = "save" => decision'[d].stale
              /\ decision'[d].pc \in {"save", "delete"} => decision'[d].role \in CustomRoles
              /\ decision'[d].pc = "save" => decision'[d].def \in RoleDefinitions
    <3>1. CASE d = c
      BY <2>1, <3>1, IdleMoves
    <3>2. CASE d # c
      <4> DEFINE e == decision[d]
      <4>1. e \in RoleRequests /\ (e.pc \in {"save", "delete"} => e.role \in CustomRoles) /\ (e.pc = "save" => e.def \in RoleDefinitions)
        BY DEF RolesInv, RolesTyped
      <4>2. decision'[d] = [e EXCEPT !.stale = e.pc = "save"]
        BY <2>1, <3>2
      <4> HIDE DEF e
      <4> QED BY <4>1, <4>2 DEF RoleRequests
    <3> QED BY <3>1, <3>2
  <2>8. RolesTyped'
    <3>1. raced' \in BOOLEAN
      BY <2>1 DEF RolesInv, RolesTyped, RoleRequests
    <3>2. decision' = [d \in Requests |-> decision'[d]]
      BY <2>1
    <3>3. decision' \in [Requests -> RoleRequests]
      BY <3>2, <2>7
    <3> QED BY <2>1, <2>3, <2>7, <3>1, <3>3 DEF RolesTyped
  <2>9. ASSUME NEW d \in Requests PROVE SaveIsRooted(decision[d])'
    <3>1. decision'[d].pc = "save" => decision'[d].stale
      BY <2>7
    <3> QED BY <3>1 DEF SaveIsRooted
  <2> QED BY <2>1, <2>4, <2>5, <2>6, <2>8, <2>9 DEF RolesInv
<1> QED BY <1>2, <1>3

LEMMA StepDeleteRow ==
  ASSUME RoleConstants, RolesInv, NEW c \in Requests, Access!DeleteRow(c)
  PROVE RolesInv'
<1> DEFINE d == decision[c].role
<1>1. d \in CustomRoles /\ decision' = [decision EXCEPT ![c] = Access!Idle] /\ raced' = raced
  BY DEF Access!DeleteRow, Access!Done, RolesInv, RolesTyped
<1>2. CASE \E s \in Access!Existing(roles) : d \in Access!Parents(roles, s)
  <2>1. roles' = roles /\ assignments' = assignments
    BY <1>2 DEF Access!DeleteRow
  <2>2. \A a \in assignments' : a.role \in Access!Existing(roles)
    BY <2>1 DEF RolesInv
  <2> QED BY <1>1, <2>1, <2>2, IdleMoves, DecisionMoves
<1>3. CASE ~\E s \in Access!Existing(roles) : d \in Access!Parents(roles, s)
  <2> DEFINE without == [roles EXCEPT ![d] = NoRole]
  <2>1. roles' = without /\ assignments' = {a \in assignments : a.role # d}
    BY <1>3 DEF Access!DeleteRow
  <2>2. roles \in RoleTable
    BY DEF RolesInv, RolesTyped
  <2>3. /\ without \in RoleTable /\ Access!Existing(without) = Access!Existing(roles) \ {d}
        /\ \A s : s # d => Access!Parents(without, s) = Access!Parents(roles, s)
    BY <1>1, <2>2, WithoutRole
  <2>4. raced' \/ Rooted(without, Access!Existing(without))
    <3> SUFFICES ASSUME ~raced' PROVE Rooted(without, Access!Existing(without))
      OBVIOUS
    <3>1. Rooted(roles, Access!Existing(roles))
      BY <1>1 DEF RolesInv
    <3>2. Rooted(without, Access!Existing(roles) \ {d})
      BY <1>1, <1>3, <2>2, <3>1, RootedWithout
    <3> HIDE DEF without
    <3> QED BY <2>3, <3>2
  <2>5. Closed(without, Access!Existing(without))
    BY <1>3, <2>3 DEF RolesInv, Closed
  <2>6. \A a \in assignments' : a.role \in Access!Existing(without)
    BY <2>1, <2>3 DEF RolesInv
  <2>7. ASSUME NEW e \in Requests, SaveIsRooted(decision[e]) PROVE SaveIsRooted(decision[e])'
    <3>1. CASE e = c
      BY <1>1, <3>1, IdleMoves DEF SaveIsRooted, RolesInv, RolesTyped
    <3>2. CASE e # c
      <4> DEFINE q == decision[e]
                 with == [roles EXCEPT ![q.role] = q.def]
                 then == [without EXCEPT ![q.role] = q.def]
      <4>1. decision'[e] = q
        BY <1>1, <3>2 DEF RolesInv, RolesTyped
      <4> SUFFICES ASSUME q.pc = "save", ~q.stale, q.def.parents \subseteq Access!Existing(without)
                   PROVE \E C : Rooted(then, C) /\ q.role \in C
        BY <2>1, <4>1 DEF SaveIsRooted
      <4>2. q.role \in CustomRoles /\ q.def \in RoleDefinitions
        BY DEF RolesInv, RolesTyped
      <4>3. PICK C : Rooted(with, C) /\ q.role \in C
        BY <2>3, <2>7 DEF SaveIsRooted
      <4>4. CASE q.role = d
        <5>1. then = with
          BY <4>4, <2>2 DEF RoleTable
        <5> QED BY <5>1, <4>3
      <4>5. CASE q.role # d
        <5>1. then = [with EXCEPT ![d] = NoRole]
          BY <4>5, <2>2 DEF RoleTable
        <5>2. /\ with \in RoleTable /\ Access!Existing(with) = Access!Existing(roles) \cup {q.role}
              /\ Access!Parents(with, q.role) = q.def.parents
              /\ \A s : s # q.role => Access!Parents(with, s) = Access!Parents(roles, s)
          BY <4>2, <2>2, WithRole
        <5>3. \A s \in C \ {d} : d \notin Access!Parents(with, s)
          <6>1. C \subseteq Access!Existing(roles) \cup {q.role}
            BY <4>3, <5>2 DEF Rooted
          <6>2. d \notin Access!Parents(with, q.role)
            BY <2>3, <5>2
          <6> HIDE DEF with
          <6> QED BY <1>3, <5>2, <6>1, <6>2
        <5>4. Rooted([with EXCEPT ![d] = NoRole], C \ {d})
          <6> HIDE DEF with
          <6> QED BY <1>1, <4>3, <5>2, <5>3, RootedWithout
        <5> QED BY <5>1, <5>4, <4>3, <4>5
      <4> QED BY <4>4, <4>5
    <3> QED BY <3>1, <3>2
  <2>8. RolesTyped'
    <3>1. Access!Idle \in RoleRequests /\ Access!Idle.pc = "idle"
      BY IdleMoves
    <3> QED BY <1>1, <2>1, <2>3, <3>1 DEF RolesInv, RolesTyped
  <2>9. \A e \in Requests : SaveIsRooted(decision[e])'
    BY <2>7 DEF RolesInv
  <2> QED BY <1>1, <2>1, <2>4, <2>5, <2>6, <2>8, <2>9 DEF RolesInv
<1> QED BY <1>2, <1>3

LEMMA StepAssignRole ==
  ASSUME RolesInv, NEW c \in Requests, NEW user, NEW r \in Access!Existing(roles), NEW to \in Grantees,
         NEW scope \in Access!Scopes, Access!AssignRole(c, user, r, to, scope)
  PROVE RolesInv'
<1> DEFINE q == [Access!Idle EXCEPT !.pc = "assign", !.role = r, !.user = to, !.scope = scope]
<1>1. r \in Access!Ids
  BY DEF Access!Existing, Access!Ids
<1>2. q \in RoleRequests /\ q.pc = "assign"
  BY <1>1 DEF Access!Idle, RoleRequests, Access!Scopes
<1>3. decision' = [decision EXCEPT ![c] = q] /\ roles' = roles /\ raced' = raced /\ assignments' = assignments
  BY DEF Access!AssignRole
<1> HIDE DEF q
<1>4. SaveIsRooted(q)
  BY <1>2 DEF SaveIsRooted
<1>5. \A a \in assignments' : a.role \in Access!Existing(roles)
  BY <1>3 DEF RolesInv
<1> QED BY <1>2, <1>3, <1>4, <1>5, DecisionMoves

LEMMA StepDeleteRole ==
  ASSUME RolesInv, NEW c \in Requests, NEW user, NEW r \in CustomRoles, Access!DeleteRole(c, user, r)
  PROVE RolesInv'
<1> DEFINE q == [Access!Idle EXCEPT !.pc = "delete", !.role = r]
<1>1. q \in RoleRequests /\ q.pc = "delete" /\ q.role = r
  BY DEF Access!Idle, RoleRequests, Access!Scopes, Access!Ids
<1>2. decision' = [decision EXCEPT ![c] = q] /\ roles' = roles /\ raced' = raced /\ assignments' = assignments
  BY DEF Access!DeleteRole
<1> HIDE DEF q
<1>3. SaveIsRooted(q)
  BY <1>1 DEF SaveIsRooted
<1>4. \A a \in assignments' : a.role \in Access!Existing(roles)
  BY <1>2 DEF RolesInv
<1> QED BY <1>1, <1>2, <1>3, <1>4, DecisionMoves

LEMMA StepSaveAssignment ==
  ASSUME RolesInv, NEW c \in Requests, Access!SaveAssignment(c)
  PROVE RolesInv'
<1>1. decision' = [decision EXCEPT ![c] = Access!Idle] /\ roles' = roles /\ raced' = raced
  BY DEF Access!SaveAssignment, Access!Done
<1>2. \A a \in assignments' : a.role \in Access!Existing(roles)
  BY DEF RolesInv, Access!SaveAssignment
<1> QED BY <1>1, <1>2, IdleMoves, DecisionMoves

LEMMA StepRoles == ASSUME RoleConstants, RolesInv, [Access!Next]_Access!vars PROVE RolesInv'
<1>1. CASE UNCHANGED Access!vars
  BY <1>1 DEF Access!vars, RolesInv, RolesTyped, Closed, SaveIsRooted
<1>2. ASSUME NEW c \in Requests, NEW user \in Managers, NEW r \in CustomRoles, NEW permissions \in SUBSET Access!Permissions,
             NEW parents \in SUBSET (Access!Existing(roles) \ {r}), Access!Define(c, user, r, permissions, parents)
      PROVE RolesInv'
  BY <1>2, StepDefine
<1>3. ASSUME NEW c \in Requests, NEW user \in Managers, NEW r \in CustomRoles, Access!DeleteRole(c, user, r) PROVE RolesInv'
  BY <1>3, StepDeleteRole
<1>4. ASSUME NEW c \in Requests, NEW user \in Managers, NEW to \in Grantees, NEW r \in Access!Existing(roles),
             NEW scope \in Access!Scopes, Access!AssignRole(c, user, r, to, scope)
      PROVE RolesInv'
  BY <1>4, StepAssignRole
<1>5. ASSUME NEW c \in Requests, Access!SaveRole(c) \/ Access!DeleteRow(c) \/ Access!SaveAssignment(c) PROVE RolesInv'
  BY <1>5, StepSaveRole, StepDeleteRow, StepSaveAssignment
<1>6. ASSUME NEW user \in Managers, NEW a \in assignments, Access!Revoke(user, a) PROVE RolesInv'
  <2>1. roles' = roles /\ decision' = decision /\ raced' = raced /\ assignments' \subseteq assignments
    BY <1>6 DEF Access!Revoke
  <2> QED BY <2>1 DEF RolesInv, RolesTyped, Closed, SaveIsRooted
<1> QED BY <1>1, <1>2, <1>3, <1>4, <1>5, <1>6 DEF Access!Next

(* Roles are valid, and what SQL lets through the evaluator does.           *)
LEMMA RolesHold == ASSUME RoleConstants, RolesInv PROVE AccessDecided
<1>1. Access!HierarchyValid
  BY RootedIsValid DEF RolesInv, RolesTyped, Access!HierarchyValid
<1>2. Access!SqlIsNoWider
  <2> SUFFICES ASSUME \A r \in Access!Existing(roles) : Access!Resolve(roles, r).valid,
                      NEW user \in Managers \cup Grantees, NEW p \in Access!Permissions, NEW scope \in Access!Scopes,
                      Access!SqlAuthorized(user, p, scope)
               PROVE Access!Authorized(roles, assignments, user, p, scope)
    BY DEF Access!SqlIsNoWider
  <2>1. PICK a \in assignments : a.user = user /\ Access!Covers(a.scope, scope) /\ p \in Access!Own(roles, a.role)
    BY DEF Access!SqlAuthorized
  <2>2. a.role \in Access!Existing(roles) /\ a.role \in Access!Ids
    BY DEF RolesInv, Access!Existing, Access!Ids
  <2>3. Access!Own(roles, a.role) \subseteq Access!Resolve(roles, a.role).permissions
    <3>1. IsFiniteSet(Access!Ids) /\ {} \in SUBSET Access!Ids
      BY DEF RoleConstants
    <3>2. Access!Resolve(roles, a.role).valid
      BY <2>2
    <3>3. Access!Own(roles, a.role) \subseteq Access!Resolutions(roles)[{}][a.role].permissions
      BY <2>2, <3>1, OneRound
    <3> QED BY <3>3 DEF Access!Resolve
  <2> QED BY <2>1, <2>2, <2>3 DEF Access!Authorized
<1> QED BY <1>1, <1>2 DEF AccessDecided

(* Roles inherit from roles that are there, and not in a circle, while no   *)
(* two were saved across one another (create_custom_role,                   *)
(* update_custom_role, delete_custom_role and the foreign keys of roles).   *)
THEOREM RolesInvariant == ASSUME RoleConstants PROVE Access!Spec => []RolesInv
<1>1. Access!Init => RolesInv
  BY InitRoles
<1>2. RolesInv /\ [Access!Next]_Access!vars => RolesInv'
  BY StepRoles
<1> QED BY <1>1, <1>2, PTL DEF Access!Spec

(* For any roles, users and requests: the evaluator finds every role valid, *)
(* unless one was saved between the decision and the save of another; and   *)
(* whatever a request is let through for in SQL the evaluator allows        *)
(* (resolve_permissions, authorize, user_is_authorized).                    *)
THEOREM AccessIsDecided == ASSUME RoleConstants PROVE Access!Spec => []AccessDecided
<1>1. RolesInv => AccessDecided
  BY RolesHold
<1> QED BY <1>1, RolesInvariant, PTL
=============================================================================
