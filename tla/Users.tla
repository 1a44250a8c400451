------------------------------- MODULE Users --------------------------------
(* The users of an instance (application::user_lifecycle and its            *)
(* repository): created by administrators, registered by themselves or      *)
(* invited; activated, disabled and deleted.  An administrator's request is *)
(* authorized first and carried out later.  Display names, the recovery of  *)
(* passwords and sessions are in SignIn or left out; an address is unique   *)
(* among users, and a deletion replaces it.                                 *)
EXTENDS Naturals, FiniteSets, Sequences

CONSTANTS Requests,       \* requests that are handled at the same time
          Administrators, \* the addresses of the users who may manage users
          Emails,         \* the addresses of others
          MaxUsers,       \* users there ever are
          MaxInvitations  \* invitations there ever are

VARIABLES
  policy,      \* LocalUserPolicy: whether users "register", and addresses are to be "verified"
  users,       \* the rows so far: [email, status, has], has among "verified" and "password"
  invitations, \* [email, state], state one of "open", "accepted" and "expired"
  request,     \* what each request is at: [pc, actor]
  barred,      \* users disabled and not activated since
  used,        \* how often each invitation set a password
  late         \* administrators who ended a user after being ended

vars == <<policy, users, invitations, request, barred, used, late>>

Ids == DOMAIN users
Idle == [pc |-> "idle", actor |-> 0]
Done(r) == request' = [request EXCEPT ![r] = Idle]
Authorized(r) == request[r].pc = "authorized"
Active(u) == users[u].status = "active"
WithEmail(e) == {u \in Ids : users[u].email = e}
Row(e, status, has) == [email |-> e, status |-> status, has |-> has]
Both == {"verified", "password"}
Addresses == Emails \cup {Administrators[n] : n \in DOMAIN Administrators}

TypeOK ==
  /\ policy \in SUBSET {"register", "verified"}
  /\ users \in Seq([email : Addresses \cup {""}, status : {"invited", "active", "disabled", "deleted"}, has : SUBSET Both])
  /\ invitations \in Seq([email : Addresses, state : {"open", "accepted", "expired"}])
  /\ used \in [DOMAIN invitations -> Nat]
  /\ request \in [Requests -> {Idle} \cup [pc : {"authorized"}, actor : DOMAIN Administrators]]
  /\ barred \subseteq Ids /\ late \subseteq DOMAIN Administrators

Init ==
  /\ policy \in SUBSET {"register", "verified"}
  /\ users = [n \in DOMAIN Administrators |-> Row(Administrators[n], "active", Both)]
  /\ invitations = <<>> /\ used = <<>>
  /\ request = [r \in Requests |-> Idle]
  /\ barred = {} /\ late = {}

-----------------------------------------------------------------------------
(* What the repository does, in one statement or transaction each.          *)

(* create_user: a row is inserted unless the address is taken.              *)
InsertUser(e, status, has) ==
  IF WithEmail(e) # {} THEN UNCHANGED users
  ELSE Len(users) < MaxUsers /\ users' = Append(users, Row(e, status, has))

(* accept_invitation: whoever has the address gets the password; only an    *)
(* invited user becomes active.                                             *)
AcceptReviving(i) ==
  /\ invitations[i].state = "open"
  /\ LET e == invitations[i].email
     IN IF WithEmail(e) = {}
        THEN Len(users) < MaxUsers /\ users' = Append(users, Row(e, "active", Both))
        ELSE users' = [u \in Ids |-> IF users[u].email = e THEN Row(e, "active", Both) ELSE users[u]]
  /\ invitations' = [invitations EXCEPT ![i].state = "accepted"]
  /\ used' = [used EXCEPT ![i] = @ + 1]
  /\ UNCHANGED <<policy, request, barred, late>>

AcceptInvitation(i) ==
  /\ invitations[i].state = "open"
  /\ LET e == invitations[i].email
         accepted(u) == IF u.status = "invited" THEN Row(e, "active", Both) ELSE Row(e, u.status, u.has \cup {"password"})
     IN IF WithEmail(e) = {}
        THEN Len(users) < MaxUsers /\ users' = Append(users, Row(e, "active", Both))
        ELSE users' = [u \in Ids |-> IF users[u].email = e THEN accepted(users[u]) ELSE users[u]]
  /\ invitations' = [invitations EXCEPT ![i].state = "accepted"]
  /\ used' = [used EXCEPT ![i] = @ + 1]
  /\ UNCHANGED <<policy, request, barred, late>>

ActivateUser(u, checked) ==
  /\ users[u].status # "deleted"
  /\ users' = [users EXCEPT ![u] = Row(@.email, "active", @.has \cup checked)]
  /\ barred' = barred \ {u}

DisableUser(u) ==
  /\ users[u].status \notin {"disabled", "deleted"}
  /\ users' = [users EXCEPT ![u] = Row(@.email, "disabled", @.has)]
  /\ barred' = barred \cup {u}

DeleteUser(u) ==
  /\ users[u].status # "deleted"
  /\ users' = [users EXCEPT ![u] = Row("", "deleted", {})]
  /\ UNCHANGED barred

-----------------------------------------------------------------------------
(* The use cases.                                                           *)

Register ==
  /\ "register" \in policy
  /\ \E e \in Emails : InsertUser(e, IF "verified" \in policy THEN "invited" ELSE "active", {})
  /\ UNCHANGED <<policy, invitations, request, barred, used, late>>

(* An administrator is let through as long as they are active.              *)
Authorize(r) ==
  /\ request[r] = Idle
  /\ \E a \in DOMAIN Administrators :
       Active(a) /\ request' = [request EXCEPT ![r] = [pc |-> "authorized", actor |-> a]]
  /\ UNCHANGED <<policy, users, invitations, barred, used, late>>

(* What an administrator may say of an address.                             *)
Checks == IF "verified" \in policy THEN {{"verified"}} ELSE SUBSET {"verified"}

CreateUser(r) ==
  /\ Authorized(r) /\ Done(r)
  /\ \E e \in Emails, checked \in Checks : InsertUser(e, "active", checked)
  /\ UNCHANGED <<policy, invitations, barred, used, late>>

InviteUser(r) ==
  /\ Authorized(r) /\ Done(r)
  /\ Len(invitations) < MaxInvitations
  /\ \E e \in Addresses : invitations' = Append(invitations, [email |-> e, state |-> "open"])
  /\ used' = Append(used, 0)
  /\ UNCHANGED <<policy, users, barred, late>>

(* The link is valid for a while.                                           *)
Expire(i) ==
  /\ invitations[i].state = "open"
  /\ invitations' = [invitations EXCEPT ![i].state = "expired"]
  /\ UNCHANGED <<policy, users, request, barred, used, late>>

Activate(r) ==
  /\ Authorized(r) /\ Done(r)
  /\ \E u \in Ids, checked \in Checks : ActivateUser(u, checked)
  /\ UNCHANGED <<policy, invitations, used, late>>

(* Nobody disables or deletes themselves; that the caller is still an       *)
(* active user is not asked again.                                          *)
End(r) ==
  /\ Authorized(r) /\ Done(r)
  /\ \E u \in Ids \ {request[r].actor} : DisableUser(u) \/ DeleteUser(u)
  /\ late' = IF Active(request[r].actor) THEN late ELSE late \cup {request[r].actor}
  /\ UNCHANGED <<policy, invitations, used>>

(* Whatever is refused, or fails, changes nothing.                          *)
Refuse(r) == Authorized(r) /\ Done(r) /\ UNCHANGED <<policy, users, invitations, barred, used, late>>

Next ==
  \/ Register
  \/ \E i \in DOMAIN invitations : AcceptInvitation(i) \/ Expire(i)
  \/ \E r \in Requests :
       Authorize(r) \/ CreateUser(r) \/ InviteUser(r) \/ Activate(r) \/ End(r) \/ Refuse(r)

Spec == Init /\ [][Next]_vars

-----------------------------------------------------------------------------
(* Where addresses have to be verified, no user is active whose address is  *)
(* not, however they came to be: created, registered, invited or activated. *)
VerifiedWhenRequired == "verified" \in policy => \A u \in Ids : Active(u) => "verified" \in users[u].has

(* A disabled user is let in again by an administrator only, not by an      *)
(* invitation that was still open (accept_invitation).                      *)
BarredStayOut == \A u \in barred : ~Active(u)

(* What is left of a deleted user signs nobody in.                          *)
DeletedHaveNothing == \A u \in Ids : users[u].status = "deleted" => users[u].has = {}

(* An invitation sets one password; addresses stay unique.                  *)
InvitationsOnce ==
  /\ \A i \in DOMAIN invitations : used[i] = IF invitations[i].state = "accepted" THEN 1 ELSE 0
  /\ \A e \in Addresses : Cardinality(WithEmail(e)) <= 1

(* Some administrator stays active, unless one whose own end was carried    *)
(* out in between ends another (UserLifecycleService::disable, delete).     *)
AdministratorStays == late # {} \/ \E a \in DOMAIN Administrators : Active(a)

(* All of it.                                                               *)
UsersStand == VerifiedWhenRequired /\ BarredStayOut /\ DeletedHaveNothing /\ InvitationsOnce /\ AdministratorStays
=============================================================================
