---------------------------- MODULE FirstSession ----------------------------
(* The first session of a user (GET /session and the login in               *)
(* pvlog/authentication.rs): a user without an account gets one, which has  *)
(* their own identifier, with a membership, the database, the built-in      *)
(* roles and the owner's role; and what grants in that account are worth.   *)
(*                                                                          *)
(* Each step is one call of a repository.  Sessions of the same user open   *)
(* at once, fail and die at any step.  The database itself is the matter of *)
(* module AccountProvisioning, of which two steps are left here; what the   *)
(* roles permit is that of module Roles.                                    *)
EXTENDS Naturals, Functions

CONSTANTS
  Calls,       \* sessions the user opens at once
  Kinds,       \* the built-in roles in the order they are saved; the owner's is the first
  Person, Guests,
  MaxFaults

VARIABLES
  engine,      \* "sqlite" or "postgres"
  status,      \* accounts.status
  registry,    \* the lifecycle of its database; with PostgreSQL there is none
  leasedBy,    \* the call that provisions it, or "nobody"
  members,     \* users with an active membership of the account
  roles,       \* the kinds of the account's roles
  assigned,    \* <<user, kind>>: active assignments in the account
  call,
  faults

vars == <<engine, status, registry, leasedBy, members, roles, assigned, call, faults>>
access == <<members, roles, assigned>>
account == <<engine, status, registry, leasedBy>>

Owner == Kinds[1]
Idle == [pc |-> "idle", missing |-> {}, again |-> FALSE]

Init ==
  /\ engine \in {"sqlite", "postgres"}
  /\ status = "none" /\ registry = "none" /\ leasedBy = "nobody"
  /\ members = {} /\ roles = {} /\ assigned = {}
  /\ call = [c \in Calls |-> Idle]
  /\ faults = 0

At(c, pc) == call[c].pc = pc
Goto(c, pc) == call' = [call EXCEPT ![c].pc = pc]

(* active_accounts_for_user                                                 *)
ActiveAccount(user) == user \in members /\ status = "active"

(* bootstrap: with an account, ensure_personal_owner comes at once.         *)
Begin(c) ==
  /\ call[c].pc \in {"idle", "answered"}
  /\ call' = [call EXCEPT ![c] = IF ActiveAccount(Person) THEN [Idle EXCEPT !.pc = "roles", !.again = TRUE]
                                 ELSE [Idle EXCEPT !.pc = "account"]]
  /\ UNCHANGED <<account, access, faults>>

(* provision_personal_account                                               *)
SaveAccount(c) ==
  /\ At(c, "account")
  /\ status' = IF engine = "sqlite" THEN "provisioning" ELSE "active"
  /\ Goto(c, "membership")
  /\ UNCHANGED <<engine, registry, leasedBy, access, faults>>

SaveMembership(c) ==
  /\ At(c, "membership")
  /\ members' = members \cup {Person}
  /\ Goto(c, IF engine = "sqlite" THEN "provision" ELSE "roles")
  /\ UNCHANGED <<account, roles, assigned, faults>>

(* provision: an account that is active already is left as it is; one that  *)
(* is not is taken by one call at a time.                                   *)
Reserve(c) ==
  /\ At(c, "provision")
  /\ registry' = IF registry = "none" THEN "reserved" ELSE registry
  /\ \/ registry' = "active" /\ Goto(c, "roles") /\ UNCHANGED <<status, leasedBy>>
     \/ registry' = "unavailable" /\ Goto(c, "unsafe") /\ UNCHANGED <<status, leasedBy>>
     \/ registry' = "reserved" /\ leasedBy = "nobody" /\ leasedBy' = c /\ status' = "provisioning" /\ Goto(c, "activate")
     \/ registry' = "reserved" /\ leasedBy # "nobody" /\ status' = "provisioning" /\ Goto(c, "idle") /\ UNCHANGED leasedBy
  /\ UNCHANGED <<engine, access, faults>>

Activate(c) ==
  /\ At(c, "activate")
  /\ registry' = "active" /\ status' = "active" /\ leasedBy' = "nobody"
  /\ Goto(c, "roles")
  /\ UNCHANGED <<engine, access, faults>>

MarkUnavailable(c) ==
  /\ At(c, "unsafe")
  /\ registry' = "unavailable" /\ status' = "suspended" /\ leasedBy' = "nobody"
  /\ Goto(c, "idle")
  /\ UNCHANGED <<engine, access, faults>>

(* ensure_personal_owner: the built-in roles that are missing, one by one.  *)
(* Each gets a new identifier; the account has only one of a name.  What is *)
(* missing is kept by its place among the built-in ones.                    *)
ReadRoles(c) ==
  /\ At(c, "roles")
  /\ call' = [call EXCEPT ![c].missing = {n \in DOMAIN Kinds : Kinds[n] \notin roles}, ![c].pc = "save"]
  /\ UNCHANGED <<account, access, faults>>

NextMissing(missing) == CHOOSE n \in missing : \A m \in missing : n <= m

(* Mutant: a role saved by another session meanwhile ends it well.          *)
SaveRoleOrLeaveIt(c) ==
  LET n == NextMissing(call[c].missing)
  IN /\ At(c, "save") /\ call[c].missing # {}
     /\ IF Kinds[n] \in roles
        THEN Goto(c, "owned") /\ UNCHANGED roles
        ELSE roles' = roles \cup {Kinds[n]} /\ call' = [call EXCEPT ![c].missing = @ \ {n}]
     /\ UNCHANGED <<account, members, assigned, faults>>
SaveRole(c) ==
  LET n == NextMissing(call[c].missing)
  IN /\ At(c, "save") /\ call[c].missing # {}
     /\ IF Kinds[n] \in roles
        THEN Goto(c, "idle") /\ UNCHANGED roles
        ELSE roles' = roles \cup {Kinds[n]} /\ call' = [call EXCEPT ![c].missing = @ \ {n}]
     /\ UNCHANGED <<account, members, assigned, faults>>

(* active_assignments, which looks at the membership too.                   *)
OwnerIsSeated == Person \in members /\ <<Person, Owner>> \in assigned

ReadAssignments(c) ==
  /\ At(c, "save") /\ call[c].missing = {}
  /\ Goto(c, IF OwnerIsSeated THEN "owned" ELSE "assign")
  /\ UNCHANGED <<account, access, faults>>

SaveAssignment(c) ==
  /\ At(c, "assign")
  /\ assigned' = assigned \cup {<<Person, Owner>>}
  /\ Goto(c, "owned")
  /\ UNCHANGED <<account, members, roles, faults>>

(* bootstrap reads the account and ensures its owner once more; then the    *)
(* systems and the permissions.                                             *)
Answer(c) ==
  /\ At(c, "owned")
  /\ call' = [call EXCEPT ![c] = IF @.again THEN [Idle EXCEPT !.pc = "answered"]
                                 ELSE [Idle EXCEPT !.pc = "roles", !.again = TRUE]]
  /\ UNCHANGED <<account, access, faults>>

(* user_is_authorized, of a permission that every role of the model has.    *)
UserIsAuthorized(user) ==
  \E kind \in roles : <<user, kind>> \in assigned /\ user \in members /\ status = "active"

(* assign_role, by the owner, of a role that exists.                        *)
Grant(guest) ==
  /\ UserIsAuthorized(Person)
  /\ \E kind \in roles \ {Owner} : assigned' = assigned \cup {<<guest, kind>>}
  /\ UNCHANGED <<account, members, roles, call, faults>>

(* A call fails, also inside provision, or the process dies.                *)
Fail(c) ==
  /\ call[c].pc \notin {"idle", "answered", "unsafe"}
  /\ faults < MaxFaults /\ faults' = faults + 1
  /\ Goto(c, IF call[c].pc \in {"provision", "activate"} THEN "unsafe" ELSE "idle")
  /\ UNCHANGED <<account, access>>
Die(c) ==
  /\ call[c].pc \notin {"idle", "answered"}
  /\ faults < MaxFaults /\ faults' = faults + 1
  /\ Goto(c, "idle")
  /\ UNCHANGED <<account, access>>
LeaseLapses ==
  /\ leasedBy # "nobody"
  /\ leasedBy' = "nobody"
  /\ UNCHANGED <<engine, status, registry, access, call, faults>>

Next ==
  \/ \E c \in Calls :
       \/ Begin(c) \/ SaveAccount(c) \/ SaveMembership(c) \/ Reserve(c) \/ Activate(c) \/ MarkUnavailable(c)
       \/ ReadRoles(c) \/ SaveRole(c) \/ ReadAssignments(c) \/ SaveAssignment(c) \/ Answer(c)
       \/ Fail(c) \/ Die(c)
  \/ \E guest \in Guests : Grant(guest)
  \/ LeaseLapses

Spec == Init /\ [][Next]_vars
-----------------------------------------------------------------------------
(* Whoever is answered owns their account, whatever failed or died before   *)
(* and whichever session did what: the membership, every built-in role, the *)
(* owner's assignment and a database that was activated are there.          *)
AnsweredIsSeated ==
  \A c \in Calls : At(c, "answered") =>
    /\ Person \in members /\ Range(Kinds) \subseteq roles /\ <<Person, Owner>> \in assigned
    /\ engine = "sqlite" => registry \notin {"none", "reserved"}

(* "WHEN an owner grants another user a restricted role for a system THEN   *)
(* the additional user accesses that system with the delegated              *)
(* permissions": while the owner is let in, so is whoever they granted a    *)
(* role.                                                                    *)
GrantsAreWorthIt ==
  UserIsAuthorized(Person) => \A guest \in Guests, kind \in roles : <<guest, kind>> \in assigned => UserIsAuthorized(guest)
=============================================================================
