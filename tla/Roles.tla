------------------------------- MODULE Roles -------------------------------
(***************************************************************************)
(* Roles of one account: the evaluator (domain/rbac.rs), the management    *)
(* of custom roles and assignments (rbac_management.rs and its             *)
(* repository) and the decision in SQL that requests are let through by    *)
(* (management_repository.rs).  A request reads roles and assignments,     *)
(* decides, and writes in a call of its own.  The reads of one decision    *)
(* are one step.  The requests are of users who hold built-in roles short  *)
(* of what others in the account hold; expiry and instance roles are left  *)
(* out.                                                                    *)
(***************************************************************************)
EXTENDS Naturals

CONSTANTS
  Callers,   \* requests under way
  Users,     \* who sends requests
  Grantees,  \* who is given roles
  Custom,    \* ids of custom roles
  BuiltIn,   \* built-in roles -> their permissions
  Granted,   \* assignments that nobody revokes
  NoRole,
  MaxSaves   \* bound on writes

VARIABLES
  roles,       \* custom roles: id -> [permissions, parents], NoRole when there is none
  assignments, \* [user, role, scope]
  decision,    \* what each request is doing
  raced,       \* history: a role was saved from a decision made before another was saved
  saves        \* roles and assignments written

vars == <<roles, assignments, decision, raced, saves>>

Scopes == {"account", "system"}
Permissions == UNION {BuiltIn[b] : b \in DOMAIN BuiltIn}
Idle == [pc |-> "idle", role |-> NoRole, def |-> NoRole, user |-> NoRole, scope |-> "account", stale |-> FALSE]
Done(c) == decision' = [decision EXCEPT ![c] = Idle]

Existing(rs) == DOMAIN BuiltIn \cup {r \in Custom : rs[r] # NoRole}

Init ==
  /\ roles \in [Custom -> {NoRole, [permissions |-> {}, parents |-> {}]}] /\ assignments = Granted
  /\ decision = [c \in Callers |-> Idle] /\ raced = FALSE /\ saves = 0

----------------------------------------------------------------------------
\* The evaluator.

\* built_in_permissions for a template, the stored set for a custom role.
Own(rs, r) == IF r \in Custom THEN rs[r].permissions ELSE BuiltIn[r]
Parents(rs, r) == IF r \in Custom THEN rs[r].parents ELSE {}

Ids == Custom \cup DOMAIN BuiltIn
Broken == [valid |-> FALSE, permissions |-> {}]

\* resolve_permissions, by the roles that are being visited: not valid when a
\* role is met again or is not there.
Resolutions(rs) ==
  LET resolve[visiting \in SUBSET Ids] ==
        [r \in Ids |->
          IF r \in visiting \/ r \notin Existing(rs) THEN Broken
          ELSE LET above == {resolve[visiting \cup {r}][p] : p \in Parents(rs, r)}
               IN [valid |-> \A a \in above : a.valid,
                   permissions |-> Own(rs, r) \cup UNION {a.permissions : a \in above}]]
  IN resolve

Resolve(rs, r) == Resolutions(rs)[{}][r]

Covers(granted, requested) == granted = "account" \/ granted = requested

\* authorize: some assignment conveys the permission.
Authorized(rs, as, user, permission, scope) ==
  \E a \in as : LET effective == Resolve(rs, a.role) IN
    /\ a.user = user /\ Covers(a.scope, scope) /\ a.role \in Existing(rs)
    /\ effective.valid /\ permission \in effective.permissions

\* (mutant: a role that does not resolve is let pass)
MayDelegateBlindly(rs, as, user, role, scope) ==
  \A p \in Resolve(rs, role).permissions \cup {"manage"} : Authorized(rs, as, user, p, scope)

\* authorize_delegation: whoever grants a role has all it conveys.
MayDelegate(rs, as, user, role, scope) ==
  LET proposed == Resolve(rs, role) IN
  /\ proposed.valid
  /\ \A p \in proposed.permissions \cup {"manage"} : Authorized(rs, as, user, p, scope)

\* user_is_authorized: the permissions stored with the role itself.
SqlAuthorized(user, permission, scope) ==
  \E a \in assignments : a.user = user /\ Covers(a.scope, scope) /\ permission \in Own(roles, a.role)

----------------------------------------------------------------------------
\* create_custom_role and update_custom_role: decide on the candidate ..
Define(c, user, r, permissions, parents) ==
  LET candidate == [permissions |-> permissions, parents |-> parents]
      with == [roles EXCEPT ![r] = candidate]
  IN /\ decision[c].pc = "idle" /\ parents \subseteq Existing(roles)
     /\ MayDelegate(with, assignments, user, r, "account")
     /\ decision' = [decision EXCEPT ![c] = [Idle EXCEPT !.pc = "save", !.role = r, !.def = candidate]]
     /\ UNCHANGED <<roles, assignments, raced, saves>>

\* .. and save it: an upsert whose foreign keys need the parents; no version
\* is compared.
SaveRole(c) ==
  LET q == decision[c] IN
  /\ q.pc = "save" /\ saves < MaxSaves /\ saves' = saves + 1
  /\ IF q.def.parents \subseteq Existing(roles)
     THEN /\ roles' = [roles EXCEPT ![q.role] = q.def]
          /\ raced' = (raced \/ q.stale)
          /\ decision' = [d \in Callers |-> IF d = c THEN Idle ELSE [decision[d] EXCEPT !.stale = decision[d].pc = "save"]]
     ELSE Done(c) /\ UNCHANGED <<roles, raced>>
  /\ UNCHANGED assignments

\* delete_custom_role: assignments go with it, a parent stays.
DeleteRole(c, user, r) ==
  /\ decision[c].pc = "idle" /\ roles[r] # NoRole
  /\ Authorized(roles, assignments, user, "manage", "account")
  /\ decision' = [decision EXCEPT ![c] = [Idle EXCEPT !.pc = "delete", !.role = r]]
  /\ UNCHANGED <<roles, assignments, raced, saves>>

DeleteRow(c) ==
  /\ decision[c].pc = "delete"
  /\ IF \E s \in Existing(roles) : decision[c].role \in Parents(roles, s)
     THEN UNCHANGED <<roles, assignments>>
     ELSE /\ roles' = [roles EXCEPT ![decision[c].role] = NoRole]
          /\ assignments' = {a \in assignments : a.role # decision[c].role}
  /\ Done(c) /\ UNCHANGED <<raced, saves>>

\* assign_role decides, then saves: an upsert that needs the role.
AssignRole(c, user, r, to, scope) ==
  /\ decision[c].pc = "idle" /\ r \in Existing(roles)
  /\ MayDelegate(roles, assignments, user, r, scope)
  /\ decision' = [decision EXCEPT ![c] = [Idle EXCEPT !.pc = "assign", !.role = r, !.user = to, !.scope = scope]]
  /\ UNCHANGED <<roles, assignments, raced, saves>>

SaveAssignment(c) ==
  LET q == decision[c] IN
  /\ q.pc = "assign" /\ saves < MaxSaves /\ saves' = saves + 1
  /\ assignments' = IF q.role \in Existing(roles)
                    THEN assignments \cup {[user |-> q.user, role |-> q.role, scope |-> q.scope]} ELSE assignments
  /\ Done(c) /\ UNCHANGED <<roles, raced>>

\* revoke_assignment: one statement after the decision, which it does not need.
Revoke(user, a) ==
  /\ a \in assignments \ Granted
  /\ Authorized(roles, assignments, user, "manage", a.scope)
  /\ assignments' = assignments \ {a}
  /\ UNCHANGED <<roles, decision, raced, saves>>

Next ==
  \/ \E c \in Callers :
       \/ \E user \in Users, r \in Custom :
            \/ \E permissions \in SUBSET Permissions, parents \in SUBSET (Existing(roles) \ {r}) :
                 Define(c, user, r, permissions, parents)
            \/ DeleteRole(c, user, r)
       \/ \E user \in Users, to \in Grantees, r \in Existing(roles), scope \in Scopes : AssignRole(c, user, r, to, scope)
       \/ SaveRole(c) \/ DeleteRow(c) \/ SaveAssignment(c)
  \/ \E user \in Users, a \in assignments : Revoke(user, a)

Spec == Init /\ [][Next]_vars

----------------------------------------------------------------------------
\* Inheritance stays free of cycles, so that no role becomes worthless, unless
\* a role was saved between another's decision and its save.
HierarchyValid == raced \/ \A r \in Existing(roles) : Resolve(roles, r).valid

\* What a request is let through for in SQL the evaluator allows too, as long
\* as the roles resolve.
SqlIsNoWider ==
  (\A r \in Existing(roles) : Resolve(roles, r).valid) =>
    \A user \in Users \cup Grantees, p \in Permissions, scope \in Scopes :
      SqlAuthorized(user, p, scope) => Authorized(roles, assignments, user, p, scope)
=============================================================================
