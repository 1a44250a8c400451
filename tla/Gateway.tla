------------------------------- MODULE Gateway -------------------------------
(* A request on its way through the HTTP interface: api/authentication.rs   *)
(* (who calls, and the ingestion quota), the checks of the handlers         *)
(* (Routes), application/authorization_boundary.rs with its adapter in      *)
(* pvlog/authentication.rs (may they, where, and the audit record), and     *)
(* last the handler's call of its service, here the field "acted".  Each    *)
(* step reads the management store once: grants, sessions, keys, systems    *)
(* and accounts change between two steps.                                   *)
(*                                                                          *)
(* Requests share nothing here but the ingestion quota, so one is followed  *)
(* on its way.  Abstracted: tokens and digests (a credential is the user or *)
(* key it proves), bodies (a request is complete or not), response bodies,  *)
(* what others have used of the quota, and how a permission follows from    *)
(* roles (module Roles).                                                    *)
EXTENDS Naturals, Routes

CONSTANTS
  Home,         \* the account of each system that may be registered
  Own,          \* the account of the user
  KeyOf,        \* the API keys: account, system ("" for every one), scopes
  Profiles,     \* what the user may hold: sets of <<account, system, permission>>
  MaxChanges

VARIABLES
  grants,       \* what the user holds; account and system are "" where it spans all
  live,         \* the session and keys that are neither revoked nor expired
  registered,   \* the systems in the registry
  ready,        \* the accounts whose routing record is active or ready
  request,
  seen,         \* what held at some moment since the request came in
  changes

store == <<grants, live, registered, ready>>
vars == <<store, request, seen, changes>>

Keys == DOMAIN KeyOf
SystemIds == DOMAIN Home
Accounts == {Home[s] : s \in SystemIds}
Credentials == {"none", "malformed", "cookie", "cookie and csrf"} \cup Keys
Idle == [at |-> "idle"]

Init ==
  /\ grants \in Profiles
  /\ live = {"session"} \cup Keys
  /\ registered = SystemIds
  /\ ready = Accounts
  /\ request = Idle
  /\ seen = {}
  /\ changes = 0

(* The user's permission, as rbac_repository answers it.                    *)
Permitted(account, system, permission) ==
  \E g \in grants : g[1] \in {"", account} /\ g[2] \in {"", system} /\ g[3] = permission
PermittedOnInstance(permission) == <<"", "", permission>> \in grants

(* The scope an API key needs to use its owner's permission.                *)
ScopeOf == [system_read |-> "systems_read", system_manage |-> "systems_write",
            telemetry_read |-> "telemetry_read", telemetry_write |-> "telemetry_write",
            integration_manage |-> "integrations_manage"]
permission_api_scope(permission) ==
  IF permission \in DOMAIN ScopeOf THEN {ScopeOf[permission]} ELSE {}

(* The request goes on, or is answered.                                     *)
On(at) == request' = [request EXCEPT !.at = at]
Answer(status) == request' = [request EXCEPT !.at = "answered", !.status = status]

IsKey(q) == q.principal \in Keys

(* A request arrives at a route.                                            *)
Arrive ==
  /\ request = Idle
  /\ \E guard \in Guards, credential \in Credentials, system \in SystemIds, complete \in BOOLEAN :
     \E account \in CASE guard.level = "path" -> Accounts
                      [] guard.level \in {"account", "system"} -> {Home[system]}
                      [] OTHER -> {""} :
       request' = [at |-> "credential", guard |-> guard, credential |-> credential, account |-> account,
                   system |-> IF guard.level \in {"system", "path"} THEN system ELSE "",
                   complete |-> complete \/ guard.checks = {},
                   principal |-> "none", audited |-> "none", acted |-> FALSE, status |-> "none"]
  /\ UNCHANGED <<store, changes>>

(* authenticate_bearer and authenticate_session: the credential is looked   *)
(* up among the live ones; a session changes state only with its token.     *)
AuthenticateBearer(q) == IF q.credential \in live THEN q.credential ELSE "invalid"
AuthenticateSession(q) ==
  IF "session" \in live /\ (q.guard.changes => q.credential = "cookie and csrf") THEN "user" ELSE "invalid"

Principal(q) ==
  CASE q.credential = "none" -> "none"
    [] q.credential = "malformed" -> "invalid"
    [] q.credential \in Keys -> AuthenticateBearer(q)
    [] OTHER -> AuthenticateSession(q)

(* Ingestion requests of a principal are counted; above the quota of the    *)
(* minute they are refused.                                                 *)
Admit(principal) ==
  \/ request' = [request EXCEPT !.at = "handler", !.principal = principal]
  \/ Answer("429")

(* authenticate: a credential that proves nobody is refused, save a stale   *)
(* cookie on the routes that sign in; none at all is passed on.             *)
Authenticate ==
  /\ request.at = "credential"
  /\ LET principal == Principal(request) IN
     IF principal = "invalid"
     THEN IF request.guard.entry /\ request.credential \in {"cookie", "cookie and csrf"}
          THEN On("handler") ELSE Answer("401")
     ELSE IF principal # "none" /\ request.guard \in IngestionGuards
          THEN Admit(principal)
          ELSE request' = [request EXCEPT !.at = "handler", !.principal = principal]
  /\ UNCHANGED <<store, changes>>

(* What the handler asks before it asks the authorizer.                     *)
Welcome(q) ==
  /\ q.guard.who # "anyone" => q.principal # "none"
  /\ q.guard.who = "user" => q.principal = "user"
  /\ IsKey(q) /\ q.guard.scopes # {} => KeyOf[q.principal].scopes \cap q.guard.scopes # {}
  /\ IsKey(q) /\ q.guard.pinned => KeyOf[q.principal].system \in {"", q.system}

Handle ==
  /\ request.at = "handler"
  /\ LET q == request IN
     IF ~q.complete /\ "before" \in q.guard.checks THEN Answer("422")
     ELSE IF ~Welcome(q) THEN Answer("403")
     ELSE CASE q.guard.level = "none" -> On("service")
            [] q.guard.level = "instance" -> IF IsKey(q) THEN Answer("403") ELSE On("instance")
            [] q.guard.level = "own" ->
                 request' = [q EXCEPT !.at = "decision",
                                      !.account = IF IsKey(q) THEN KeyOf[q.principal].account ELSE Own]
            [] q.guard.level = "account" -> On("decision")
            [] OTHER -> On("owner")
  /\ UNCHANGED <<store, changes>>

(* authorize_instance: the user's instance permission, and the audit record *)
(* of the answer.                                                           *)
AuthorizeInstance ==
  /\ request.at = "instance"
  /\ \/ request' = [request EXCEPT !.at = IF PermittedOnInstance(request.guard.permission)
                                          THEN "record" ELSE "denial"]
     \/ Answer("503")
  /\ UNCHANGED <<store, changes>>

(* system_account: whose system it is.  A forecasting path names an account *)
(* too; that they agree is asked at the end.                                *)
ResolveOwner ==
  /\ request.at = "owner"
  /\ \/ IF request.system \in registered
        THEN On("decision")
        ELSE Answer(IF request.guard.hidden THEN "403" ELSE "404")
     \/ Answer("503")
  /\ UNCHANGED <<store, changes>>

(* The account the authorizer decides about.                                *)
Decided(q) == IF q.guard.level \in {"system", "path"} THEN Home[q.system] ELSE q.account

(* is_authorized of a key: its own limits first, then its owner's grants.   *)
KeyAllows(q) ==
  LET key == KeyOf[q.principal] IN
    /\ key.account = Decided(q)
    /\ permission_api_scope(q.guard.permission) \cap key.scopes # {}
    /\ key.system = "" \/ key.system = q.system
    /\ q.principal \in live
CheckKey ==
  /\ request.at = "decision" /\ IsKey(request)
  /\ \/ On(IF KeyAllows(request) THEN "grants" ELSE "denial")
     \/ Answer("503")
  /\ UNCHANGED <<store, changes>>

(* is_authorized of a user, or of a key's owner.                            *)
CheckGrants ==
  /\ request.at = "grants" \/ (request.at = "decision" /\ ~IsKey(request))
  /\ \/ On(IF Permitted(Decided(request), request.system, request.guard.permission)
           THEN "route" ELSE "denial")
     \/ Answer("503")
  /\ UNCHANGED <<store, changes>>

(* account_route: only an account that is ready has one.                    *)
ResolveRoute ==
  /\ request.at = "route"
  /\ \/ Decided(request) \in ready /\ On("record")
     \/ Answer("503")
  /\ UNCHANGED <<store, changes>>

(* append_audit: a denial is recorded, and then answered; what is allowed   *)
(* goes on once it is recorded.                                             *)
Audit ==
  /\ request.at \in {"denial", "record"}
  /\ \/ /\ request.at = "denial"
        /\ request' = [request EXCEPT !.audited = "denied", !.at = "answered", !.status = "403"]
     \/ /\ request.at = "record"
        /\ request' = [request EXCEPT !.audited = "succeeded", !.at = IF IsKey(request) THEN "actor" ELSE "authorized"]
     \/ Answer("503")
  /\ UNCHANGED <<store, changes>>

(* actor: the owner of a key is read again.                                 *)
ResolveActor ==
  /\ request.at = "actor"
  /\ \/ KeyOf[request.principal].account = Decided(request) /\ On("authorized")
     \/ Answer("503")
  /\ UNCHANGED <<store, changes>>

(* Mutant: the account of a forecasting path is believed.                   *)
PathIgnored(q) == TRUE
(* The account of a forecasting path is the one that was authorised.        *)
PathAgrees(q) == q.guard.level = "path" => q.account = Decided(q)
Authorized ==
  /\ request.at = "authorized"
  /\ IF PathAgrees(request) THEN On("service") ELSE Answer("403")
  /\ UNCHANGED <<store, changes>>

(* The handler calls its service.                                           *)
Serve ==
  /\ request.at = "service"
  /\ IF ~request.complete /\ "after" \in request.guard.checks
     THEN Answer("422")
     ELSE request' = [request EXCEPT !.at = "answered", !.acted = TRUE, !.status = "200"]
  /\ UNCHANGED <<store, changes>>

(* Meanwhile: grants change, credentials end, systems go, accounts are      *)
(* suspended and resumed.                                                   *)
Change ==
  /\ changes < MaxChanges
  /\ changes' = changes + 1
  /\ \/ grants' \in Profiles \ {grants} /\ UNCHANGED <<live, registered, ready>>
     \/ \E c \in live : live' = live \ {c} /\ UNCHANGED <<grants, registered, ready>>
     \/ \E s \in registered : registered' = registered \ {s} /\ UNCHANGED <<grants, live, ready>>
     \/ \E a \in Accounts :
          /\ ready' = IF a \in ready THEN ready \ {a} ELSE ready \cup {a}
          /\ UNCHANGED <<grants, live, registered>>
  /\ UNCHANGED request

(* What holds now of what a request needs.                                  *)
Facts(q) ==
  IF q.at \in {"idle", "answered"} THEN {}
  ELSE UNION { IF (IF IsKey(q) THEN q.principal ELSE "session") \in live THEN {"live"} ELSE {},
               IF q.guard.level = "instance" /\ PermittedOnInstance(q.guard.permission) THEN {"granted"} ELSE {},
               IF q.guard.level \notin {"none", "instance"} /\ Permitted(q.account, q.system, q.guard.permission)
               THEN {"granted"} ELSE {},
               IF q.system \in registered THEN {"registered"} ELSE {},
               IF q.account \in ready THEN {"ready"} ELSE {} }

Step ==
  \/ Arrive \/ Authenticate \/ Handle \/ AuthorizeInstance \/ ResolveOwner \/ CheckKey \/ CheckGrants
  \/ ResolveRoute \/ Audit \/ ResolveActor \/ Authorized \/ Serve \/ Change
Next == Step /\ seen' = seen \cup Facts(request)'

Spec == Init /\ [][Next]_vars
-----------------------------------------------------------------------------
(* A handler acts only on what the caller proved and was granted, each at   *)
(* some moment while the request ran: a credential that was live, and with  *)
(* a cookie the token of its session if state changes; the permission the   *)
(* route asks, on the very account and system it acts on; a key within its  *)
(* account, its system and its scopes.  And whatever needed a permission    *)
(* was recorded first.                                                      *)
EffectsAreEarned ==
  LET q == request IN
  q.at = "answered" /\ q.acted /\ q.guard.who # "anyone" =>
    /\ "live" \in seen
    /\ q.principal = "user" /\ q.guard.changes => q.credential = "cookie and csrf"
    /\ q.guard.permission # "none" => "granted" \in seen /\ q.audited = "succeeded"
    /\ q.guard.level \notin {"none", "instance"} => "ready" \in seen
    /\ q.guard.level \in {"system", "path"} => "registered" \in seen /\ q.account = Home[q.system]
    /\ IsKey(q) /\ q.guard.permission # "none" =>
         LET key == KeyOf[q.principal] IN
           /\ q.account = key.account
           /\ key.system \in {"", q.system}
           /\ permission_api_scope(q.guard.permission) \cap key.scopes # {}
=============================================================================
