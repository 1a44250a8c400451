------------------------------ MODULE Services ------------------------------
(* What requests do: their way through the gateway, the first session,      *)
(* sign-in, users, identities, roles, API keys, systems and their           *)
(* equipment, account databases and their pools, ingestion and its          *)
(* idempotency records, and alert evaluation, with the constants and the    *)
(* state of each side by side.  No two of them share a variable.            *)
EXTENDS Integers, Sequences, FiniteSets

CONSTANTS
  Requests,                                            \* requests, calls and workers under way
  SessionLimit, MaxAttempts, MaxSessions, MaxChanges,  \* SignIn
  Subjects, Withheld, MaxPeople,                       \* Identities
  MaxKeys, MaxKeyFailures,                             \* ApiTokens
  Systems, MaxVersion, MaxFaults,                      \* SystemLifecycle
  Routers, RoutedAccounts, MaxPools, MaxConnections, IdleTimeout, LastInstant, MaxPoolsMade, \* PoolRouter
  Debounce, Cooldown, LastDay, MaxEvents,              \* Alerts
  Batches, NoKey, MaximumConcurrent, MaximumItems, MaxArchived, \* Ingestion
  Hashes, RecordLifetime, LastNow,                     \* IdempotencyRecords
  Home, OwnAccount, KeyOf, Profiles, MaxStoreChanges,  \* Gateway
  Kinds, Person, Guests, MaxMishaps,                   \* FirstSession
  Procs, NoProc, Deprovisions, SlowOwners, MaxCrashes, MaxErrors, \* AccountProvisioning
  Inverters, EditInputs, Periods, Forever, LastDate, MaxSaves, \* Equipment
  Administrators, Emails, MaxUsers, MaxInvitations,    \* Users
  Managers, Grantees, CustomRoles, BuiltInRoles, GrantedRoles, NoRole, MaxRoleSaves \* Roles

VARIABLES
  stale, status, cred, recovery, sessions, clock, call, chosen, changes, recoveries, untrimmed,
  owner, users, emails, local, task, orphans, overlapped,
  keys, usable, step, answered, leftover, failures,
  row, lifecycle, registry, owned, request, outcome, lost, faults,
  instant, routable, pools, made, holder, refused,
  today, state, evaluation, opened, resolved, clearAt, overtaken,
  engine, hot, archived, invalidated, active, upload,
  backend, now, record, caller, reply,
  grants, live, registered, ready, asked, seen, disturbed,
  kind, standing, database, leasedBy, members, builtIn, assigned, first, mishaps,
  accountStatus, accountLifecycle, lease, final, temp, quarantine, dbLease, proc, crashes, errors,
  profile, date, rows, strings, settings, edits, saved, deleted, overwritten, crossed,
  policy, people, invitations, tasks, barred, used, late,
  roles, assignments, decision, raced, saves

User == INSTANCE SignIn WITH Callers <- Requests, Limit <- SessionLimit
Links == INSTANCE Identities WITH Callers <- Requests, MaxUsers <- MaxPeople
Keys == INSTANCE ApiTokens WITH Callers <- Requests, MaxFailures <- MaxKeyFailures
Fleet == INSTANCE SystemLifecycle
Router == INSTANCE PoolRouter WITH Accounts <- RoutedAccounts, Tasks <- Requests, MaxTime <- LastInstant
Rule == INSTANCE Alerts WITH Evaluators <- Requests, MaxTime <- LastDay
Ingest == INSTANCE Ingestion WITH Clients <- Requests
Records == INSTANCE IdempotencyRecords WITH Lifetime <- RecordLifetime, Clients <- Requests, MaxTime <- LastNow
Way == INSTANCE Gateway WITH Own <- OwnAccount, MaxChanges <- MaxStoreChanges, request <- asked, changes <- disturbed
First == INSTANCE FirstSession WITH
  Calls <- Requests, MaxFaults <- MaxMishaps,
  engine <- kind, status <- standing, registry <- database, roles <- builtIn, call <- first, faults <- mishaps
Account == INSTANCE AccountProvisioning WITH
  MaxFailures <- MaxErrors, status <- accountStatus, lifecycle <- accountLifecycle, failures <- errors
Fittings == INSTANCE Equipment WITH
  Inputs <- EditInputs, MaxTime <- LastDate,
  engine <- profile, today <- date, request <- edits, saves <- saved, overtaken <- overwritten
Membership == INSTANCE Users WITH users <- people, request <- tasks
Access == INSTANCE Roles WITH
  Callers <- Requests, Users <- Managers, Custom <- CustomRoles, BuiltIn <- BuiltInRoles,
  Granted <- GrantedRoles, MaxSaves <- MaxRoleSaves

(* An account that has worked for a while, and one that an operator had     *)
(* deprovisioned and that was provisioned again.                            *)
AtWork ==
  /\ accountStatus = "active" /\ accountLifecycle = "active" /\ lease = "free"
  /\ final = "used" /\ temp = "none" /\ quarantine \in {"none", "used"}
  /\ dbLease = Account!NoDbLease /\ proc = [p \in Procs |-> Account!Idle]
  /\ crashes = 0 /\ errors = 0

-----------------------------------------------------------------------------
(* Live sessions within the limit, none older than a recovery; and only a   *)
(* rehash can put back a password that was replaced.                        *)
SignInStands == User!SessionsEnd /\ User!ChosenPasswordStands
(* A user who could sign in still can.                                      *)
LastWayStays == Links!LastWayStays
(* One live key of those rotated from one another.                          *)
OneLiveKey == Keys!OneLiveKey
(* A created system is whole, and no change of one undoes another.          *)
CreatedIsWhole == Fleet!CreatedIsWhole
NoLostUpdate == Fleet!NoLostUpdate
(* One writer for each account through a router.                            *)
OneWriter == Router!OneWriter
(* One open event for each rule.                                            *)
OneOpenEvent == Rule!OneOpenEvent
(* Stored and counted once, and answers that stay true.                     *)
IngestedOnce == Ingest!CountedOnce /\ Ingest!AnswersAreTrue
(* The first response under a key stands.                                   *)
FirstResponseStands == Records!FirstResponseStands
(* A handler acts only on what the caller proved and was granted.           *)
EffectsAreEarned == Way!EffectsAreEarned
(* Whoever is answered owns their account.                                  *)
AnsweredIsSeated == First!AnsweredIsSeated
(* A database that holds data is never overwritten or lost.                 *)
DataSurvives == Account!DataSurvives
(* Deleted inverters stay deleted, listings show what was stored together,  *)
(* and one setting is in effect, with the exceptions the module names.      *)
EquipmentStands ==
  Fittings!TypeOK /\ Fittings!DeletedStaysGone /\ Fittings!ListingIsOneSave /\ Fittings!SettingsAreDisjoint
(* Inheritance stays valid; the two decisions agree.                        *)
AccessDecided == Access!HierarchyValid /\ Access!SqlIsNoWider
(* Whoever is barred or unverified is not active, and an administrator is.  *)
UsersStand == Membership!TypeOK /\ Membership!UsersStand
=============================================================================
