------------------------------- MODULE SignIn -------------------------------
(***************************************************************************)
(* One local user: status and password (user_lifecycle.rs,                 *)
(* local_password.rs and their repository), recovery, and the browser      *)
(* sessions opened by signing in (browser_session.rs).  A sign-in reads    *)
(* the credential, and clears, rehashes, saves a session and trims the     *)
(* others in calls of their own; every call may be the last.  A password   *)
(* is a number, hashing is injective; the clock is abstracted to what      *)
(* expires.  Each repository call is one statement or one transaction.     *)
(***************************************************************************)
EXTENDS Naturals, FiniteSets, FiniteSetsExt

CONSTANTS
  Callers,       \* requests under way
  Limit,         \* max_concurrent_sessions
  MaxAttempts,   \* maximum_failed_attempts
  MaxSessions,   \* bound on sessions opened
  MaxChanges     \* bound on passwords chosen and recoveries asked for

VARIABLES
  stale,      \* whether stored hashes have outdated Argon2 parameters
  status,     \* of the user
  cred,       \* the local credential
  recovery,   \* the recovery token that is neither consumed nor revoked, 0 for none
  sessions,   \* [stamp, live, since]: creation time, not revoked, recoveries before it
  clock,      \* creation times given out
  call,       \* what each request is doing
  chosen,     \* history: the password last chosen by the user or an administrator
  changes,    \* history: passwords chosen and recoveries asked for
  recoveries, \* history: recoveries completed
  untrimmed   \* history: sessions saved by requests that died before trimming

vars == <<stale, status, cred, recovery, sessions, clock, call, chosen, changes, recoveries, untrimmed>>

NoCredential == [pw |-> 0, failed |-> 0, locked |-> FALSE, outdated |-> FALSE]
HasCredential == cred # NoCredential
Idle == [pc |-> "idle", pw |-> 0, rehash |-> FALSE, stamp |-> 0]
To(c, pc) == call' = [call EXCEPT ![c].pc = pc]
Done(c) == call' = [call EXCEPT ![c] = Idle]

Init ==
  /\ stale \in BOOLEAN
  /\ \/ status = "active" /\ cred = [pw |-> 1, failed |-> 0, locked |-> FALSE, outdated |-> stale]
     \/ status = "invited" /\ cred = NoCredential
  /\ recovery = 0 /\ sessions = {} /\ clock = 0
  /\ call = [c \in Callers |-> Idle]
  /\ chosen = cred.pw /\ changes = cred.pw /\ recoveries = 0 /\ untrimmed = 0

----------------------------------------------------------------------------
\* The repository.

\* save_password: an upsert for a user that is not deleted.
SavePassword(pw) ==
  cred' = IF status = "deleted" THEN cred
          ELSE [pw |-> pw, failed |-> 0, locked |-> FALSE, outdated |-> FALSE]

RecordFailedAttempt ==
  cred' = IF ~HasCredential THEN cred
          ELSE [cred EXCEPT !.failed = Min({@ + 1, MaxAttempts}), !.locked = @ \/ cred.failed + 1 >= MaxAttempts]

ClearFailedAttempts ==
  cred' = IF HasCredential THEN [cred EXCEPT !.failed = 0, !.locked = FALSE] ELSE cred

Live == {s \in sessions : s.live}
Revoked(those) == {[s EXCEPT !.live = s.live /\ s \notin those] : s \in sessions}

\* All but the newest `keep` of the sessions that are not revoked.
Oldest(keep) == {s \in Live : Cardinality({t \in Live : t.stamp > s.stamp}) >= keep}

----------------------------------------------------------------------------
\* Signing in.  The password is compared before the lock is looked at.
Authenticate(c, pw) ==
  /\ call[c].pc = "idle" /\ HasCredential
  /\ IF pw # cred.pw \/ status # "active" THEN status # "deleted" /\ To(c, "fail")
     ELSE /\ ~cred.locked
          /\ call' = [call EXCEPT ![c] = [Idle EXCEPT !.pc = "clear", !.pw = pw, !.rehash = cred.outdated]]
  /\ UNCHANGED <<stale, status, cred, recovery, sessions, clock, chosen, changes, recoveries, untrimmed>>

Fail(c) ==
  /\ call[c].pc = "fail"
  /\ RecordFailedAttempt /\ Done(c)
  /\ UNCHANGED <<stale, status, recovery, sessions, clock, chosen, changes, recoveries, untrimmed>>

\* (mutant: the parameters not compared)
ClearAndRehash(c) ==
  /\ call[c].pc = "clear"
  /\ ClearFailedAttempts
  /\ To(c, "rehash")
  /\ UNCHANGED <<stale, status, recovery, sessions, clock, chosen, changes, recoveries, untrimmed>>

Clear(c) ==
  /\ call[c].pc = "clear"
  /\ ClearFailedAttempts
  /\ To(c, IF call[c].rehash THEN "rehash" ELSE "issue")
  /\ UNCHANGED <<stale, status, recovery, sessions, clock, chosen, changes, recoveries, untrimmed>>

\* The password that was verified is saved again.
Rehash(c) ==
  /\ call[c].pc = "rehash"
  /\ SavePassword(call[c].pw) /\ To(c, "issue")
  /\ UNCHANGED <<stale, status, recovery, sessions, clock, chosen, changes, recoveries, untrimmed>>

\* issue_at takes the time, saves the session ..
Issue(c) ==
  /\ call[c].pc = "issue" /\ clock < MaxSessions
  /\ clock' = clock + 1
  /\ call' = [call EXCEPT ![c].pc = "save", ![c].stamp = clock']
  /\ UNCHANGED <<stale, status, cred, recovery, sessions, chosen, changes, recoveries, untrimmed>>

SaveSession(c) ==
  /\ call[c].pc = "save"
  /\ sessions' = sessions \cup {[stamp |-> call[c].stamp, live |-> TRUE, since |-> recoveries]}
  /\ To(c, "trim")
  /\ UNCHANGED <<stale, status, cred, recovery, clock, chosen, changes, recoveries, untrimmed>>

\* .. and revokes the oldest above the limit.
Trim(c) ==
  /\ call[c].pc = "trim"
  /\ sessions' = Revoked(Oldest(Limit))
  /\ Done(c) /\ untrimmed' = 0
  /\ UNCHANGED <<stale, status, cred, recovery, clock, chosen, changes, recoveries>>

\* A call fails, or the process ends: what was done before it stays.
Die(c) ==
  /\ call[c].pc # "idle"
  /\ Done(c)
  /\ untrimmed' = untrimmed + (IF call[c].pc = "trim" THEN 1 ELSE 0)
  /\ UNCHANGED <<stale, status, cred, recovery, sessions, clock, chosen, changes, recoveries>>

\* A live session of an active user is found, and revoked by its holder; a
\* rotation goes on to issue another.
Logout(c, s) ==
  /\ call[c].pc = "idle" /\ status = "active" /\ s \in Live
  /\ sessions' = Revoked({s})
  /\ \E pc \in {"idle", "issue"} : To(c, pc)
  /\ UNCHANGED <<stale, status, cred, recovery, clock, chosen, changes, recoveries, untrimmed>>

----------------------------------------------------------------------------
\* Choosing a password.
Chosen(pw) == chosen' = pw /\ changes' = pw

ReadForChange(c, pw) ==
  /\ call[c].pc = "idle" /\ status = "active" /\ HasCredential /\ pw = cred.pw
  /\ To(c, "change")
  /\ UNCHANGED <<stale, status, cred, recovery, sessions, clock, chosen, changes, recoveries, untrimmed>>

\* change_password: no session is revoked.
ChangePassword(c) ==
  /\ call[c].pc = "change" /\ changes < MaxChanges
  /\ SavePassword(changes + 1)
  /\ IF status = "deleted" THEN UNCHANGED <<chosen, changes>> ELSE Chosen(changes + 1)
  /\ Done(c)
  /\ UNCHANGED <<stale, status, recovery, sessions, clock, recoveries, untrimmed>>

\* By an administrator, or by accepting an invitation to the user's address.
SetInitialPassword ==
  /\ changes < MaxChanges /\ status # "deleted"
  /\ SavePassword(changes + 1) /\ Chosen(changes + 1)
  /\ \E accepts \in BOOLEAN : status' = IF accepts /\ status = "invited" THEN "active" ELSE status
  /\ UNCHANGED <<stale, recovery, sessions, clock, call, recoveries, untrimmed>>

\* request_recovery reads the credential, then replaces the token.
RequestRecovery(c) ==
  /\ call[c].pc = "idle" /\ HasCredential /\ status = "active" /\ changes < MaxChanges
  /\ To(c, "recovery")
  /\ UNCHANGED <<stale, status, cred, recovery, sessions, clock, chosen, changes, recoveries, untrimmed>>

CreateRecovery(c) ==
  /\ call[c].pc = "recovery" /\ changes < MaxChanges
  /\ recovery' = changes + 1 /\ changes' = changes + 1
  /\ Done(c)
  /\ UNCHANGED <<stale, status, cred, sessions, clock, chosen, recoveries, untrimmed>>

\* consume_recovery, one transaction: token, credential and sessions.
ConsumeRecovery ==
  /\ recovery # 0 /\ status = "active" /\ HasCredential
  /\ SavePassword(recovery) /\ chosen' = recovery
  /\ recovery' = 0 /\ recoveries' = recoveries + 1
  /\ sessions' = Revoked(sessions)
  /\ UNCHANGED <<stale, status, clock, call, changes, untrimmed>>

----------------------------------------------------------------------------
\* Administration.
ActivateUser ==
  /\ status # "deleted" /\ status' = "active"
  /\ UNCHANGED <<stale, cred, recovery, sessions, clock, call, chosen, changes, recoveries, untrimmed>>

DisableUser ==
  /\ status' = IF status = "deleted" THEN status ELSE "disabled"
  /\ sessions' = Revoked(sessions)
  /\ UNCHANGED <<stale, cred, recovery, clock, call, chosen, changes, recoveries, untrimmed>>

UnlockUser ==
  /\ status # "deleted" /\ ClearFailedAttempts
  /\ UNCHANGED <<stale, status, recovery, sessions, clock, call, chosen, changes, recoveries, untrimmed>>

DeleteUser ==
  /\ status # "deleted" /\ status' = "deleted"
  /\ cred' = NoCredential /\ recovery' = 0 /\ sessions' = Revoked(sessions)
  /\ UNCHANGED <<stale, clock, call, chosen, changes, recoveries, untrimmed>>

\* Time passes: the lock, the recovery token or a session runs out.
Expire ==
  /\ \/ cred.locked /\ cred' = [cred EXCEPT !.locked = FALSE] /\ UNCHANGED <<recovery, sessions>>
     \/ recovery # 0 /\ recovery' = 0 /\ UNCHANGED <<cred, sessions>>
     \/ \E s \in Live : sessions' = Revoked({s}) /\ UNCHANGED <<cred, recovery>>
  /\ UNCHANGED <<stale, status, clock, call, chosen, changes, recoveries, untrimmed>>

Next ==
  \/ \E c \in Callers :
       \/ \E pw \in 1 .. MaxChanges : Authenticate(c, pw) \/ ReadForChange(c, pw)
       \/ Fail(c) \/ Clear(c) \/ Rehash(c) \/ Issue(c) \/ SaveSession(c) \/ Trim(c) \/ Die(c)
       \/ \E s \in sessions : Logout(c, s)
       \/ ChangePassword(c) \/ RequestRecovery(c) \/ CreateRecovery(c)
  \/ SetInitialPassword \/ ConsumeRecovery
  \/ ActivateUser \/ DisableUser \/ UnlockUser \/ DeleteUser \/ Expire

Spec == Init /\ [][Next]_vars

----------------------------------------------------------------------------
\* However sign-ins overlap, saved in another order than they were created,
\* the user never has more live sessions than the limit, the requests that are
\* yet to trim, and those that died between saving and trimming; and no session
\* saved before a recovery was completed survives it (one whose sign-in verified
\* the old password earlier and is saved later does).
SessionsEnd ==
  /\ Cardinality(Live) <= Limit + Cardinality({c \in Callers : call[c].pc = "trim"}) + untrimmed
  /\ \A s \in Live : s.since = recoveries

\* The password last chosen stands through every interleaving of sign-ins,
\* changes and recoveries as long as hashes need no new parameters; a sign-in
\* that rehashes may put back the one it verified.
ChosenPasswordStands == HasCredential /\ ~stale => cred.pw = chosen

\* After a change of password the sessions opened before it are revoked.
\* (It does not hold: change_password leaves them.)
ChangeEndsSessions ==
  [][(\E c \in Callers : ChangePassword(c)) /\ status # "deleted" => \A s \in sessions' : s \in sessions => ~s.live]_vars
=============================================================================
