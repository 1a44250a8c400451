----------------------------- MODULE Identities -----------------------------
(***************************************************************************)
(* External identities (identity_linking.rs and its repository): a login   *)
(* that creates its user when it is the first, linking by hand, and        *)
(* unlinking, which must leave a way to sign in.  Every repository call is *)
(* a statement on a connection of its own, so other requests come between. *)
(***************************************************************************)
EXTENDS Naturals, FiniteSets

CONSTANTS
  Callers,    \* requests under way
  Subjects,   \* (connector, subject) pairs
  Withheld,   \* subjects whose provider reports no email
  MaxUsers    \* bound on users created

VARIABLES
  owner,      \* external_identities: subject -> user, 0 when there is none
  users,      \* ids of users
  emails,     \* subjects whose email some user has
  local,      \* users with a local password
  task,       \* what each request is doing
  orphans,    \* history: users whose link failed after they were created
  overlapped  \* history: two unlinkings of one user were under way at once

vars == <<owner, users, emails, local, task, orphans, overlapped>>

None == 0
Idle == [pc |-> "idle", user |-> None, subject |-> "", count |-> 0, local |-> FALSE]
Done(c) == task' = [task EXCEPT ![c] = Idle]
LinksOf(u) == {s \in Subjects : owner[s] = u}

\* A user with a local password and one without, who came with a subject.
Init ==
  /\ users = {1, 2} /\ local = {1}
  /\ \E s \in Subjects : owner = [t \in Subjects |-> IF t = s THEN 2 ELSE None] /\ emails = {s} \ Withheld
  /\ task = [c \in Callers |-> Idle]
  /\ orphans = {} /\ overlapped = FALSE

----------------------------------------------------------------------------
\* resolve_external_login: an unknown subject gets a user ..
Login(c, s) ==
  /\ task[c].pc = "idle" /\ owner[s] = None
  /\ task' = [task EXCEPT ![c] = [Idle EXCEPT !.pc = "create", !.subject = s]]
  /\ UNCHANGED <<owner, users, emails, local, orphans, overlapped>>

\* .. unless its email is another's ..
CreateUser(c) ==
  /\ task[c].pc = "create" /\ Cardinality(users) < MaxUsers
  /\ IF task[c].subject \in emails
     THEN Done(c) /\ UNCHANGED <<users, emails>>
     ELSE LET u == Cardinality(users) + 1 IN
          /\ users' = users \cup {u}
          /\ emails' = emails \cup ({task[c].subject} \ Withheld)
          /\ task' = [task EXCEPT ![c].pc = "link", ![c].user = u]
  /\ UNCHANGED <<owner, local, orphans, overlapped>>

\* .. and is linked to it in a second call.  link_external_identity looks for
\* the subject first; the unique key decides between two that found nothing.
LinkByHand(c, u, s) ==
  /\ task[c].pc = "idle" /\ u \in users \ orphans /\ owner[s] = None
  /\ task' = [task EXCEPT ![c] = [Idle EXCEPT !.pc = "link", !.user = u, !.subject = s]]
  /\ UNCHANGED <<owner, users, emails, local, orphans, overlapped>>

Link(c) ==
  /\ task[c].pc = "link"
  /\ IF owner[task[c].subject] = None
     THEN owner' = [owner EXCEPT ![task[c].subject] = task[c].user] /\ UNCHANGED orphans
     ELSE /\ orphans' = IF LinksOf(task[c].user) = {} /\ task[c].user \notin local THEN orphans \cup {task[c].user} ELSE orphans
          /\ UNCHANGED owner
  /\ Done(c)
  /\ UNCHANGED <<users, emails, local, overlapped>>

----------------------------------------------------------------------------
\* unlink_external_identity: the identity, the password, the count, each read
\* by a call of its own.
Unlinking(u) == {c \in Callers : task[c].pc \in {"local", "count", "delete"} /\ task[c].user = u}

FindForUser(c, u, s) ==
  /\ task[c].pc = "idle" /\ owner[s] = u
  /\ overlapped' = (overlapped \/ Unlinking(u) # {})
  /\ task' = [task EXCEPT ![c] = [Idle EXCEPT !.pc = "local", !.user = u, !.subject = s]]
  /\ UNCHANGED <<owner, users, emails, local, orphans>>

HasLocalLogin(c) ==
  /\ task[c].pc = "local"
  /\ task' = [task EXCEPT ![c].pc = "count", ![c].local = task[c].user \in local]
  /\ UNCHANGED <<owner, users, emails, local, orphans, overlapped>>

\* (mutant: the identity to be removed counted as another way)
CountTooFew(c) ==
  /\ task[c].pc = "count"
  /\ IF ~task[c].local /\ Cardinality(LinksOf(task[c].user)) < 1 THEN Done(c)
     ELSE task' = [task EXCEPT ![c].pc = "delete"]
  /\ UNCHANGED <<owner, users, emails, local, orphans, overlapped>>

Count(c) ==
  /\ task[c].pc = "count"
  /\ IF ~task[c].local /\ Cardinality(LinksOf(task[c].user)) <= 1 THEN Done(c)
     ELSE task' = [task EXCEPT ![c].pc = "delete"]
  /\ UNCHANGED <<owner, users, emails, local, orphans, overlapped>>

\* The row is deleted by its id: one that was linked anew has another.
Unlink(c) ==
  /\ task[c].pc = "delete"
  /\ owner' = IF owner[task[c].subject] = task[c].user THEN [owner EXCEPT ![task[c].subject] = None] ELSE owner
  /\ Done(c)
  /\ UNCHANGED <<users, emails, local, orphans, overlapped>>

\* A call fails, or the process ends.
Die(c) ==
  /\ task[c].pc # "idle"
  /\ Done(c)
  /\ orphans' = IF task[c].pc = "link" /\ LinksOf(task[c].user) = {} /\ task[c].user \notin local
                THEN orphans \cup {task[c].user} ELSE orphans
  /\ UNCHANGED <<owner, users, emails, local, overlapped>>

Next ==
  \E c \in Callers :
    \/ \E s \in Subjects : Login(c, s)
    \/ \E s \in Subjects, u \in users : LinkByHand(c, u, s) \/ FindForUser(c, u, s)
    \/ CreateUser(c) \/ Link(c) \/ HasLocalLogin(c) \/ Count(c) \/ Unlink(c) \/ Die(c)

Spec == Init /\ [][Next]_vars

----------------------------------------------------------------------------
\* A user who could sign in still can, whatever was linked, unlinked or failed
\* in between, unless two unlinkings of that user overlapped: both then count
\* the identity the other removes.
LastWayStays ==
  overlapped \/ \A u \in users : \/ u \in local \/ LinksOf(u) # {} \/ u \in orphans
                                 \/ \E c \in Callers : task[c].pc = "link" /\ task[c].user = u

\* The same without the exception.  (It does not hold.)
FinalWayStays ==
  \A u \in users : \/ u \in local \/ LinksOf(u) # {} \/ u \in orphans
                   \/ \E c \in Callers : task[c].pc = "link" /\ task[c].user = u
=============================================================================
