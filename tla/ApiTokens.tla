------------------------------ MODULE ApiTokens ------------------------------
(***************************************************************************)
(* API keys of one account (api_token.rs, pvlog/api_keys.rs and the        *)
(* management repository).  Issuing saves the key and then the audit       *)
(* record, and revokes the key when the record fails; rotating verifies a  *)
(* key, revokes it and issues its successor, in three calls.  Scopes,      *)
(* names and digests are left out; a key is its number.                    *)
(***************************************************************************)
EXTENDS Naturals, FiniteSets

CONSTANTS
  Callers,    \* requests under way
  MaxKeys,    \* bound on keys saved
  MaxFailures \* bound on calls that fail

VARIABLES
  keys,      \* api_credentials: [id, root, live, expired]
  usable,    \* whether owner and account are active
  step,      \* what each request is doing
  answered,  \* history: keys whose plaintext was given out
  leftover,  \* history: keys whose revocation after a failed audit failed too
  failures

vars == <<keys, usable, step, answered, leftover, failures>>

Idle == [pc |-> "idle", key |-> 0, root |-> 0]
Done(c) == step' = [step EXCEPT ![c] = Idle]
Live == {k \in keys : k.live /\ ~k.expired}
Count == Cardinality(keys)

Init ==
  /\ keys = {} /\ usable = TRUE
  /\ step = [c \in Callers |-> Idle]
  /\ answered = {} /\ leftover = {} /\ failures = 0

----------------------------------------------------------------------------
\* The repository: an upsert by an id that is always new, and an update of
\* the row that is not revoked, which tells whether there was one.
Save(root) ==
  keys' = keys \cup {[id |-> Count + 1, root |-> root, live |-> TRUE, expired |-> FALSE]}

RevokeRow(id) == keys' = {[k EXCEPT !.live = k.live /\ k.id # id] : k \in keys}
CanRevoke(id) == \E k \in keys : k.id = id /\ k.live

----------------------------------------------------------------------------
\* issue for a user: the key is the root of those rotated from it.
Issue(c) ==
  /\ step[c].pc = "idle" /\ Count < MaxKeys
  /\ Save(Count + 1)
  /\ step' = [step EXCEPT ![c] = [pc |-> "audit", key |-> Count + 1, root |-> Count + 1]]
  /\ UNCHANGED <<usable, answered, leftover, failures>>

AuditIssued(c) ==
  /\ step[c].pc = "audit"
  /\ answered' = answered \cup {step[c].key}
  /\ Done(c)
  /\ UNCHANGED <<keys, usable, leftover, failures>>

AuditFails(c) ==
  /\ step[c].pc = "audit" /\ failures < MaxFailures
  /\ failures' = failures + 1
  /\ step' = [step EXCEPT ![c].pc = "compensate"]
  /\ UNCHANGED <<keys, usable, answered, leftover>>

\* The answer of this revocation is not looked at.
Compensate(c) ==
  /\ step[c].pc = "compensate"
  /\ \/ RevokeRow(step[c].key) /\ UNCHANGED <<leftover, failures>>
     \/ /\ failures < MaxFailures /\ failures' = failures + 1
        /\ leftover' = leftover \cup {step[c].key} /\ UNCHANGED keys
  /\ Done(c)
  /\ UNCHANGED <<usable, answered>>

----------------------------------------------------------------------------
\* rotate, with a key that was given out.
Verify(c, k) ==
  /\ step[c].pc = "idle" /\ usable /\ k \in Live /\ k.id \in answered
  /\ step' = [step EXCEPT ![c] = [pc |-> "revoke", key |-> k.id, root |-> k.root]]
  /\ UNCHANGED <<keys, usable, answered, leftover, failures>>

\* (mutant: whether there was a row to revoke is not looked at)
RevokeOldBlindly(c) ==
  /\ step[c].pc = "revoke"
  /\ RevokeRow(step[c].key)
  /\ step' = [step EXCEPT ![c].pc = "issue"]
  /\ UNCHANGED <<usable, answered, leftover, failures>>

RevokeOld(c) ==
  /\ step[c].pc = "revoke"
  /\ RevokeRow(step[c].key)
  /\ IF CanRevoke(step[c].key) THEN step' = [step EXCEPT ![c].pc = "issue"] ELSE Done(c)
  /\ UNCHANGED <<usable, answered, leftover, failures>>

\* The successor has the old key's expiry and is refused when that is over.
IssueNext(c) ==
  /\ step[c].pc = "issue"
  /\ IF \E k \in keys : k.id = step[c].key /\ k.expired
     THEN UNCHANGED <<keys, answered>>
     ELSE /\ Count < MaxKeys /\ Save(step[c].root)
          /\ answered' = answered \cup {Count + 1}
  /\ Done(c)
  /\ UNCHANGED <<usable, leftover, failures>>

----------------------------------------------------------------------------
Revoke(k) ==
  /\ RevokeRow(k.id)
  /\ UNCHANGED <<usable, step, answered, leftover, failures>>

\* A call of a rotation fails: what was done before it stays.
Fail(c) ==
  /\ step[c].pc \in {"revoke", "issue"} /\ failures < MaxFailures
  /\ failures' = failures + 1 /\ Done(c)
  /\ UNCHANGED <<keys, usable, answered, leftover>>

Expire(k) ==
  /\ keys' = (keys \ {k}) \cup {[k EXCEPT !.expired = TRUE]}
  /\ UNCHANGED <<usable, step, answered, leftover, failures>>

SetOwner ==
  /\ usable' = ~usable
  /\ UNCHANGED <<keys, step, answered, leftover, failures>>

Next ==
  \/ \E c \in Callers :
       \/ Issue(c) \/ AuditIssued(c) \/ AuditFails(c) \/ Compensate(c)
       \/ RevokeOld(c) \/ IssueNext(c) \/ Fail(c) \/ \E k \in keys : Verify(c, k)
  \/ \E k \in keys : Revoke(k) \/ Expire(k)
  \/ SetOwner

Spec == Init /\ [][Next]_vars

----------------------------------------------------------------------------
\* Of a key and all that were rotated from it at most one is live, however
\* rotations overlap; and a live key was given out, is about to be, or is left
\* over from a revocation that failed.
OneLiveKey ==
  /\ \A k, l \in Live : k.root = l.root => k = l
  /\ \A k \in Live : \/ k.id \in answered \cup leftover
                     \/ \E c \in Callers : step[c].key = k.id /\ step[c].pc \in {"audit", "compensate"}
=============================================================================
