------------------------------ MODULE Webhooks ------------------------------
(***************************************************************************)
(* One webhook delivery (webhook_delivery.rs): workers claim it for a      *)
(* lease, send, and save the item they hold with one more attempt; a dead  *)
(* letter is replayed by hand.  The repository is a trait without an       *)
(* implementation: claim gives out what is due and not leased, save        *)
(* replaces the item and ends the lease.  Times are what has run out.      *)
(***************************************************************************)
EXTENDS Naturals

CONSTANTS
  Senders,
  MaximumAttempts,
  MaxReplays,   \* bound on replays
  MaxLosses     \* bound on workers that end or outlive their lease

VARIABLES
  item,     \* [state, attempts, due]
  leased,   \* whether a lease is running
  sender,   \* what each worker holds: [pc, item, status]
  found,    \* replays that have found the dead letter and not saved it yet
  sent,     \* history: requests sent since the last replay, one over the limit at most
  accepted, \* history: the receiver answered one of them with success
  replays,
  losses    \* history: workers that ended or were late, replays that saved over newer items

vars == <<item, leased, sender, found, sent, accepted, replays, losses>>

New == [state |-> "pending", attempts |-> 0, due |-> TRUE]
Idle == [pc |-> "idle", item |-> New, ok |-> FALSE]
Settled == item.state \in {"delivered", "dead"}

Init ==
  /\ item = New
  /\ leased = FALSE /\ sender = [w \in Senders |-> Idle] /\ found = 0
  /\ sent = 0 /\ accepted = FALSE /\ replays = 0 /\ losses = 0

----------------------------------------------------------------------------
Claim(w) ==
  /\ sender[w].pc = "idle" /\ ~leased /\ ~Settled /\ item.due
  /\ leased' = TRUE
  /\ sender' = [sender EXCEPT ![w] = [pc |-> "send", item |-> item, ok |-> FALSE]]
  /\ UNCHANGED <<item, found, sent, accepted, replays, losses>>

\* The response, or none; only a 2xx status is success.
Send(w, ok) ==
  /\ sender[w].pc = "send"
  /\ sender' = [sender EXCEPT ![w].pc = "save", ![w].ok = ok]
  /\ sent' = (IF sent > MaximumAttempts THEN sent ELSE sent + 1) /\ accepted' = (accepted \/ ok)
  /\ UNCHANGED <<item, leased, found, replays, losses>>

\* (mutant: the limit compared before the attempt is counted)
AttemptedLate(i, ok) ==
  [attempts |-> i.attempts + 1, due |-> FALSE,
   state |-> IF ok THEN "delivered" ELSE IF i.attempts + 2 >= MaximumAttempts THEN "dead" ELSE "retrying"]

\* (mutant: attempts not counted)
AttemptedAgain(i, ok) ==
  [attempts |-> i.attempts, due |-> FALSE,
   state |-> IF ok THEN "delivered" ELSE IF i.attempts + 1 >= MaximumAttempts THEN "dead" ELSE "retrying"]

Attempted(i, ok) ==
  [attempts |-> i.attempts + 1, due |-> FALSE,
   state |-> IF ok THEN "delivered" ELSE IF i.attempts + 1 >= MaximumAttempts THEN "dead" ELSE "retrying"]

Save(w) ==
  /\ sender[w].pc = "save"
  /\ item' = Attempted(sender[w].item, sender[w].ok) /\ leased' = FALSE
  /\ sender' = [sender EXCEPT ![w] = Idle]
  /\ UNCHANGED <<found, sent, accepted, replays, losses>>

\* The backoff is over.
Due ==
  /\ item.state = "retrying" /\ ~item.due
  /\ item' = [item EXCEPT !.due = TRUE]
  /\ UNCHANGED <<leased, sender, found, sent, accepted, replays, losses>>

\* The worker ends, or its call fails: the lease stays until it expires.
Die(w) ==
  /\ sender[w].pc # "idle" /\ losses < MaxLosses
  /\ sender' = [sender EXCEPT ![w] = Idle] /\ losses' = losses + 1
  /\ UNCHANGED <<item, leased, found, sent, accepted, replays>>

\* A lease runs out, under a worker that is still sending too.
Expire ==
  /\ leased
  /\ \/ UNCHANGED losses /\ \A w \in Senders : sender[w].pc = "idle"
     \/ losses < MaxLosses /\ losses' = losses + 1
  /\ leased' = FALSE
  /\ UNCHANGED <<item, sender, found, sent, accepted, replays>>

\* replay finds a dead letter ..
Replay ==
  /\ item.state = "dead" /\ replays < MaxReplays
  /\ replays' = replays + 1 /\ found' = found + 1
  /\ UNCHANGED <<item, leased, sender, sent, accepted, losses>>

\* .. and saves it with no attempts, whatever has become of it.
SaveReplay ==
  /\ found > 0 /\ found' = found - 1
  /\ item' = New /\ leased' = FALSE
  /\ sent' = 0 /\ accepted' = FALSE
  /\ losses' = IF item.state = "dead" THEN losses ELSE losses + 1
  /\ UNCHANGED <<sender, replays>>

Next ==
  \/ \E w \in Senders : Claim(w) \/ Save(w) \/ Die(w) \/ \E ok \in BOOLEAN : Send(w, ok)
  \/ Due \/ Expire \/ Replay \/ SaveReplay

Working(w) == Claim(w) \/ Save(w) \/ \E ok \in BOOLEAN : Send(w, ok)
Spec == Init /\ [][Next]_vars

----------------------------------------------------------------------------
\* As long as no worker ended or was late, and no replay overlapped another's
\* new attempts: a dead letter was refused as often
\* as the limit says and never accepted, and a delivered one was accepted once
\* and not sent again.
OutcomeIsEarned ==
  losses > 0 \/
  /\ item.state = "dead" => sent = MaximumAttempts /\ ~accepted
  /\ item.state = "delivered" <=> accepted /\ \A w \in Senders : sender[w].pc = "idle"

\* Every delivery is settled in the end, whatever workers do to it.
DeliveriesSettle == <>[]Settled
=============================================================================
