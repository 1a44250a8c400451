------------------------------ MODULE Uploader ------------------------------
(***************************************************************************)
(* The SBFspot uploader: read a page of DayData after the cursor, send it  *)
(* as one atomic batch with bounded retries, save the checkpoint, go on.   *)
(* The inverters write their rows of a time one by one; the uploader sees  *)
(* the sum of those that are there.  Replies get lost, the process stops   *)
(* anywhere and is started again (Restart=on-failure).  The server is its  *)
(* idempotent atomic insert (module Ingestion): identical readings are     *)
(* duplicates, another one under the same key refuses the batch.           *)
(***************************************************************************)
EXTENDS Naturals, Sequences, FiniteSets

CONSTANTS
  Times,            \* 1 .. the last DayData.TimeStamp
  Inverters,        \* rows that make a time complete
  BatchSize,        \* --batch-size
  MaximumAttempts,  \* requests per batch
  MaxCrashes        \* bound on stops

VARIABLES
  scattered,   \* whether rows arrive in any order, at any time
  source,      \* [Times -> set of inverters whose row is in DayData]
  checkpoint,  \* last_timestamp of the file, 0 when there is none
  cursor,      \* the same in memory
  pc,          \* "stopped", "reading", "sending", "replied", "failed"
  page,        \* readings of the batch in flight
  attempt,     \* 1 .. MaximumAttempts
  server,      \* [Times -> reading stored there, or Nothing]
  stops        \* stops so far

vars == <<scattered, source, checkpoint, cursor, pc, page, attempt, server, stops>>

Nothing == [rows |-> {}, since |-> 0]

Init ==
  /\ scattered \in BOOLEAN
  /\ source = [t \in Times |-> {}]
  /\ checkpoint = 0 /\ cursor = 0
  /\ pc = "stopped" /\ page = <<>> /\ attempt = 1
  /\ server = [t \in Times |-> Nothing]
  /\ stops = 0

----------------------------------------------------------------------------
Present == {t \in Times : source[t] # {}}

\* to_reading: the sum over the rows of t, and the energy since the time
\* before it if as many inverters reported then (0: no energy).
Reading(t) ==
  LET earlier == {u \in Present : u < t}
      last == CHOOSE u \in earlier : \A v \in earlier : v <= u
  IN [rows |-> source[t],
      since |-> IF earlier # {} /\ Cardinality(source[last]) = Cardinality(source[t]) THEN last ELSE 0]

\* WHERE TimeStamp > cursor GROUP BY TimeStamp ORDER BY TimeStamp LIMIT n.
PageTimes == {t \in Present : t > cursor /\ Cardinality({u \in Present : cursor < u /\ u < t}) < BatchSize}

Last(p) == CHOOSE t \in DOMAIN p : \A u \in DOMAIN p : u <= t

\* The environment: an inverter's row appears.
RowArrives(t, i) ==
  /\ i \notin source[t]
  /\ scattered \/ \A u \in Times : u < t => source[u] = Inverters
  /\ source' = IF scattered THEN [source EXCEPT ![t] = @ \cup {i}] ELSE [source EXCEPT ![t] = Inverters]
  /\ UNCHANGED <<scattered, checkpoint, cursor, pc, page, attempt, server, stops>>

\* push_pending begins: the checkpoint decides where.
Load ==
  /\ pc = "stopped"
  /\ cursor' = checkpoint
  /\ pc' = "reading"
  /\ UNCHANGED <<scattered, source, checkpoint, page, attempt, server, stops>>

\* The next page; without one the pass is over until the next poll, which
\* reads the checkpoint again.
ReadAfter ==
  /\ pc = "reading"
  /\ IF PageTimes = {}
     THEN pc' = "stopped" /\ UNCHANGED <<page, attempt>>
     ELSE pc' = "sending" /\ attempt' = 1 /\ page' = [t \in PageTimes |-> Reading(t)]
  /\ UNCHANGED <<scattered, source, checkpoint, cursor, server, stops>>

\* The server takes all readings of the page or none.
Refused == \E t \in DOMAIN page : server[t] # Nothing /\ server[t] # page[t]
Accepted == [t \in Times |-> IF t \in DOMAIN page THEN page[t] ELSE server[t]]

\* The request arrives and its reply returns: outcomes, or a conflict, which
\* is permanent and ends the program.
Send ==
  /\ pc = "sending"
  /\ IF Refused THEN pc' = "failed" /\ UNCHANGED server
     ELSE pc' = "replied" /\ server' = Accepted
  /\ UNCHANGED <<scattered, source, checkpoint, cursor, page, attempt, stops>>

\* The request or its reply is lost, or the server is overloaded: the batch
\* may be stored or not; it is sent again until the attempts are used up.
SendFails(arrived) ==
  /\ pc = "sending"
  /\ server' = IF arrived /\ ~Refused THEN Accepted ELSE server
  /\ IF attempt < MaximumAttempts
     THEN attempt' = attempt + 1 /\ UNCHANGED pc
     ELSE pc' = "failed" /\ UNCHANGED attempt
  /\ UNCHANGED <<scattered, source, checkpoint, cursor, page, stops>>

\* (mutant: the checkpoint saved before the batch is accepted)
SaveEarly ==
  /\ pc \in {"sending", "replied"}
  /\ checkpoint' = Last(page)
  /\ IF pc = "replied" THEN cursor' = Last(page) /\ pc' = "reading" ELSE UNCHANGED <<cursor, pc>>
  /\ UNCHANGED <<scattered, source, page, attempt, server, stops>>

\* The checkpoint file is written aside and renamed into place.
Save ==
  /\ pc = "replied"
  /\ checkpoint' = Last(page)
  /\ cursor' = Last(page)
  /\ pc' = "reading"
  /\ UNCHANGED <<scattered, source, page, attempt, server, stops>>

\* The process dies, or ended with an error, and is started again.
Crash ==
  /\ stops < MaxCrashes /\ pc \notin {"failed", "stopped"}
  /\ stops' = stops + 1
  /\ pc' = "stopped"
  /\ UNCHANGED <<scattered, source, checkpoint, cursor, page, attempt, server>>

\* (mutant: the unit not restarted on failure)
NoRestart == pc = "failed" /\ UNCHANGED vars

Restart ==
  /\ pc = "failed"
  /\ pc' = "stopped"
  /\ UNCHANGED <<scattered, source, checkpoint, cursor, page, attempt, server, stops>>

Next ==
  \/ \E t \in Times, i \in Inverters : RowArrives(t, i)
  \/ Load \/ ReadAfter \/ Send \/ Save
  \/ \E arrived \in BOOLEAN : SendFails(arrived)
  \/ Crash \/ Restart

\* The poll timer, the process and systemd keep going; a request that is
\* repeated for ever gets through in the end.
Fairness == WF_vars(Load) /\ WF_vars(ReadAfter) /\ SF_vars(Send) /\ WF_vars(Save) /\ WF_vars(Restart)

Spec == Init /\ [][Next]_vars /\ Fairness

----------------------------------------------------------------------------
\* The cursor file never runs ahead of the server: whatever was seen at or
\* before it is stored, whichever of request, reply, save or process failed.
CheckpointCovers ==
  /\ checkpoint > 0 => server[checkpoint] # Nothing
  /\ ~scattered => \A t \in Times : t <= checkpoint => server[t] = Reading(t)

\* With complete times appended in order, everything is uploaded in the end.
CatchesUp == ~scattered => \A t \in Times : source[t] # {} ~> server[t] = Reading(t)

\* The guide: all inverter rows at each time are aggregated.
AggregatesAllRows == \A t \in Times : t <= checkpoint => server[t].rows = source[t]
=============================================================================
