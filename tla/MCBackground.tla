---------------------------- MODULE MCBackground ----------------------------
(* What goes on in the background, on small instances: the uploader, the    *)
(* archive, webhook deliveries, provider queries and job dispatch.  They    *)
(* share no variable here: a behaviour exercises the one its initial state  *)
(* chooses.                                                                 *)
EXTENDS Archive

CONSTANTS
  Halves, Inverters, Senders, Queries, Dispatchers,
  LastTime, BatchSize, UploadAttempts, MaxStops,   \* Uploader
  DeliveryAttempts, MaxReplays, MaxLosses          \* Webhooks

VARIABLES
  half,
  scattered, source, checkpoint, cursor, pc, page, attempt, server, stops,
  item, leased, sender, found, sent, accepted, replays, losses,
  works, breaker, entry, query, freshness,
  due, down, pass

upload == <<scattered, source, checkpoint, cursor, pc, page, attempt, server, stops>>
webhooks == <<item, leased, sender, found, sent, accepted, replays, losses>>
provider == <<works, breaker, entry, query, freshness>>
dispatch == <<due, down, pass>>

Upload == INSTANCE Uploader WITH
  Times <- 1 .. LastTime, MaximumAttempts <- UploadAttempts, MaxCrashes <- MaxStops
Hook == INSTANCE Webhooks WITH MaximumAttempts <- DeliveryAttempts
Circuit == INSTANCE ProviderCircuit WITH
  Threshold <- 2, Recovery <- 2, Ttl <- 1, MaxStale <- 1, Timeout <- 1
Turns == INSTANCE Dispatch WITH Accounts <- 3, MaxJobs <- 2

StartAll ==
  /\ half \in Halves
  /\ Upload!Init /\ Init /\ Hook!Init /\ Circuit!Init /\ Turns!Init
  /\ half # "upload" => ~scattered

StepOne ==
  /\ \/ half = "upload" /\ Upload!Next /\ UNCHANGED <<vars, webhooks, provider, dispatch>>
     \/ half = "archive" /\ Next /\ UNCHANGED <<upload, webhooks, provider, dispatch>>
     \/ half = "webhooks" /\ Hook!Next /\ UNCHANGED <<upload, vars, provider, dispatch>>
     \/ half = "provider" /\ Circuit!Next /\ UNCHANGED <<upload, vars, webhooks, dispatch>>
     \/ half = "dispatch" /\ Turns!Next /\ UNCHANGED <<upload, vars, webhooks, provider>>
  /\ UNCHANGED half

\* The fairness of each module, where its half runs.
GoesOn ==
  /\ WF_upload(half = "upload" /\ Upload!Load) /\ WF_upload(half = "upload" /\ Upload!ReadAfter)
  /\ SF_upload(half = "upload" /\ Upload!Send) /\ WF_upload(half = "upload" /\ Upload!Save)
  /\ WF_upload(half = "upload" /\ Upload!Restart)
  /\ \A w \in Compactors : WF_vars(half = "archive" /\ (Compaction(w) \/ Revive(w)))
  /\ \A w \in Folders : WF_vars(half = "archive" /\ (Folding(w) \/ Revive(w)))
  /\ \A w \in Senders : WF_webhooks(half = "webhooks" /\ Hook!Working(w))
  /\ WF_webhooks(half = "webhooks" /\ Hook!Due) /\ WF_webhooks(half = "webhooks" /\ Hook!Expire)
  /\ \A q \in Queries : WF_provider(half = "provider" /\ Circuit!Working(q))
  /\ WF_provider(half = "provider" /\ Circuit!Tick)
  /\ \A d \in Dispatchers : WF_dispatch(half = "dispatch" /\ (Turns!Begin(d) \/ Turns!Ask(d)))

Background ==
  StartAll /\ [][StepOne]_<<half, upload, vars, webhooks, provider, dispatch>> /\ GoesOn

(* The cursor never runs ahead of the server, and the uploader catches up.  *)
CheckpointCovers == Upload!CheckpointCovers
CatchesUp == Upload!CatchesUp
(* Deliveries end, delivered or dead for the reasons the limit gives.       *)
OutcomeIsEarned == Hook!OutcomeIsEarned
DeliveriesSettle == half = "webhooks" => Hook!DeliveriesSettle
(* A provider that works again is asked again.                              *)
ProviderComesBack == half = "provider" => Circuit!ProviderComesBack
(* Accounts are served in turn.                                             *)
ServedInTurn == half = "dispatch" => Turns!ServedInTurn
=============================================================================
