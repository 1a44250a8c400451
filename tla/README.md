# A verification development for pvlog

pvlog stores the telemetry of photovoltaic systems for many accounts, shows
what the accounts publish, models the expected yield, and raises alerts. This
directory holds TLA+ models of it, TLC configurations that check them on small
instances, and TLAPS proofs about the core of them for every instance.

The models are translated from the Rust code under `src/crates/` (paths below
are relative to it unless they begin with `docs/` or `openspec/`). `PROJECT.json`
records, for every definition that models code, the lines it stands for; for
every property, a change of the code that breaks it; and every place where the
code is exposed to something a test would hardly reach.

## 1. The system and its parts

One server process (or several, on PostgreSQL) serves HTTP and runs commands.
A *management database* holds users, accounts, roles, the registry of account
databases and what is publicly discoverable. Each account has its *own database*
(one SQLite file, or rows under its id in PostgreSQL) with systems, equipment,
telemetry, the yield ledger and a job queue. The two share no transaction, which
is the root of most of what is hard here; the rest comes from leases and from
reads that are acted on later.

| Component (code) | State | Operations | Hard | Correct when | Modules |
|---|---|---|---|---|---|
| Durable job queue (`storage/operational_repository.rs`, `worker`) | `account_jobs` | enqueue, lease, heartbeat, complete, retry, cancel, requeue, `execute_one` | expired leases, racing enqueue, late outcomes, retry decided on an old count | one live lease per job; only the holder settles; the retry budget is kept; every job settles | `JobQueue`, `LeasedWork` |
| Job dispatch (`storage/job_dispatch.rs`) | order of accounts | lease next | starvation, failing databases | accounts are served in turn, as far as the fixed order lets them | `Dispatch` |
| Account provisioning (`storage/provisioning.rs`) | account status, registry lifecycle, migration lease, three files | provision, reconcile, deprovision | crash at any step, calls that outlive a lease, renames that replace | an active account has a whole database; data is never overwritten; provisioning ends | `AccountProvisioning` |
| First session (`pvlog/authentication.rs`) | account, membership, built-in roles, owner's assignment | everything a first session of a user writes | sessions open at once, fail and die between any two writes | whoever is answered owns a usable account | `FirstSession` |
| Discovery projections (`storage/sqlite_projection.rs`) | outbox (account), checkpoint, inbox, rows, reservations (management) | append, reserve, reconcile, apply, mark | two databases, overlapping reconciliations, privacy first | each event takes effect once, in order, and is delivered | `ProjectionOutbox`, `ProjectedView` |
| Yield ledger (`storage/yield_*_repository.rs`) | weather runs, calculation runs, results, projections | insert, select, project, retain, purge | purge around a calculation, last writer wins | what is shown or retained keeps its provenance; what expired goes | `YieldLedger` |
| Recalculation commands (`pvlog/main.rs`, `worker`) | `yield_invalidations` | recalculate, retry | two transactions, ids derived from ranges | an answered recalculation is carried out | `Recalculation` |
| Telemetry ingestion (`storage/telemetry_repository.rs`, `application/batch_ingestion.rs`) | observations, idempotency records, permits | admit, validate, insert, answer, expire | repeats against conflicts, two engines, expiry of keys | stored and counted once; answers that stay true | `Ingestion`, `IdempotencyRecords` |
| Time-series archive (`storage/compaction.rs`, `overlay_folding.rs`, `application/merged_reader.rs`) | segments, hot rows, overlays, phases, leases | compact, fold, correct, read | crash between segment and phase, late rows, generations | a reading is visible exactly once, in every phase | `Archive` |
| SBFspot uploader (`sbfspot-push`) | checkpoint | read, send, checkpoint | crash between send and checkpoint, lost replies | the checkpoint never runs ahead; everything is sent | `Uploader` |
| Account routing (`storage/sqlite_router.rs`) | pool cache | resolve, acquire, evict | eviction while handles are held, full cache | one writer per account and router | `PoolRouter` |
| System lifecycle (`application/system_lifecycle.rs`) | system row, registry entry, role assignment | create, load and save, archive, delete | half compensation, stale versions | all three or none; no lost update | `SystemLifecycle` |
| Equipment (`storage/account_repository.rs`, `storage/yield_forecast_repository.rs`, `pvlog/inverters.rs`) | inverters, strings, forecast settings | create, edit, delete, list, insert settings | find, then replace; two reads of a listing; overlap check before an insert | what is deleted stays so; a listing is one save; one setting in effect | `Equipment`, `EquipmentRules` |
| Sign-in (`application/local_password.rs`, `browser_session.rs`) | status, password, recovery, sessions of a user | sign in, change, recover, log out, disable | overlapping sign-ins, rehash with an old password | session limit; the chosen password stands | `SignIn` |
| Users (`application/user_lifecycle.rs`) | users, invitations | create, register, invite, accept, activate, disable, delete | authorized first, carried out later | whoever is barred or unverified stays out; an administrator stays | `Users` |
| External identities (`application/identity_linking.rs`) | identities | login, link, unlink | check, then act | a user keeps a way in | `Identities` |
| Access control (`domain/rbac.rs`, `application/rbac_management.rs`, `application/api_token.rs`) | roles, inheritance, assignments, API keys | define, assign, revoke, evaluate; issue, rotate, revoke | cycles, overlapping rotations, two deciders | inheritance stays valid; SQL allows no more than the evaluator; one live key | `Roles`, `ApiTokens` |
| HTTP interface (`api`, `application/authorization_boundary.rs`) | none of its own but the ingestion quota | authenticate, authorize, audit, serve | grants, sessions and systems change between two reads | a handler acts only on what was proved, granted and recorded | `Gateway`, `Routes` |
| Alerts and webhooks (`application/alert_evaluator.rs`, `webhook_delivery.rs`) | alert states, deliveries | evaluate, claim, send, save, replay | double evaluation, late answers | one open event per rule; attempts bounded; deliveries settle | `Alerts`, `Webhooks` |
| External data (`application/provider_data.rs`) | cache, circuit | query | half-open circuit, late failures | a broken provider is left alone and asked again | `ProviderCircuit` |
| Yield model, queries and statistics, normalisation, capacity and catalog (`domain`, `application`) | none | pure functions | rounding, boundaries, missing values | they add up, and stay within their bounds | `YieldModel`, `Queries`, `Summaries`, `Readings`, `EquipmentRules` |
| Management store, server process, web application | rows other components own; none | | | | (section 7) |

How they interact: requests pass the gateway, which reads what users, keys, roles
and systems are; handlers call the services, which write one row at a time
through repositories that get their connection from the router; the router
follows the lifecycle that provisioning writes. Account transactions append to the
outbox, reconciliation carries it over. Commands insert invalidations and enqueue
jobs; dispatch leases them; their handlers write the ledger. The uploader is a
client of ingestion; compaction and folding move what ingestion stored.

Several operations have no caller in the server yet: nothing in `pvlog` runs
`execute_one`, `reconcile_account`, `deprovision` or the purges on a schedule, and
the repositories of the archive, of alert states and of deliveries are traits
without an implementation. They are modelled for any callers that use them as
their signatures, comments and tests say.

## 2. Modules

Each module's header says what it models and what it leaves out. An action is one
call of a repository, that is, one statement or transaction, or one `await`;
calls of a request or a worker are split wherever another one can come between.

### Durable work

`JobQueue` models `account_jobs`, `YieldJobCoordinator::enqueue` and
`execute_one`. A row is a record of state, attempts, owner and two distances in
time (to `available_at`, to `lease_expires_at`); `line` keeps the order of
`available_at` that `lease_job` sorts by. Calls are split where the code awaits
between two statements: `EnqueueRead` / `EnqueueSave`; `Lease`, then the handler,
then `Complete` or `RetryRead` / `RetryWrite` / `RetryLeaseLost`. Because callers
read the clock before they wait for a permit or the writer lock, a lease may begin
with any part of it over. `Abandon` is a crash, a payload that does not decode or
an outcome that cannot be stored: the row stays leased. `revoked` is history: the
executions whose lease was taken from them by a cancellation or a racing enqueue.
`LeasedWork` says in five actions what the callers are promised: one holder,
takeover only after the hold lapsed, only the holder settles; `JobQueue` ends with the
mapping (`ImplementsLeasedWork`), which speaks of behaviours in which no two enqueue
calls are about to save one job (`Unraced`). `Dispatch` asks the
accounts' queues in the order of their ids, each as the number of jobs it could
lease.

`AccountProvisioning` follows one account: its status, lifecycle and lease, the
files at its active, temporary and quarantine paths, the lease inside the temporary
file, and calls of `provision`, `reconcile`, `deprovision` and of the sign-in that
provisions. Every management transaction and every file operation is an action; a
call keeps the lifecycle it read at its beginning (`seen`) and acts on it to the
end. A file is `blank`, `schema` (migrated), `bound` or `used` (holds data). Calls
crash, steps fail, leases lapse. `FirstSession` has the rest of what a first session
writes, on both engines, with the database reduced to two steps.

### Discovery

In `ProjectionOutbox` an action is one transaction of one database.
`ReservePrivacyInvalidation` hides a row before the account commits a reduction;
`Reduce` or `Recover` follow, or never do. A reconciliation goes through
`ReadSource`, `RecordSourceSequence`, `AppliedSequence`, `MarkDeliveredThrough`,
`Fetch`, and for each event `ApplyEvent` and `MarkDelivered`. `ApplyEvent` applies,
recognises a duplicate, or refuses a gap, a conflict or an unusable reservation. A
reconciliation holds a pooled connection through the fetch and asks for a second one,
as the code does; a request that reads can make it wait, and time out.
`ProjectedView` is the promise: every committed event takes effect exactly once, in
commit order, and in between rows may only be withdrawn.

### Yield

`YieldLedger` models the SQLite repositories of weather and calculation runs: inserts
with their foreign key, `SelectWeatherRun` and `InsertRun` as the two calls they are,
`InsertResultsAndProject` (the last writer's result becomes active), retention
classes, and purges that take a limited number of expired rows in order of expiry and
cascade. `Recalculation` models `pvlog forecast recalculate`: insert the invalidation,
read one pending invalidation that intersects, enqueue a job for it. An invalidation
*is* its range and a job *is* its set of ranges, because their ids are hashes of
those. The handler of rebuild jobs is not in the tree; what it must do is marked
external. `YieldModel` has the arithmetic from a provider's weather to the power and
energy of strings, inverters and systems: transposition, temperature, losses,
clipping, bounds, completeness and the basis of a comparison.

### Telemetry

`Ingestion`: admission by permits, atomic and best-effort batches, and the idempotent
insert with its answer, as one statement under the writer lock (SQLite) or as an
insert and a look at the row in its way (PostgreSQL), next to a request that is
dropped at any step and a compaction that takes rows away. `IdempotencyRecords`:
`store_idempotency` on both engines. `Archive`: one day on its way from hot rows to a
segment, with two compactors, a folder, late rows, corrections, deletions and
crashes; the merged read is the operator `Visible`, and what was accepted is `truth`.
`Uploader`: pages after a cursor, bounded retries, lost requests and replies, restarts;
the server is reduced to its idempotent atomic insert. `Readings`: units, validation
against the reading before, gaps and resets. `Queries`: plans and the check of
answers. `Summaries`: rollups, statistics, daily and lifetime summaries. `Walks` has what the
rules make of a sequence element by element; it stands in for two operators of `SequencesExt`,
whose bags would double the time each proof about the rules takes.

### Requests

`Gateway` follows one request from its credential to its handler, through every
check of the crates `api` and `application`, while sessions, keys, grants,
systems and account databases change between two reads; `Routes` is the table of
what each handler asks. `SignIn`, `Users`, `Identities`, `ApiTokens` and `Roles` split
each request into its repository calls; `Roles` has both deciders, the recursive
evaluator and the SQL. `SystemLifecycle` writes three rows in two databases with
compensation; `Equipment` replaces the strings of an inverter as a whole;
`EquipmentRules` has what needs no database. `PoolRouter` is the cache of pools with
its writer lanes, with two routers as the server makes several. `Alerts` and
`Webhooks` follow one rule and one delivery; `ProviderCircuit` one provider.

### MC modules and proofs

`MCYieldLedger`, `MCDurableWork`, `MCServices` and
`MCBackground` extend or instantiate the modules for TLC (`ProjectionOutbox` needs no more than
its `.cfg`). `Services` instantiates what requests
do, with its constants, state and properties; `Rules` does so for the rules that keep no state,
and says in named assumptions what they are asked about. `MCServices` extends both and has the
samples; the proofs extend one each. Components that share no row are
checked side by side: an initial state chooses a *half* and a behaviour exercises that
one alone, so the state space is the sum of the halves, and each half is what a
run of its own would be. A state of `Rules` is an input, and its behaviours stay with one.
Constants get their values in the `.cfg` files, or from an operator of the
MC module a `.cfg` names. Eight modules whose names end in `Proofs` hold the theorems: they extend
the very modules the runs check (`JobQueue`, `YieldLedger`, `ProjectionOutbox`, `MCDurableWork`,
`Services`, `Rules`, `MCBackground`), so that a theorem and a run speak of one formula.

## 3. Runs

**`JobQueue_safety`**: 2 tasks with own owner names, 2 jobs, 2 enqueue calls, lease 2,
delay 1, 2 attempts, 1 abandoned execution, 2 operator commands.
`LeaseExclusive`: two executions of a job overlap in their lease time only if one was
revoked. `RetryBudget`: the disposition agrees with the count the row has.
`RevokedRecordsNothing`: a revoked execution changes no row.

**`DurableWork_progress`**: the queue with one enqueue call and lease 1, and
provisioning with 2 calls that outlive leases, 1 crash and 1 failure.
`ImplementsLeasedWork`; `EveryJobSettles`, if from some point on no lease runs
out under a running handler; `ActiveHasDatabase`: an account that can be routed to has a
whole, verified database; `InterruptedEnds`: a provisioning does not stay half way.

**`ProjectionOutbox_safety`**: 1 system, 1 caller, 2 reconciliations, 3 connections,
batches of 2, 3 events, 1 reservation, 1 disturbance (a failure, or a request that
keeps a connection). `ImplementsProjectedView`; `CaughtUpRowsAreCurrent`; and under
fairness `EventsAreDelivered`, which says among the rest that no refusal, which
would repeat for ever, is ever met.

**`YieldLedger_safety`**: 2 weather runs, 2 calculation runs, 2 intervals, purges of 1
row, clock 0..2. `Explained`: what is shown or retained keeps its results and its weather
run; `ActiveResultsStay`; `RetentionDrains`: what expired and is not referred to goes.
And 2 commands over three ranges that touch, 1 death: `AnsweredIsRebuilt`.

**`Services_safety`**: 2 requests of each kind, in 15 halves; calls fail and die
between any two steps.

| Property | Says | Except |
|---|---|---|
| `SignInStands` | however sign-ins overlap, live sessions stay within the limit and none survives a recovery; the password last chosen stands | a sign-in that rehashes may put back what it verified; requests still to trim, or dead before it |
| `LastWayStays` | a user who could sign in still can | two overlapping unlinkings of one user (`overlapped`) |
| `OneLiveKey` | of keys rotated from one another one is live; a live key was given out | revocations that failed (`leftover`) |
| `AccessDecided` | inheritance stays valid; SQL lets through nothing the evaluator refuses | a role saved between another's decision and save (`raced`) |
| `CreatedIsWhole`, `NoLostUpdate` | a creation left row, registry entry and role, or none; no change overwrites what its caller has not seen | a removal that itself fails, and systems others changed meanwhile |
| `OneWriter` | one writer for each account through a router, within the pool limit | (not across routers, section 5) |
| `OneOpenEvent` | at most one open event per rule, recovered once, no new one inside the cooldown | an evaluation that commits over a newer state (`overtaken`) |
| `IngestedOnce` | stored and counted once; what a client is told is true, also after rows were archived | |
| `FirstResponseStands` | the first response under a key is replaced only after it expired | |
| `EffectsAreEarned` | a handler acts only on what was proved, granted, recorded and reachable at some moment of the request | |
| `AnsweredIsSeated` | whoever is answered has membership, roles, owner's role and database | |
| `DataSurvives` | a database with data is never overwritten, dropped or moved anywhere but to an empty place in quarantine | |
| `EquipmentStands` | deleted inverters stay deleted; a listing shows no older strings and no mixture; one setting is in effect | an edit that looked the inverter up before its deletion (`overtaken`); inserts side by side on PostgreSQL (`crossed`) |
| `UsersStand` | whoever is barred or unverified is not active, nothing is left of the deleted, an invitation sets one password, an administrator stays | an administrator ended in between ends another (`late`) |
| `EquipmentRulesHold` | a capacity snapshot holds until the boundary it names; what may be asked for can be stored; catalog pages miss nothing | |
| `ReadingsAreSound` | units lose nothing; counters go down only where a reset was declared; reported gaps are gaps | |
| `FiguresAddUp` | a plan is the finest that fits and is bounded; rollups partition, statistics combine, summaries add up; an estimate keeps its bounds and its basis | |

The exceptions are part of the statements: each names the one interleaving in which
the code does not keep the promise, and the property says that there is no other.

**`Background_progress`**: `CheckpointCovers`: the cursor never runs ahead of the
server; `CatchesUp`: everything is uploaded. `ReadsAreTrue`: through compaction, folding,
late rows, corrections and crashes a read returns each accepted observation once at its
last revision, as long as no worker outlives its lease. `MovesEnd`: compaction and
folding end, unless nothing is left of the day. `OutcomeIsEarned`: a dead letter was
refused as often as the limit says, a delivered one accepted once, unless a worker was
late or died or replays overlapped. `DeliveriesSettle`, `ProviderComesBack`,
`ServedInTurn`: progress of webhooks, of a provider that recovered, and of accounts
whose predecessors run out of jobs.

Six runs show a disagreement (section 4): `JobQueue_enqueue_race`
(`CompletedStaysCompleted`), `DurableWork_status` (`StatusFollowsLifecycle`),
`ProjectionOutbox_stale_upsert` (`PrivateStaysHidden`), `YieldLedger_recalculation`
(`AnsweredIsRebuilt`, with ranges that overlap), `Background_empty_fold`
(`EveryFoldEnds`), `Services_delegation` (`GrantsAreWorthIt`).

### Why the bounds are enough

*Job queue.* An overlap needs two executions of one job; what a third could do to
either, one of the two jobs, the abandoned execution or an operator's command
does already. A lease of 2 ticks has a beginning, a middle and an end. `AttemptCap` is
one above the limit: nothing in the code tells higher counts apart.
*Provisioning.* All steps of two calls interleave, with a crash and a failure at any of
them; three calls break `ActiveHasDatabase` (section 5). In `Services_safety` one of the two
deprovisions; that both may is proved (section 6).
*Projections.* Three events fill a batch of two and leave one; a publish, a
reservation and a recovery fit. Systems interact only through the sequence.
*Ledger.* Two calculations can take over each other's interval, share a weather run,
and fill a purge's limit; two steps of the clock let one row expire before another.
*Services.* Every race in these components is one of two requests, each of which reads
once and writes later; a third would read what one of the two wrote. Session limit 1
with 2 sessions, pool limit 1 with 2 accounts, 2 failures before a lock, 3 keys (two rotations),
debounce 1 and cooldown 2 within 5 ticks and 2 events, 2 idempotency hashes with lifetime 1:
each limit is met and crossed. Identities have 2 subjects (one with a withheld
address) and 4 users; roles 2 custom ones, so that a cycle can close; systems versions up
to 3 and 2 faults, so that the compensation fails too; batches carry a
reading, its retry, other values under its key, the same values at another time, and one
without a key; the gateway has an account of its own and a foreign one, a key for each
and one change on the way; users 2 administrators, 1 address, 3 users, 1 invitation;
equipment 1 inverter with 2 saves, and 2 overlapping setting periods that begin on different
days (more invitations, saves and periods are within the theorems of section 6).
*Rules.* 55,015 samples, at and next to each boundary a rule mentions.
*Background.* 3 times in batches of 2 with 2 attempts and a crash; 2 readings up
to revision 3 (written, corrected, corrected again while a fold is under way); 3 webhook
attempts, 2 replays, 2 losses; a circuit that opens after 2 failures; 3 accounts with
2 jobs each.

Requests of a kind in `Services_safety`, and tasks, jobs and enqueuers in
`JobQueue_safety`, are interchangeable: initial states and actions treat them alike, and
neither run checks liveness. `DataSurvives` and `FirstResponseStands` name no request, and
the two provisioning calls, which play different parts, are not among the permuted ones.

### Fairness

All of it is weak fairness, but for one action; nowhere is a particular choice among
competing steps assumed. *Queue*: workers poll (`Lease`), handlers return (`Report`),
enqueue calls run to their end, time passes. Operators act or not. *Provisioning*: a call
proceeds unless it crashes, leases lapse by the clock, and someone tries again (the user
signs in, or start-up reconciles). *Projections*: reconciliation is called again and
again, and a request that holds a connection ends. *Ledger*: the purges are called again
and again; *commands* run to their end unless they die, and jobs are worked off, which is
`EveryJobSettles`. *Uploader*: the poll timer, the process and systemd
(`Restart=on-failure`) keep going; `Send` is strongly fair, for a request that is repeated
for ever gets through in the end. *Archive*: a worker goes on, a dead one is started
again. *Webhooks*: workers go on, retry dates and leases pass. *Provider*: queries are
made and time passes. *Dispatch*: passes are begun and go on. Where nothing in the
server calls an operation yet, these are conditions on whoever will.

Deadlock is not checked: every one of these systems may come to rest (all jobs
settled, all bounds used up).

## 4. What the code does that it says it does not

1. *Racing enqueues run a job twice.* `enqueue` reads, then upserts; the later
   of two upserts sends even a completed job back to pending (`worker/src/lib.rs:335`).
2. *Status and lifecycle part.* Of two first sessions of a user, one saves status
   `provisioning` after the other has activated the account; `provision` returns early for
   an active registry entry and leaves it so, and the owner is denied everything
   (`pvlog/src/authentication.rs:1043`).
3. *A private system is shown again.* An upsert that was committed before a privacy
   reservation and is applied after it puts the row back
   (`storage/src/sqlite_projection.rs:641`).
4. *A recalculation is answered with another one's job.* The command enqueues a job for one
   pending invalidation that intersects its range; if that is not its own, its own is never
   carried out (`pvlog/src/main.rs:307`).
5. *A fold that leaves nothing never ends.* Once the last observation of an archived day is
   deleted, the replacement segment cannot be encoded, every retry fails alike, and later
   corrections of the day are not folded either (`storage/src/overlay_folding.rs:84`).
6. *Grants to others are worthless.* Requests are let through only for members of the
   account, an assignment makes nobody a member, and nothing else does
   (`storage/src/management_repository.rs:751`).

## 5. Observations without a run of their own

Formulas the modules state that do not hold, and that no run checks:

- `JobQueue.AttemptsBounded`: `lease_job` takes over an expired lease and counts another
  attempt without a look at `max_attempts`.
- `SignIn.ChangeEndsSessions`: a change of password revokes no session
  (`openspec/specs/identity-and-access/spec.md:194` says it does).
- `Identities.FinalWayStays`: two overlapping unlinkings leave a user without a way in.
- `PoolRouter.OneWriterInProcess`: the server makes several routers (`main.rs:394`, `:1013`,
  `notifications.rs:36`, `inverters.rs:41`, `reporting.rs:313`), each with its own writer lanes;
  writers of different routers meet in the file's lock.
- `Uploader.AggregatesAllRows`: a time whose inverter rows arrive one by one may be uploaded
  with some of them, and is not looked at again once the cursor has passed it.

Other things met on the way. *Durable work*: with a shared owner name a cancelled execution
can complete the job after it was leased again (hence `OwnNames`); a crash during a migration
leaves a lease inside the file for up to 15 minutes, and a retry in that time marks
the account unavailable; three overlapping provisioning calls, or a deprovisioning
next to one, can activate a partial database, because `mark_unavailable` clears the lease of
whoever holds it. *Discovery*: with a single pooled connection reconciliation delivers
nothing. *Yield*: after the recalculation of a range has completed, the same range can never
be recalculated again (`main.rs:289`). *Archive*: compaction never renews its lease
(`compaction.rs:74`); with workers that outlive it (`Outlives = TRUE`) rows are lost.
*Webhooks*: two overlapping replays can reset a delivered one. *Access*: a revoked owner
assignment is granted again at the next session; two administrators can disable each
other; an invitation accepted for a disabled user sets the password but leaves the user
disabled. *Equipment*: an edit that overlaps a deletion brings the inverter back; every
edit replaces the strings under new ids, which deletes their forecast settings; versions
are constant and no `If-Match` is asked for; an inverter that is not in effect now cannot be
edited, and a listing filtered by date that is sent back as an edit drops the strings not in
effect. *Figures*: `detect_missing_intervals` reports an empty interval at the end of a
complete series; self-consumption subtracts exports only where they were measured; weather
with global irradiance alone is accepted but cannot be transposed; derived power is not held
against the physical limit; a decreasing counter at the saturated reset sequence is accepted.
*HTTP*: the timeout, concurrency and size layers cover only the health routes; the
telemetry, forecasting and analytics routers are not mounted.

## 6. Proofs

What a run shows on one instance, these theorems show for every value of the constants.
TLAPS checks them with the SMT solver, Zenon and, for the temporal steps, LS4.

`JobQueueProofs`, from `ConstantsAssumption` (the policy's validation) and `OwnNames` (no two
tasks share an owner name): `SafetyInvariant`, `TypeCorrect`, `Exclusion`
(`LeaseExclusive`), `BudgetKept` (`RetryBudget`), `RevokedReportsNothing`
(`RevokedRecordsNothing`). `RetryBudget` is not inductive: a retry decides on the count it
read earlier. It needs `SeenIsCurrent` (while the row still names the task, the count it read
is the row's), which needs `RevokedNotNamed` (a revoked task is not the one the row names)
and `LiveLeaseRecorded` (a live, unrevoked execution is). `Exclusion` follows from
`LiveLeaseRecorded` and `OwnNames` alone: two live executions would both be named by one row.
`CompletedUnleased` is needed because `complete_job` is repeatable. There is one lemma per
action and `StepKeeps` puts them together.

From the same assumptions and `Unraced`: `QueueIsLeasedWork`
(`ImplementsLeasedWork`). The holder of a job is the task its row names, which is one task by
`OwnNames`. `QueueInv` adds to `SafetyInv` what the mapping needs: a job an enqueue call found
missing still is missing when it saves (`MissingIsAbsent`, which a race breaks), and nothing is
`failed` (`NothingFailed`), a state the code can name and never writes. Each action then is one
of `LeasedWork` or a stutter, action by action; `Unraced` cannot be dropped, as
`JobQueue_enqueue_race` shows.

`YieldLedgerProofs`, from `ConstantsAssumption`: `LedgerInvariant`, `ProvenanceKept`
(`Explained`), `ActiveResultsKept` (`ActiveResultsStay`). `Explained` is a property of steps.
A purge of calculation runs spares the projected and the kept ones by its own choice, but that
their *weather run* is spared takes the invariant: a projected interval has a result
(`ProjectedHasResult`), a run with results is there (`ResultsHaveRun`), and a run that is there
names a weather run that is there (`RunsHaveWeather`), which then is referenced.

`ProjectionOutboxProofs`, from `ConstantsAssumption`: `OutboxInvariant`, `AppliedInOrder` (the
refinement `ImplementsProjectedView`), `RowsCatchUp` (`CaughtUpRowsAreCurrent`), `NoRefusal`.
The heart of `OutboxInv` is `Applied`: the inbox is exactly the events up to `applied`, and only
those are marked. `RowsFollow` says that a row is what the last applied event of its system
says, so that no event finds a newer row; `Told` relates the account's state to its last event,
and the two meet when everything is applied. `Claims`, `Uses` and `Resolved` follow a reservation
from the request that made it to the one event that names it and to its application, which is
why a reducing event never finds its reservation missing or resolved by another. `Positions`
says where a reconciliation may be; overlapping ones share nothing else. With these, an
`ApplyEvent` is a step of `ProjectedView` and every other action withdraws a row or stutters.
`NoRefusal` is the safety half of `EventsAreDelivered`.

`ProvisioningProofs`, from `TwoCalls` (two calls at a time, nobody deprovisions, which nothing in
the server does): `ProvisioningInvariant`, `RoutedAreWhole` (`ActiveHasDatabase`). Neither lease
is what keeps the file whole, since both run out under a slow call. `CallHolds` says what does:
whoever is past verification has a verified file, or the other call has put one in place; then
nobody builds a second one, because building begins with a look at the active path. A third
call, already building, makes this false, and TLC finds the partial database 38 steps deep.

`StorageProofs`, one section for each component, for any number of requests:

- *Systems*, from `FleetConstants` (an identifier is not the mark for none): `CreationIsWhole`
  (`CreatedIsWhole`), `UpdatesKept` (`NoLostUpdate`). `Creation` says that one request creates a
  system and that its program counter tells which of the three rows are there; `Told` what each
  outcome says of them; `Seen` that the version a save carries is neither above the row nor
  below what the caller expects, so that a save that finds it unchanged replaces nothing newer.
- *Pools*, from `RouterLimits` (they are numbers): `WritersExclude` (`OneWriter`). The lane belongs
  to a pool, not to an account, so one writer for an account takes that its tasks share a pool:
  `HandlesHold` says that a handle is of the pool its router has for the account now, which holds
  because nothing evicts a pool that is referred to. A router that refuses had no pool to evict:
  numbers have a least one (`Least`), so there is an oldest unreferenced pool whenever there is
  one at all.
- *Account databases*, from `TwoProcs`: `DataKept` (`DataSurvives`), from a first provisioning or
  from an account at work, whichever of the two calls deprovision. `RenamesNothing`: while a
  file is in place whoever is about to rename finds nothing to rename. `MovesNothing`: who is about
  to move a file to a quarantine that was filled since they looked finds none, because the other
  call marked the account as deleting before it moved (`BothVacate`), and nothing provisions that.
- *Idempotency records*, for any lifetime: `FirstResponseKept` (`FirstResponseStands`).
- *Alerts*, for any debounce and cooldown: `EventsStand` (`OneOpenEvent`). The order of events is
  that of their numbers, so the property needs what the state remembers of the last one
  (`LastRemembered`), and all of it needs that no evaluation was overtaken.
- *Ingestion*, for any batches that are not empty: `IngestionStands` (`IngestedOnce`). That an answer
  stays true is inductive because what was accepted stays, hot or archived; that each row
  invalidates its day once is a fact about sequences, of which archiving moves an element from
  one to the other (`DaysJoin` and the lemmas after it).
- *Equipment*, from `EquipmentConstants` (dates and periods are of numbers): `EquipmentKept`
  (`EquipmentStands`). A listing reads rows first and strings later: `EditHolds` says that strings
  are never older than the rows a request has read, which makes a mixture impossible.

`AccessProofs`, likewise:

- *Users*, from `UserConstants` (addresses are not empty, administrators are some and distinct):
  `UsersSound` (`UsersStand`). `RowsHold` keeps addresses unique and deleted rows empty; `Barred`
  says that whoever was disabled is disabled or deleted, which no invitation changes because it
  lets in only invited users. `AdministratorStays` is inductive because nobody ends themselves:
  who ends another is still active unless they are in `late`.
- *Identities*, for finitely many subjects: `WaysStay` (`LastWayStays`). The count an unlinking
  makes is of a set (`LinksCount`): more than one link, or a password, leaves another way
  (`Spared`), and as long as unlinkings do not overlap nobody takes that one.
- *Keys*, without assumptions: `KeysStand` (`OneLiveKey`). `OneOfARoot`: the revocation is what two
  rotations race for, and the one that wins holds the root's place until its successor is issued.
- *Gateway*, from `GatewayConstants` (the words for credentials are no keys): `OnlyWhatIsEarned`
  (`EffectsAreEarned`). `Earned` gathers, stage by stage, what the checks passed so far have found;
  it covers every entry of the table in `Routes`, through the kinds of guards that table uses.
- *Sign-in*, for finitely many requests: `SignInsStand` (`SignInStands`). The limit is kept by a
  count: live sessions are at most the limit, plus one for each request about to trim or dead
  before it (`SeatsHold`), which takes that times tell sessions apart.
- *First session*, without assumptions: `AnsweredOwn` (`AnsweredIsSeated`). How far a session came
  says what is there by then (`Reached`), whoever wrote it.

- *Roles*, from `RoleConstants` (finitely many roles, custom ones under ids of their own; what nobody
  revokes is of built-in roles): `AccessIsDecided` (`AccessDecided`). The evaluator descends through what a role inherits from and
  gives up where it meets a role again; that it resolves is said without walking: every set of
  roles has one that inherits from none of the set (`Rooted`). A saved role keeps that, because its
  own evaluation did not meet it again (`SaveIsRooted`), unless another was saved in between; and
  what is rooted resolves, by induction over the sets of roles still to be visited.

`RulesProofs`, from the assumptions of `Rules`, which TLC evaluates on the samples:
`EquipmentRulesInvariant` (`EquipmentRulesHold`), `ReadingsInvariant` (`ReadingsAreSound`),
`FiguresInvariant` (`FiguresAddUp`). A behaviour stays with one input, so each is a theorem about
operators for every input of a kind, by the rule. They share three lemmas about recursion, got
from the well-foundedness of the numbers (`EveryNumber`): a fold over a finite set is the sum,
whatever order it goes in (`SumsAgree`, `SumAdds`, `SumMoved`, `SumOfRows`); a fold along a sequence is the
last stage of a walk that exists (`StagesExist`); and what `CHOOSE` enumerates is an enumeration
(`InSomeOrderIs`).

- *Equipment* (`EquipmentConstants`: dates and powers are numbers, versions are finitely many, what
  the catalog serves has a manufacturer). Nothing begins or ends before the next boundary, so what is
  in effect, and what is missing, stays. Matches can be put in the order of their ids, and pages of
  a sequence come to the sequence, one page longer at a time.
- *Readings* (`ReadingConstants`: amounts are whole). An accepted reading is given by the one before it
  (`Accepted`), so what is derived between two is a quotient of what the counter went up, off by less
  than its divisor; differences telescope, and a gap is the run of missing intervals between
  two neighbours.
- *Queries* (`QueryConstants`: times are numbers; any run of buckets falls short of what they are taken
  to be by one bucket at most, which months, leap days and clock changes satisfy). Buckets within a
  range are an interval of numbers, so that a plan's estimate bounds their count.
- *Rollups, statistics, summaries* (`SummaryConstants`: samples and windows are in order, amounts are
  numbers or not measured). A walk over the windows keeps (`WalkHolds`): what was taken so far are the
  samples before the window's end, it is well if each falls in a window, and the rollups so far have
  the sums, counts, extremes and at most the coverage of what was taken. So samples outside all
  windows are noticed, and a day is what its hours come to. Statistics of a year split where totals
  do (`TotalJoined`), and ratios of sums lie between ratios (`RatioIsBetween`).
- *Yield model* (`ModelConstants`: ratios are at most the whole, a calibration takes away no more than
  that, powers are not negative). Each stage of a string keeps the order of its inputs
  (`RoundedIsMonotone`, `LossesKeepOrder`, `CalibratedKeepsOrder`), so bounds stay around the estimate; and a
  sum over inverters of sums over strings is one over all of them (`SumOfRows`), so that what is
  forecast and what is missing come to the whole.

`BackgroundProofs`:

- *Archive*, from `WorkersStop` (a worker stops when its lease passes on, which the code
  does not enforce, section 5): `ArchiveInvariant`, `ReadsStayTrue` (`ReadsAreTrue`). The data
  half of `ArchiveInv` numbers the writes and says where the last one of each observation is: in
  its hot row, which then has no overlay (`HotIsTrue`), in its last overlay (`CorrectedIsTrue`), or
  in the segment (`ArchivedIsTrue`). The worker half says that one compaction and one fold are
  under way at a time and that the recorded phase tells how far each is. They meet where something
  is deleted: hot rows go only once the segment has them at the same revision, and overlays only
  once an attempt that replaced the segment with them in it has been recorded, also when a crash
  made it replace the segment twice.
- *Uploader*, from `UploadBounds` (they are numbers): `CheckpointKept` (`CheckpointCovers`). A page
  has the readings after the cursor without a gap (`BatchHolds`), so that moving the cursor to its
  last one skips none; and a reading is the same whenever it is read, unless times arrive out of
  order, which the property excepts.
- *Webhooks*, from `AttemptsAllowed` (the limit is not zero; the code's `u16` may be, and zero then
  behaves as one): `OutcomesEarned` (`OutcomeIsEarned`). As long as nothing was lost one worker
  holds the delivery, as it is stored (`Handled`).

The proofs found places where models or properties said other than the code: the distance of two
events in `OneOpenEvent`, which an evaluation that took the time before another committed makes
shorter than was stated; `InsertAtomic` of `Ingestion`, which now sees only the rows of its own
batch that were really inserted; a lease of `Webhooks` that runs out with no sender, which counts
as no loss; guards of `AccountProvisioning` and `Gateway` that overlapped in a `CASE`; and the calendar
`Queries` rests on, which the day on which clocks are set forward falls short of.

Only model-checked, and why. Liveness (`EveryJobSettles`, `InterruptedEnds`, `EventsAreDelivered`,
`RetentionDrains`, `AnsweredIsRebuilt`, `CatchesUp`, `MovesEnd`, `DeliveriesSettle`, `ProviderComesBack`,
`ServedInTurn`) and `ENABLED` are out of the prover's reach, and so is a recursive operator: the
evaluator of `Roles` and the folds of the rules are written as recursive functions and as folds of
the library for that reason. Every safety invariant and refinement the passing runs check is the
statement of a theorem; what the theorems assume of the callers (`OwnNames`, `Unraced`,
`WorkersStop`, `TwoCalls`, `TwoProcs`) the runs assume too. Theorems keep the exceptions of the properties they state (section 3).

## 7. Not modelled

Of the modelled components: priorities of jobs (all are saved with 0); the quarantine of
orphaned files and the migration of existing databases at start-up; the location fields of
projections; the `state` column of calculation runs, which nothing reads; the PostgreSQL purge
of the ledger, which chooses its rows on a snapshot (`yield_result_repository.rs:1563`), so that
a run retained or projected at that moment may still be deleted; cookies, listings and names of
users; instance roles, expiring assignments and the rate limit of keys; checkpoints and probes
of pools; rendering and signing of notifications; the providers' formats; the position of the
sun, which is trigonometry; comparisons of systems, cursors and exports; channels, tariffs and
locations, which are rows without further rules; bundles of the operator; backups; the bytes and
checksums of segments, and the integrity planner, which lists repairs and makes none.

Not modelled at all: the server process (configuration, wiring, start-up: input and output)
and the web application (presentation over the HTTP interface, with no state the server
relies on). The management store is modelled where the other components use it. The handlers
of rebuild jobs, of rollups and of alert notifications are not in the tree.

## 8. What could follow

1. The PostgreSQL purge as a variant of `YieldLedger`.
2. A theorem for the account of `JobQueue` under a shared owner name, in place of `OwnNames`.
3. The repositories that are traits today (archive, alert states, deliveries), once they have
   implementations, in place of what their signatures promise.
