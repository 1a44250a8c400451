------------------------------ MODULE Archive ------------------------------
(***************************************************************************)
(* One system day on its way from hot rows to a segment, while readings    *)
(* still arrive and are corrected: leased compaction (compaction.rs),      *)
(* folding of overlays into the segment (overlay_folding.rs), corrections  *)
(* (observation_correction.rs), and the merged read (merged_reader.rs)     *)
(* through which the day is seen.  Every await is a step.  The             *)
(* repositories are traits without an implementation in the tree: their    *)
(* operations do what the traits' comments and test doubles say, and       *)
(* "redundant" hot rows are those the segment holds at the same revision.  *)
(***************************************************************************)
EXTENDS Naturals, FiniteSets, Functions

CONSTANTS
  Ids,             \* observations of the day
  Compactors,      \* workers with the compaction job
  Folders,         \* workers with the folding job
  MaxRevision,     \* bound on accepted writes
  MaxCrashes,      \* bound on crashes
  Outlives         \* whether a worker may go on after its lease has passed on

VARIABLES
  revision,    \* number of accepted writes; each write is known by its number
  rows,        \* hot rows: observation -> [rev, deleted]
  segment,     \* the archived segment: observation -> revision
  generation,  \* of the segment
  rollups,     \* the segment content the rollups were built from
  overlays,    \* correction overlays: [id, rev, deleted]
  truth,       \* history: the last accepted write of each observation
  phase,       \* compaction phase of the day
  lease,       \* holder of the compaction lease
  fold,        \* persisted fold attempt: [phase, gen, mark]
  folder,      \* worker whose job the fold is
  worker,      \* what each worker is doing
  fix,         \* a correction under way: what it has read
  crashes

archive == <<rows, segment, generation, rollups, overlays>>
vars == <<revision, rows, segment, generation, rollups, overlays, truth,
          phase, lease, fold, folder, worker, fix, crashes>>

Workers == Compactors \cup Folders
Nobody == "nobody"
Idle == [pc |-> "idle", phase |-> "Pending", points |-> <<>>, gen |-> 0, mark |-> 0]
NoFix == [id |-> "none", rev |-> 0, archived |-> FALSE]

Init ==
  /\ revision = 0
  /\ rows = <<>> /\ segment = <<>> /\ generation = 0 /\ rollups = <<>>
  /\ overlays = {}
  /\ truth = <<>>
  /\ phase = "Pending" /\ lease = Nobody
  /\ fold = [phase |-> "Completed", gen |-> 0, mark |-> 0] /\ folder = Nobody
  /\ worker = [w \in Workers |-> Idle]
  /\ fix = NoFix
  /\ crashes = 0

----------------------------------------------------------------------------
\* The merged read: overlay before hot before segment, the highest revision
\* of a source, tombstones last of all left out.
OverlaysOf(i, mark) == {o \in overlays : o.id = i /\ o.rev <= mark}
TopOverlay(i, mark) == CHOOSE o \in OverlaysOf(i, mark) : \A p \in OverlaysOf(i, mark) : p.rev <= o.rev

Candidate(i) ==
  IF OverlaysOf(i, revision) # {} THEN [rev |-> TopOverlay(i, revision).rev, deleted |-> TopOverlay(i, revision).deleted]
  ELSE IF i \in DOMAIN rows THEN rows[i]
  ELSE IF i \in DOMAIN segment THEN [rev |-> segment[i], deleted |-> FALSE]
  ELSE [rev |-> 0, deleted |-> TRUE]

Visible == {<<i, Candidate(i).rev>> : i \in {j \in Ids : ~Candidate(j).deleted}}

----------------------------------------------------------------------------
Put(f, i, write) == [j \in DOMAIN f \cup {i} |-> IF j = i THEN write ELSE f[j]]

\* A reading is accepted, on time or late.
Arrive(i) ==
  /\ i \notin DOMAIN truth /\ revision < MaxRevision
  /\ revision' = revision + 1
  /\ rows' = Put(rows, i, [rev |-> revision', deleted |-> FALSE])
  /\ truth' = Put(truth, i, [rev |-> revision', deleted |-> FALSE])
  /\ UNCHANGED <<segment, generation, rollups, overlays, phase, lease, fold, folder, worker, fix, crashes>>

\* CorrectionService::correct reads the observation, ..
ReadForCorrection(i) ==
  /\ fix = NoFix /\ i \in DOMAIN truth /\ revision < MaxRevision
  /\ fix' = [id |-> i, rev |-> Candidate(i).rev, archived |-> i \notin DOMAIN rows]
  /\ UNCHANGED <<revision, archive, truth, phase, lease, fold, folder, worker, crashes>>

\* .. and replaces the hot row or appends an overlay, if its version is still
\* the expected one; otherwise the correction ends in a conflict.
Correct(deleted) ==
  /\ fix # NoFix
  /\ LET i == fix.id
         write == [rev |-> revision + 1, deleted |-> deleted]
         applies == IF fix.archived THEN Candidate(i).rev = fix.rev
                    ELSE i \in DOMAIN rows /\ rows[i].rev = fix.rev
     IN IF applies
        THEN /\ revision' = revision + 1
             /\ truth' = [truth EXCEPT ![i] = write]
             /\ IF fix.archived
                THEN overlays' = overlays \cup {[id |-> i, rev |-> revision + 1, deleted |-> deleted]} /\ UNCHANGED rows
                ELSE rows' = [rows EXCEPT ![i] = write] /\ UNCHANGED overlays
        ELSE UNCHANGED <<revision, truth, rows, overlays>>
  /\ fix' = NoFix
  /\ UNCHANGED <<segment, generation, rollups, phase, lease, fold, folder, worker, crashes>>

----------------------------------------------------------------------------
\* Compaction.

\* What a worker does next for the phase it has reached.
WorkOf(p) ==
  CASE p = "Pending" -> "points"      [] p = "SegmentWritten" -> "rollups"
    [] p = "RollupsWritten" -> "verify" [] p = "Verified" -> "delete"
    [] p = "HotRowsDeleted" -> "complete" [] OTHER -> "release"

\* The lease is free, was left by a worker that died, or has run out.
Acquire(w) ==
  /\ worker[w].pc = "idle" /\ phase # "Completed"
  /\ \/ lease = Nobody \/ Outlives
     \/ lease \in Workers /\ worker[lease].pc = "dead"
  /\ DOMAIN truth # {}
  /\ lease' = w
  /\ worker' = [worker EXCEPT ![w] = [Idle EXCEPT !.pc = WorkOf(phase), !.phase = phase]]
  /\ UNCHANGED <<revision, archive, truth, phase, fold, folder, fix, crashes>>

\* The stable points, and their encoding, which refuses an empty segment.
StablePoints(w) ==
  /\ worker[w].pc = "points"
  /\ LET points == [i \in {j \in DOMAIN rows : ~rows[j].deleted} |-> rows[i].rev] IN
     worker' = [worker EXCEPT ![w].pc = IF DOMAIN points = {} THEN "release" ELSE "segment",
                              ![w].points = points]
  /\ UNCHANGED <<revision, archive, truth, phase, lease, fold, folder, fix, crashes>>

Reach(w, p) == worker' = [worker EXCEPT ![w].pc = "advance", ![w].phase = p]

WriteSegment(w) ==
  /\ worker[w].pc = "segment"
  /\ segment' = worker[w].points
  /\ generation' = generation + 1
  /\ Reach(w, "SegmentWritten")
  /\ UNCHANGED <<revision, rows, rollups, overlays, truth, phase, lease, fold, folder, fix, crashes>>

WriteRollups(w) ==
  /\ worker[w].pc = "rollups"
  /\ rollups' = segment
  /\ Reach(w, "RollupsWritten")
  /\ UNCHANGED <<revision, rows, segment, generation, overlays, truth, phase, lease, fold, folder, fix, crashes>>

\* A failed verification is an error: the phase stays, the lease is released.
Verify(w) ==
  /\ worker[w].pc = "verify"
  /\ IF rollups = segment THEN Reach(w, "Verified")
     ELSE worker' = [worker EXCEPT ![w].pc = "release"]
  /\ UNCHANGED <<revision, archive, truth, phase, lease, fold, folder, fix, crashes>>

\* (mutant: every hot row of the range is deleted)
DeleteAllRows(w) ==
  /\ worker[w].pc = "delete"
  /\ rows' = <<>>
  /\ Reach(w, "HotRowsDeleted")
  /\ UNCHANGED <<revision, segment, generation, rollups, overlays, truth, phase, lease, fold, folder, fix, crashes>>

DeleteHotRows(w) ==
  /\ worker[w].pc = "delete"
  /\ rows' = Restrict(rows, {i \in DOMAIN rows : ~(i \in DOMAIN segment /\ segment[i] = rows[i].rev)})
  /\ Reach(w, "HotRowsDeleted")
  /\ UNCHANGED <<revision, segment, generation, rollups, overlays, truth, phase, lease, fold, folder, fix, crashes>>

Complete(w) ==
  /\ worker[w].pc = "complete"
  /\ Reach(w, "Completed")
  /\ UNCHANGED <<revision, archive, truth, phase, lease, fold, folder, fix, crashes>>

\* advance carries no owner.
Advance(w) ==
  /\ worker[w].pc = "advance"
  /\ phase' = worker[w].phase
  /\ worker' = [worker EXCEPT ![w].pc = WorkOf(worker[w].phase)]
  /\ UNCHANGED <<revision, archive, truth, lease, fold, folder, fix, crashes>>

\* (mutant: the lease kept)
ReleaseNothing(w) ==
  /\ worker[w].pc = "release"
  /\ worker' = [worker EXCEPT ![w] = Idle]
  /\ UNCHANGED <<revision, archive, truth, phase, lease, fold, folder, fix, crashes>>

Release(w) ==
  /\ worker[w].pc = "release"
  /\ lease' = IF lease = w THEN Nobody ELSE lease
  /\ worker' = [worker EXCEPT ![w] = Idle]
  /\ UNCHANGED <<revision, archive, truth, phase, fold, folder, fix, crashes>>

----------------------------------------------------------------------------
\* Folding.  prepare arms an attempt when none is open: the generation of the
\* segment and the revision up to which overlays belong to the attempt.
WorkOfFold(p) ==
  CASE p = "Pending" -> "merge" [] p = "SegmentReplaced" -> "sweep" [] OTHER -> "complete fold"

Prepare(w) ==
  /\ worker[w].pc = "idle"
  /\ overlays # {} \/ fold.phase # "Completed"
  /\ \/ folder = Nobody \/ Outlives
     \/ folder \in Workers /\ worker[folder].pc = "dead"
  /\ folder' = w
  /\ fold' = IF fold.phase = "Completed"
             THEN [phase |-> "Pending", gen |-> generation, mark |-> revision] ELSE fold
  /\ worker' = [worker EXCEPT ![w] = [Idle EXCEPT !.pc = WorkOfFold(fold'.phase), !.phase = fold'.phase,
                                      !.gen = fold'.gen, !.mark = fold'.mark]]
  /\ UNCHANGED <<revision, archive, truth, phase, lease, fix, crashes>>

\* The segment under the overlays of the attempt.
Merged(mark) ==
  LET with == {i \in Ids : OverlaysOf(i, mark) # {}}
      kept == {i \in with \cup DOMAIN segment : i \in with => ~TopOverlay(i, mark).deleted}
  IN [i \in kept |-> IF i \in with THEN TopOverlay(i, mark).rev ELSE segment[i]]

\* Nothing left to encode is an error, and the attempt stays open.
MergedPoints(w) ==
  /\ worker[w].pc = "merge"
  /\ IF DOMAIN Merged(worker[w].mark) = {}
     THEN worker' = [worker EXCEPT ![w] = Idle] /\ folder' = IF folder = w THEN Nobody ELSE folder
     ELSE /\ worker' = [worker EXCEPT ![w].pc = "replace", ![w].points = Merged(worker[w].mark)]
          /\ UNCHANGED folder
  /\ UNCHANGED <<revision, archive, truth, phase, lease, fold, fix, crashes>>

\* replace_segment: only at the expected generation; a replay of what was
\* installed succeeds; anything else is a GenerationConflict.
ReplaceSegment(w) ==
  /\ worker[w].pc = "replace"
  /\ IF generation = worker[w].gen
     THEN /\ segment' = worker[w].points /\ generation' = generation + 1
          /\ worker' = [worker EXCEPT ![w].pc = "advance fold", ![w].phase = "SegmentReplaced"]
          /\ UNCHANGED folder
     ELSE /\ IF generation = worker[w].gen + 1 /\ segment = worker[w].points
             THEN worker' = [worker EXCEPT ![w].pc = "advance fold", ![w].phase = "SegmentReplaced"] /\ UNCHANGED folder
             ELSE worker' = [worker EXCEPT ![w] = Idle] /\ folder' = IF folder = w THEN Nobody ELSE folder
          /\ UNCHANGED <<segment, generation>>
  /\ UNCHANGED <<revision, rows, rollups, overlays, truth, phase, lease, fold, fix, crashes>>

DeleteOverlaysThrough(w) ==
  /\ worker[w].pc = "sweep"
  /\ overlays' = {o \in overlays : o.rev > worker[w].mark}
  /\ worker' = [worker EXCEPT ![w].pc = "advance fold", ![w].phase = "OverlaysDeleted"]
  /\ UNCHANGED <<revision, rows, segment, generation, rollups, truth, phase, lease, fold, folder, fix, crashes>>

\* advance(key, phase) carries neither owner nor attempt.
AdvanceFold(w) ==
  /\ \/ worker[w].pc = "advance fold" \/ worker[w].pc = "complete fold"
  /\ LET p == IF worker[w].pc = "complete fold" THEN "Completed" ELSE worker[w].phase IN
     /\ fold' = [fold EXCEPT !.phase = p]
     /\ IF p = "Completed"
        THEN worker' = [worker EXCEPT ![w] = Idle] /\ folder' = IF folder = w THEN Nobody ELSE folder
        ELSE worker' = [worker EXCEPT ![w].pc = WorkOfFold(p)] /\ UNCHANGED folder
  /\ UNCHANGED <<revision, archive, truth, phase, lease, fix, crashes>>

----------------------------------------------------------------------------
\* A worker dies; its leases run out and the process comes back.
Crash(w) ==
  /\ crashes < MaxCrashes /\ worker[w].pc \notin {"idle", "dead"}
  /\ crashes' = crashes + 1
  /\ worker' = [worker EXCEPT ![w] = [Idle EXCEPT !.pc = "dead"]]
  /\ UNCHANGED <<revision, archive, truth, phase, lease, fold, folder, fix>>

Revive(w) ==
  /\ worker[w].pc = "dead"
  /\ worker' = [worker EXCEPT ![w] = Idle]
  /\ lease' = IF lease = w THEN Nobody ELSE lease
  /\ folder' = IF folder = w THEN Nobody ELSE folder
  /\ UNCHANGED <<revision, archive, truth, phase, fold, fix, crashes>>

Compaction(w) ==
  \/ Acquire(w) \/ StablePoints(w) \/ WriteSegment(w) \/ WriteRollups(w) \/ Verify(w)
  \/ DeleteHotRows(w) \/ Complete(w) \/ Advance(w) \/ Release(w)

Folding(w) ==
  \/ Prepare(w) \/ MergedPoints(w) \/ ReplaceSegment(w) \/ DeleteOverlaysThrough(w) \/ AdvanceFold(w)

Next ==
  \/ \E i \in Ids : Arrive(i) \/ ReadForCorrection(i)
  \/ \E deleted \in BOOLEAN : Correct(deleted)
  \/ \E w \in Compactors : Compaction(w)
  \/ \E w \in Folders : Folding(w)
  \/ \E w \in Workers : Crash(w) \/ Revive(w)

\* A worker that runs goes on, a dead one is started again.
Fairness ==
  /\ \A w \in Compactors : WF_vars(Compaction(w) \/ Revive(w))
  /\ \A w \in Folders : WF_vars(Folding(w) \/ Revive(w))

Spec == Init /\ [][Next]_vars /\ Fairness

----------------------------------------------------------------------------
Truth == {<<i, truth[i].rev>> : i \in {j \in DOMAIN truth : ~truth[j].deleted}}

\* Through every step of compaction and folding, late rows, corrections and
\* crashes, a read returns every accepted observation once, at its last
\* accepted revision, and nothing that was deleted.  It needs workers that stop
\* when their lease passes on: compact never renews it, and neither
\* write_segment nor advance names its owner.
ReadsAreTrue == Visible = Truth

\* Moves of a day end, whatever crashed: a compaction that was begun, unless
\* every reading of the day is deleted before its points are read, and a fold,
\* unless what it would leave is empty.
MovesEnd ==
  /\ lease # Nobody ~> phase = "Completed" \/ Truth = {}
  /\ fold.phase # "Completed" ~> fold.phase = "Completed" \/ DOMAIN Merged(fold.mark) = {}

\* Any fold that was begun ends: the service resumes it idempotently.
EveryFoldEnds == fold.phase # "Completed" ~> fold.phase = "Completed"
=============================================================================
