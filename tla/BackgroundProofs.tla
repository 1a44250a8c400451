-------------------------- MODULE BackgroundProofs --------------------------
(***************************************************************************)
(* What runs behind the requests: reads of a day are true for any          *)
(* observations, workers, writes and crashes, as long as workers stop when *)
(* their lease passes on; the uploader's checkpoint covers what it says;   *)
(* and a delivery ends for the reasons the limit gives.                    *)
(***************************************************************************)
EXTENDS MCBackground, FiniteSetTheorems, WellFoundedInduction, TLAPS

(* Workers stop when their lease passes on, and none is the mark for none.  *)
WorkersStop == ~Outlives /\ Nobody \notin Workers

Compacting == {"points", "segment", "rollups", "verify", "delete", "complete", "advance", "release"}
FoldSteps == {"merge", "replace", "sweep", "advance fold", "complete fold"}
Writes == [rev : Nat, deleted : BOOLEAN]
Overlays == [id : Ids, rev : Nat, deleted : BOOLEAN]
Segments == UNION {[S -> Nat] : S \in SUBSET Ids}
DayPhases == {"Pending", "SegmentWritten", "RollupsWritten", "Verified", "HotRowsDeleted", "Completed"}
FoldPhases == {"Pending", "SegmentReplaced", "OverlaysDeleted", "Completed"}
WorkerState == [pc : Compacting \cup FoldSteps \cup {"idle", "dead"}, phase : DayPhases \cup FoldPhases,
                points : Segments, gen : Nat, mark : Nat]

-----------------------------------------------------------------------------
(* The data: hot rows, segment, overlays and what was accepted.             *)

DataTyped ==
  /\ revision \in Nat /\ segment \in Segments /\ overlays \subseteq Overlays
  /\ DOMAIN truth \subseteq Ids /\ truth \in [DOMAIN truth -> Writes]
  /\ DOMAIN rows \subseteq Ids /\ rows \in [DOMAIN rows -> Writes]
  /\ fix = NoFix \/ fix \in [id : Ids, rev : Nat, archived : BOOLEAN]

(* What was read of the rows is numbered, was accepted, and is not the      *)
(* number of a deletion.                                                    *)
Agrees(points) ==
  \A i \in DOMAIN points :
    /\ points[i] <= revision /\ i \in DOMAIN truth
    /\ i \in DOMAIN rows /\ rows[i].rev = points[i] => ~rows[i].deleted

(* Every write has a number of its own.                                     *)
Numbered ==
  /\ \A i \in DOMAIN truth : truth[i].rev <= revision
  /\ \A o \in overlays : o.rev <= revision
  /\ \A o, p \in overlays : o.id = p.id /\ o.rev = p.rev => o = p
  /\ Agrees(segment)

(* The last write of an observation is its hot row, which then has no       *)
(* overlay; or its last overlay; or what the segment has.                   *)
HotIsTrue ==
  \A i \in DOMAIN rows : i \in DOMAIN truth /\ rows[i] = truth[i] /\ \A o \in overlays : o.id # i
IsTrue(o) == o.id \in DOMAIN truth /\ truth[o.id] = [rev |-> o.rev, deleted |-> o.deleted]
CorrectedIsTrue ==
  \A o \in overlays : \E p \in overlays : p.id = o.id /\ o.rev <= p.rev /\ IsTrue(p)
ArchivedIsTrue ==
  \A i \in DOMAIN truth \ DOMAIN rows :
    (\A o \in overlays : o.id # i) =>
      IF truth[i].deleted THEN i \notin DOMAIN segment
      ELSE i \in DOMAIN segment /\ segment[i] = truth[i].rev

(* A row that was gone when a correction read it does not come back.        *)
FixHolds == fix # NoFix => fix.id \in DOMAIN truth /\ (fix.archived => fix.id \notin DOMAIN rows)

DataInv ==
  DataTyped /\ Numbered /\ HotIsTrue /\ CorrectedIsTrue /\ ArchivedIsTrue /\ FixHolds

-----------------------------------------------------------------------------
(* The workers.                                                             *)

(* One compaction at a time, where the day's phase says it is.              *)
Position(q) ==
  \/ q.pc \in {"points", "segment"} /\ phase = "Pending"
  \/ q.pc = "rollups" /\ phase = "SegmentWritten"
  \/ q.pc = "verify" /\ phase = "RollupsWritten"
  \/ q.pc = "delete" /\ phase = "Verified"
  \/ q.pc = "complete" /\ phase = "HotRowsDeleted"
  \/ q.pc = "advance" /\ \/ phase = "Pending" /\ q.phase = "SegmentWritten"
                         \/ phase = "SegmentWritten" /\ q.phase = "RollupsWritten"
                         \/ phase = "RollupsWritten" /\ q.phase = "Verified"
                         \/ phase = "Verified" /\ q.phase = "HotRowsDeleted"
                         \/ phase = "HotRowsDeleted" /\ q.phase = "Completed"
  \/ q.pc = "release"

CompactorHolds(w) ==
  worker[w].pc \in Compacting =>
    lease = w /\ Position(worker[w]) /\ (worker[w].pc = "segment" => Agrees(worker[w].points))

(* One fold at a time, where the attempt's phase says it is.                *)
FoldPosition(q) ==
  \/ q.pc \in {"merge", "replace"} /\ fold.phase = "Pending"
  \/ q.pc = "sweep" /\ fold.phase = "SegmentReplaced"
  \/ q.pc = "complete fold" /\ fold.phase = "OverlaysDeleted"
  \/ q.pc = "advance fold" /\ \/ fold.phase = "Pending" /\ q.phase = "SegmentReplaced"
                              \/ fold.phase = "SegmentReplaced" /\ q.phase = "OverlaysDeleted"

(* The last overlay of an attempt; points that have all of them; and those  *)
(* that are the segment otherwise.                                          *)
Top(o, i, mark) == o \in OverlaysOf(i, mark) /\ \A p \in OverlaysOf(i, mark) : p.rev <= o.rev
Installed(points, mark) ==
  \A i \in Ids, o \in overlays :
    Top(o, i, mark) =>
      IF o.deleted THEN i \notin DOMAIN points ELSE i \in DOMAIN points /\ points[i] = o.rev
OthersKept(points, mark) ==
  \A i \in Ids :
    OverlaysOf(i, mark) = {} =>
      /\ i \in DOMAIN points <=> i \in DOMAIN segment
      /\ i \in DOMAIN points => points[i] = segment[i]
HaveTops(mark) == \A i \in Ids : OverlaysOf(i, mark) # {} => \E o \in overlays : Top(o, i, mark)

FolderHolds(w) ==
  worker[w].pc \in FoldSteps =>
    /\ folder = w /\ worker[w].mark = fold.mark /\ FoldPosition(worker[w])
    /\ worker[w].pc = "replace" =>
         Installed(worker[w].points, fold.mark) /\ OthersKept(worker[w].points, fold.mark)
    /\ worker[w].pc = "advance fold" => Installed(segment, fold.mark)

(* A swept attempt has put into the segment what it sweeps.                 *)
FoldHolds ==
  /\ fold.phase = "SegmentReplaced" => Installed(segment, fold.mark)
  /\ fold.mark <= revision
  /\ fold.phase # "Completed" => HaveTops(fold.mark)

(* Until a segment was recorded nothing has left the hot rows.              *)
Fresh == phase = "Pending" => DOMAIN rows = DOMAIN truth /\ overlays = {} /\ fold.phase = "Completed"

WorkTyped ==
  /\ generation \in Nat /\ worker \in [Workers -> WorkerState]
  /\ fold \in [phase : FoldPhases, gen : Nat, mark : Nat]
  /\ phase \in DayPhases

WorkInv ==
  /\ WorkTyped /\ Fresh /\ FoldHolds
  /\ \A w \in Workers : CompactorHolds(w) /\ FolderHolds(w)

ArchiveInv == DataInv /\ WorkInv

-----------------------------------------------------------------------------
(* Facts about the data.                                                    *)

LEMMA Nothing == \A S : <<>> \in [{} -> S] /\ DOMAIN <<>> = {}
  OBVIOUS

LEMMA SegmentOf ==
  ASSUME NEW f, f \in Segments PROVE DOMAIN f \subseteq Ids /\ f \in [DOMAIN f -> Nat]
  BY DEF Segments

LEMMA OfSegments ==
  ASSUME NEW S, S \subseteq Ids, NEW f, f \in [S -> Nat] PROVE f \in Segments
  BY DEF Segments

LEMMA InitInv == ASSUME WorkersStop PROVE Init => ArchiveInv
  <1> SUFFICES ASSUME Init PROVE ArchiveInv
    OBVIOUS
  <1>1. <<>> \in Segments
    BY Nothing, OfSegments
  <1>2. DataInv
    BY <1>1, Nothing DEF Init, DataInv, DataTyped, Numbered, Agrees, HotIsTrue, CorrectedIsTrue,
      ArchivedIsTrue, FixHolds
  <1>3. Idle \in WorkerState
    BY <1>1 DEF Idle, WorkerState, DayPhases
  <1>4. WorkTyped
    BY <1>3 DEF Init, WorkTyped, DayPhases, FoldPhases
  <1>5. \A w \in Workers : worker[w].pc = "idle"
    BY DEF Init, Idle
  <1>6. \A w \in Workers : CompactorHolds(w) /\ FolderHolds(w)
    BY <1>5 DEF CompactorHolds, FolderHolds, Compacting, FoldSteps
  <1>7. Fresh /\ FoldHolds
    BY <1>1, Nothing DEF Init, Fresh, FoldHolds
  <1>8. WorkInv
    BY <1>4, <1>6, <1>7 DEF WorkInv
  <1> QED BY <1>2, <1>8 DEF ArchiveInv

(* A last overlay is the one that TopOverlay chooses.                       *)
LEMMA TopChosen ==
  ASSUME DataInv, NEW i \in Ids, NEW mark, NEW o \in overlays, Top(o, i, mark)
  PROVE  TopOverlay(i, mark) = o
  <1>1. \A p \in OverlaysOf(i, mark) : p.rev \in Nat /\ p \in overlays /\ p.id = i
    BY DEF OverlaysOf, DataInv, DataTyped, Overlays
  <1>2. \A p \in OverlaysOf(i, mark) : (\A q \in OverlaysOf(i, mark) : q.rev <= p.rev) => p = o
    BY <1>1 DEF Top, DataInv, Numbered
  <1> QED BY <1>2 DEF Top, TopOverlay

(* Of all overlays of an observation the last is the last accepted write.   *)
LEMMA LastIsTrue ==
  ASSUME DataInv, NEW i \in Ids, NEW o \in overlays, o.id = i
  PROVE  \E p \in overlays : Top(p, i, revision) /\ IsTrue(p)
  <1>1. PICK p \in overlays : p.id = o.id /\ IsTrue(p)
    BY DEF DataInv, CorrectedIsTrue
  <1>2. \A q \in overlays : q.id = i => \E r \in overlays : r.id = i /\ q.rev <= r.rev /\ IsTrue(r)
    BY DEF DataInv, CorrectedIsTrue
  <1>3. \A q \in overlays : q.id = i => q.rev <= p.rev
    <2> SUFFICES ASSUME NEW q \in overlays, q.id = i PROVE q.rev <= p.rev
      OBVIOUS
    <2>1. PICK r \in overlays : r.id = i /\ q.rev <= r.rev /\ IsTrue(r)
      BY <1>2
    <2>2. [rev |-> r.rev, deleted |-> r.deleted] = [rev |-> p.rev, deleted |-> p.deleted]
      BY <1>1, <2>1 DEF IsTrue
    <2>3. r.rev = p.rev
      BY <2>2
    <2> QED BY <2>1, <2>3
  <1> QED BY <1>1, <1>3 DEF Top, OverlaysOf, DataInv, Numbered

(* The merged read of one observation.                                      *)
LEMMA CandidateIsTrue ==
  ASSUME DataInv, NEW i \in Ids
  PROVE  /\ i \in DOMAIN truth /\ ~truth[i].deleted =>
              ~Candidate(i).deleted /\ Candidate(i).rev = truth[i].rev
         /\ i \notin DOMAIN truth \/ truth[i].deleted => Candidate(i).deleted
  <1>1. CASE \E o \in overlays : o.id = i
    <2>1. PICK p \in overlays : Top(p, i, revision) /\ IsTrue(p)
      BY <1>1, LastIsTrue
    <2>2. TopOverlay(i, revision) = p /\ OverlaysOf(i, revision) # {} /\ p.id = i
      BY <2>1, TopChosen DEF Top, OverlaysOf
    <2> QED BY <2>1, <2>2 DEF Candidate, IsTrue
  <1>2. CASE i \in DOMAIN rows
    BY <1>2 DEF Candidate, DataInv, HotIsTrue, OverlaysOf
  <1>3. CASE i \notin DOMAIN rows /\ \A o \in overlays : o.id # i
    BY <1>3 DEF Candidate, DataInv, ArchivedIsTrue, OverlaysOf, Numbered, Agrees
  <1> QED BY <1>1, <1>2, <1>3

LEMMA ReadsFollow == ArchiveInv => ReadsAreTrue
  <1> SUFFICES ASSUME DataInv PROVE Visible = Truth
    BY DEF ArchiveInv, ReadsAreTrue
  <1> DEFINE Kept == {j \in Ids : ~Candidate(j).deleted}
  <1>1. DOMAIN truth \subseteq Ids
    BY DEF DataInv, DataTyped
  <1>2. Kept = {j \in DOMAIN truth : ~truth[j].deleted}
    BY <1>1, CandidateIsTrue
  <1>3. \A i \in Kept : Candidate(i).rev = truth[i].rev
    BY <1>2, CandidateIsTrue
  <1>4. Visible = {<<i, Candidate(i).rev>> : i \in Kept}
    BY DEF Visible
  <1> HIDE DEF Kept
  <1>5. {<<i, Candidate(i).rev>> : i \in Kept} = {<<i, truth[i].rev>> : i \in Kept}
    BY <1>3
  <1> QED BY <1>2, <1>4, <1>5 DEF Truth

-----------------------------------------------------------------------------
(* What each step of the data keeps.                                        *)

data == <<revision, rows, segment, overlays, truth, fix>>

LEMMA DataStays == ASSUME DataInv, UNCHANGED data PROVE DataInv'
  BY DEF data, DataInv, DataTyped, Numbered, Agrees, HotIsTrue, CorrectedIsTrue, ArchivedIsTrue, IsTrue, FixHolds

LEMMA ArriveKeeps == ASSUME DataInv, NEW i \in Ids, Arrive(i) PROVE DataInv'
  <1> DEFINE write == [rev |-> revision + 1, deleted |-> FALSE]
  <1>1. /\ DOMAIN rows' = DOMAIN rows \cup {i} /\ rows'[i] = write
        /\ \A j \in DOMAIN rows \ {i} : rows'[j] = rows[j]
        /\ rows' = [j \in DOMAIN rows' |-> rows'[j]]
    BY DEF Arrive, Put
  <1>2. /\ DOMAIN truth' = DOMAIN truth \cup {i} /\ truth'[i] = write
        /\ \A j \in DOMAIN truth \ {i} : truth'[j] = truth[j]
        /\ truth' = [j \in DOMAIN truth' |-> truth'[j]]
    BY DEF Arrive, Put
  <1>3. revision' = revision + 1 /\ revision \in Nat /\ i \notin DOMAIN truth /\ UNCHANGED <<segment, overlays, fix>>
    BY DEF Arrive, DataInv, DataTyped
  <1>4. \A o \in overlays : o.id # i
    BY <1>3 DEF DataInv, CorrectedIsTrue, IsTrue
  <1>5. i \notin DOMAIN segment
    BY <1>3 DEF DataInv, Numbered, Agrees
  <1> HIDE DEF write
  <1>6. write \in Writes /\ write.rev = revision + 1
    BY <1>3 DEF write, Writes
  <1>7. DataTyped'
    BY <1>1, <1>2, <1>3, <1>6 DEF DataInv, DataTyped
  <1>8. \A j \in DOMAIN segment : segment[j] \in Nat
    BY SegmentOf DEF DataInv, DataTyped
  <1>9. Numbered'
    <2>1. \A j \in DOMAIN truth : truth[j].rev \in Nat
      BY DEF DataInv, DataTyped, Writes
    <2>2. \A o \in overlays : o.rev \in Nat
      BY DEF DataInv, DataTyped, Overlays
    <2>3. Agrees(segment)'
      BY <1>1, <1>2, <1>3, <1>5, <1>8 DEF DataInv, Numbered, Agrees
    <2> QED BY <1>1, <1>2, <1>3, <1>6, <2>1, <2>2, <2>3 DEF DataInv, Numbered
  <1>10. HotIsTrue' /\ FixHolds'
    BY <1>1, <1>2, <1>3, <1>4 DEF DataInv, HotIsTrue, FixHolds
  <1>11. CorrectedIsTrue' /\ ArchivedIsTrue'
    BY <1>1, <1>2, <1>3, <1>4 DEF DataInv, CorrectedIsTrue, ArchivedIsTrue, IsTrue
  <1> QED BY <1>7, <1>9, <1>10, <1>11 DEF DataInv

LEMMA ReadForCorrectionKeeps == ASSUME DataInv, NEW i \in Ids, ReadForCorrection(i) PROVE DataInv'
  <1>1. fix' = [id |-> i, rev |-> Candidate(i).rev, archived |-> i \notin DOMAIN rows] /\ i \in DOMAIN truth
    BY DEF ReadForCorrection
  <1>2. UNCHANGED <<revision, rows, segment, overlays, truth>>
    BY DEF ReadForCorrection, archive
  <1>3. Candidate(i).rev \in Nat
    <2>1. CASE \E o \in overlays : o.id = i
      <3>1. PICK p \in overlays : Top(p, i, revision) /\ IsTrue(p)
        BY <2>1, LastIsTrue
      <3>2. TopOverlay(i, revision) = p /\ OverlaysOf(i, revision) # {} /\ p.rev \in Nat
        BY <3>1, TopChosen DEF Top, OverlaysOf, DataInv, DataTyped, Overlays
      <3> QED BY <3>2 DEF Candidate
    <2>2. CASE \A o \in overlays : o.id # i
      <3>1. \A j \in DOMAIN segment : segment[j] \in Nat
        BY SegmentOf DEF DataInv, DataTyped
      <3> QED BY <2>2, <3>1 DEF Candidate, OverlaysOf, DataInv, DataTyped, Writes
    <2> QED BY <2>1, <2>2
  <1>4. fix' \in [id : Ids, rev : Nat, archived : BOOLEAN]
    BY <1>1, <1>3
  <1>5. DataTyped' /\ FixHolds'
    BY <1>1, <1>2, <1>4 DEF DataInv, DataTyped, FixHolds
  <1> QED BY <1>2, <1>5 DEF DataInv, Numbered, Agrees, HotIsTrue, CorrectedIsTrue, ArchivedIsTrue, IsTrue

(* A correction of a hot row, or by an overlay, is a write with the next    *)
(* number.                                                                  *)
LEMMA CorrectKeeps == ASSUME DataInv, NEW deleted \in BOOLEAN, Correct(deleted) PROVE DataInv'
  <1> DEFINE i == fix.id
             write == [rev |-> revision + 1, deleted |-> deleted]
             overlay == [id |-> i, rev |-> revision + 1, deleted |-> deleted]
  <1>1. /\ fix # NoFix /\ fix' = NoFix /\ UNCHANGED segment
        /\ i \in DOMAIN truth /\ i \in Ids /\ (fix.archived => i \notin DOMAIN rows) /\ revision \in Nat
    BY DEF Correct, DataInv, FixHolds, DataTyped
  <1>2. FixHolds'
    BY <1>1 DEF FixHolds
  <1>3. CASE UNCHANGED <<revision, truth, rows, overlays>>
    BY <1>1, <1>2, <1>3 DEF DataInv, DataTyped, Numbered, Agrees, HotIsTrue, CorrectedIsTrue, ArchivedIsTrue, IsTrue
  <1>4. write \in Writes /\ overlay \in Overlays
    BY <1>1 DEF Writes, Overlays
  <1>5. /\ \A j \in DOMAIN truth : truth[j] \in Writes /\ truth[j].rev \in Nat
        /\ \A j \in DOMAIN rows : rows[j] \in Writes /\ rows[j].rev \in Nat
        /\ \A o \in overlays : o.rev \in Nat
        /\ \A j \in DOMAIN segment : segment[j] \in Nat
    BY SegmentOf DEF DataInv, DataTyped, Writes, Overlays
  <1>6. CASE /\ revision' = revision + 1 /\ truth' = [truth EXCEPT ![i] = write]
             /\ i \in DOMAIN rows /\ rows' = [rows EXCEPT ![i] = write] /\ UNCHANGED overlays
    <2> HIDE DEF i
    <2>1. DataTyped'
      BY <1>1, <1>4, <1>6 DEF DataInv, DataTyped
    <2>2. Agrees(segment)'
      BY <1>1, <1>5, <1>6 DEF DataInv, Numbered, Agrees
    <2>3. Numbered'
      BY <1>1, <1>5, <1>6, <2>2 DEF DataInv, Numbered
    <2>4. HotIsTrue'
      BY <1>1, <1>6 DEF DataInv, HotIsTrue
    <2>5. CorrectedIsTrue'
      BY <1>1, <1>6 DEF DataInv, HotIsTrue, CorrectedIsTrue, IsTrue
    <2>6. ArchivedIsTrue'
      BY <1>1, <1>6 DEF DataInv, ArchivedIsTrue
    <2> QED BY <1>2, <2>1, <2>3, <2>4, <2>5, <2>6 DEF DataInv
  <1>7. CASE /\ revision' = revision + 1 /\ truth' = [truth EXCEPT ![i] = write]
             /\ i \notin DOMAIN rows /\ overlays' = overlays \cup {overlay} /\ UNCHANGED rows
    <2> HIDE DEF i
    <2>1. DataTyped'
      BY <1>1, <1>4, <1>7 DEF DataInv, DataTyped
    <2>2. Agrees(segment)'
      BY <1>1, <1>5, <1>7 DEF DataInv, Numbered, Agrees
    <2>3. Numbered'
      BY <1>1, <1>5, <1>7, <2>2 DEF DataInv, Numbered
    <2>4. HotIsTrue'
      BY <1>1, <1>7 DEF DataInv, HotIsTrue
    <2>5. CorrectedIsTrue'
      <3> SUFFICES ASSUME NEW o \in overlays'
                   PROVE  \E p \in overlays' : p.id = o.id /\ o.rev <= p.rev /\ IsTrue(p)'
        BY DEF CorrectedIsTrue
      <3>1. CASE o.id = i
        <4>1. PICK p : p = overlay
          OBVIOUS
        <4>2. o.rev <= p.rev /\ p \in overlays' /\ p.id = i
          BY <1>1, <1>5, <1>7, <4>1 DEF DataInv, Numbered
        <4>3. IsTrue(p)'
          BY <1>1, <1>7, <4>1 DEF IsTrue
        <4> QED BY <3>1, <4>2, <4>3
      <3>2. CASE o.id # i
        <4>1. o \in overlays
          BY <1>7, <3>2
        <4>2. PICK p \in overlays : p.id = o.id /\ o.rev <= p.rev /\ IsTrue(p)
          BY <4>1 DEF DataInv, CorrectedIsTrue
        <4>3. IsTrue(p)'
          BY <1>1, <1>7, <3>2, <4>2 DEF IsTrue
        <4> QED BY <1>7, <4>2, <4>3
      <3> QED BY <3>1, <3>2
    <2>6. ArchivedIsTrue'
      <3>1. overlay \in overlays' /\ overlay.id = i /\ overlays \subseteq overlays'
        BY <1>7
      <3> HIDE DEF overlay
      <3>2. \A j \in DOMAIN truth' \ DOMAIN rows' :
              (\A o \in overlays' : o.id # j) => j # i /\ j \in DOMAIN truth \ DOMAIN rows /\ truth'[j] = truth[j]
        BY <1>7, <3>1
      <3> QED BY <1>1, <3>1, <3>2 DEF DataInv, ArchivedIsTrue
    <2> QED BY <1>2, <2>1, <2>3, <2>4, <2>5, <2>6 DEF DataInv
  <1> QED BY <1>1, <1>3, <1>6, <1>7 DEF Correct

(* A segment written while nothing has left the hot rows.                   *)
LEMMA SegmentKeeps ==
  ASSUME DataInv, NEW points \in Segments, Agrees(points), segment' = points,
         DOMAIN rows = DOMAIN truth, UNCHANGED <<revision, rows, overlays, truth, fix>>
  PROVE  DataInv'
  <1>1. DataTyped' /\ Numbered'
    BY DEF DataInv, DataTyped, Numbered, Agrees
  <1>2. ArchivedIsTrue'
    BY DEF ArchivedIsTrue
  <1> QED BY <1>1, <1>2 DEF DataInv, HotIsTrue, CorrectedIsTrue, IsTrue, FixHolds

(* Hot rows that the segment has leave it to the segment to tell.           *)
LEMMA DeleteKeeps == ASSUME DataInv, NEW w \in Compactors, DeleteHotRows(w) PROVE DataInv'
  <1>1. UNCHANGED <<revision, segment, overlays, truth, fix>>
    BY DEF DeleteHotRows
  <1>2. /\ DOMAIN rows' \subseteq DOMAIN rows
        /\ \A j \in DOMAIN rows' : rows'[j] = rows[j]
        /\ \A j \in DOMAIN rows \ DOMAIN rows' : j \in DOMAIN segment /\ segment[j] = rows[j].rev
        /\ rows' = [j \in DOMAIN rows' |-> rows'[j]]
    BY DEF DeleteHotRows, Restrict
  <1>3. DataTyped'
    BY <1>1, <1>2 DEF DataInv, DataTyped
  <1>4. Numbered' /\ HotIsTrue' /\ FixHolds' /\ CorrectedIsTrue'
    BY <1>1, <1>2 DEF DataInv, Numbered, Agrees, HotIsTrue, FixHolds, CorrectedIsTrue, IsTrue
  <1>5. \A j \in DOMAIN rows \ DOMAIN rows' : ~truth[j].deleted /\ j \in DOMAIN segment /\ segment[j] = truth[j].rev
    BY <1>2 DEF DataInv, Numbered, Agrees, HotIsTrue
  <1>6. ArchivedIsTrue'
    BY <1>1, <1>2, <1>5 DEF DataInv, ArchivedIsTrue
  <1> QED BY <1>3, <1>4, <1>6 DEF DataInv

(* The merged points of an attempt have its overlays, and the segment where *)
(* it has none.                                                             *)
LEMMA MergedIs ==
  ASSUME DataInv, NEW mark \in Nat, HaveTops(mark)
  PROVE  Merged(mark) \in Segments /\ Installed(Merged(mark), mark) /\ OthersKept(Merged(mark), mark)
  <1> DEFINE with == {i \in Ids : OverlaysOf(i, mark) # {}}
             kept == {i \in with \cup DOMAIN segment : i \in with => ~TopOverlay(i, mark).deleted}
  <1>1. Merged(mark) = [i \in kept |-> IF i \in with THEN TopOverlay(i, mark).rev ELSE segment[i]]
    BY DEF Merged
  <1>2. \A i \in with : \E o \in overlays : Top(o, i, mark) /\ TopOverlay(i, mark) = o
    BY TopChosen DEF HaveTops
  <1>3. DOMAIN segment \subseteq Ids /\ \A i \in DOMAIN segment : segment[i] \in Nat
    BY SegmentOf DEF DataInv, DataTyped
  <1>4. \A i \in Ids, o \in overlays : Top(o, i, mark) => i \in with /\ TopOverlay(i, mark) = o
    BY TopChosen DEF Top
  <1>5. \A o \in overlays : o.rev \in Nat
    BY DEF DataInv, DataTyped, Overlays
  <1>6. kept \subseteq Ids /\ Merged(mark) \in [kept -> Nat]
    BY <1>1, <1>2, <1>3, <1>5
  <1>7. Merged(mark) \in Segments
    BY <1>6, OfSegments
  <1>8. Installed(Merged(mark), mark)
    BY <1>1, <1>4 DEF Installed
  <1>9. OthersKept(Merged(mark), mark)
    BY <1>1, <1>3 DEF OthersKept
  <1> QED BY <1>7, <1>8, <1>9

(* Replacing the segment by them changes no read.                           *)
LEMMA ReplaceKeeps ==
  ASSUME DataInv, NEW mark \in Nat, mark <= revision, HaveTops(mark),
         NEW points \in Segments, Installed(points, mark), OthersKept(points, mark),
         segment' = points, UNCHANGED <<revision, rows, overlays, truth, fix>>
  PROVE  DataInv'
  <1>1. DOMAIN points \subseteq Ids /\ \A i \in DOMAIN points : points[i] \in Nat
    BY SegmentOf
  <1>2. \A i \in DOMAIN points :
          \/ i \in DOMAIN segment /\ points[i] = segment[i]
          \/ \E o \in overlays : o.id = i /\ points[i] = o.rev
    BY <1>1 DEF HaveTops, Installed, OthersKept, Top, OverlaysOf
  <1>3. Agrees(points)
    <2>1. \A o \in overlays : o.rev <= revision /\ o.id \in DOMAIN truth /\ o.id \notin DOMAIN rows
      BY DEF DataInv, Numbered, HotIsTrue, CorrectedIsTrue, IsTrue
    <2> QED BY <1>2, <2>1 DEF DataInv, Numbered, Agrees
  <1>4. DataTyped' /\ Numbered'
    BY <1>3 DEF DataInv, DataTyped, Numbered, Agrees
  <1>5. \A i \in Ids : (\A o \in overlays : o.id # i) => OverlaysOf(i, mark) = {}
    BY DEF OverlaysOf
  <1>6. DOMAIN truth \subseteq Ids /\ DOMAIN segment \subseteq Ids
    BY SegmentOf DEF DataInv, DataTyped
  <1>7. ArchivedIsTrue'
    BY <1>5, <1>6 DEF DataInv, ArchivedIsTrue, OthersKept
  <1> QED BY <1>4, <1>7 DEF DataInv, HotIsTrue, CorrectedIsTrue, IsTrue, FixHolds

(* Deleting the overlays of an attempt that the segment has.                *)
LEMMA SweepKeeps ==
  ASSUME DataInv, NEW mark \in Nat, mark <= revision, HaveTops(mark), Installed(segment, mark),
         overlays' = {o \in overlays : o.rev > mark}, UNCHANGED <<revision, rows, segment, truth, fix>>
  PROVE  DataInv'
  <1>1. DataTyped' /\ Numbered' /\ HotIsTrue' /\ FixHolds'
    BY DEF DataInv, DataTyped, Numbered, Agrees, HotIsTrue, FixHolds
  <1>2. \A o \in overlays : o.rev \in Nat /\ o.id \in Ids
    BY DEF DataInv, DataTyped, Overlays
  <1>3. CorrectedIsTrue'
    BY <1>2 DEF DataInv, CorrectedIsTrue, IsTrue
  <1>4. ArchivedIsTrue'
    <2> SUFFICES ASSUME NEW i \in DOMAIN truth \ DOMAIN rows, \A o \in overlays' : o.id # i
                 PROVE  IF truth[i].deleted THEN i \notin DOMAIN segment
                        ELSE i \in DOMAIN segment /\ segment[i] = truth[i].rev
      BY DEF ArchivedIsTrue
    <2>1. CASE \A o \in overlays : o.id # i
      BY <2>1 DEF DataInv, ArchivedIsTrue
    <2>2. CASE \E o \in overlays : o.id = i
      <3>1. i \in Ids
        BY <2>2, <1>2
      <3>2. PICK p \in overlays : Top(p, i, revision) /\ IsTrue(p)
        BY <2>2, <3>1, LastIsTrue
      <3>3. p.id = i /\ p.rev <= mark
        BY <1>2, <3>2 DEF Top, OverlaysOf
      <3>4. Top(p, i, mark)
        BY <1>2, <3>2, <3>3 DEF Top, OverlaysOf, DataInv, DataTyped
      <3> QED BY <3>1, <3>2, <3>3, <3>4 DEF Installed, IsTrue
    <2> QED BY <2>1, <2>2
  <1> QED BY <1>1, <1>3, <1>4 DEF DataInv

-----------------------------------------------------------------------------
(* What each step of the workers keeps.                                     *)

(* The overlays of an attempt are the same before and after a step.         *)
SameOverlays(mark) == \A i \in Ids : OverlaysOf(i, mark)' = OverlaysOf(i, mark)

LEMMA AttemptStays ==
  ASSUME NEW mark, SameOverlays(mark)
  PROVE  /\ HaveTops(mark) => HaveTops(mark)'
         /\ \A points : Installed(points, mark) => Installed(points, mark)'
         /\ UNCHANGED segment => \A points : OthersKept(points, mark) => OthersKept(points, mark)'
  BY DEF SameOverlays, HaveTops, Installed, OthersKept, Top, OverlaysOf

LEMMA FoldStays ==
  ASSUME WorkInv, UNCHANGED <<fold, segment>>, NEW mark \in Nat, mark = fold.mark, SameOverlays(mark),
         revision \in Nat, revision' \in Nat, revision <= revision'
  PROVE  /\ FoldHolds'
         /\ \A w \in Workers : worker'[w] = worker[w] /\ UNCHANGED folder => FolderHolds(w)'
  <1>1. /\ HaveTops(mark) => HaveTops(mark)'
        /\ \A points : Installed(points, mark) => Installed(points, mark)'
        /\ \A points : OthersKept(points, mark) => OthersKept(points, mark)'
    BY AttemptStays
  <1>2. Installed(segment, mark) => Installed(segment, mark)'
    BY <1>1
  <1>3. FoldHolds'
    BY <1>1, <1>2 DEF WorkInv, FoldHolds, Installed
  <1>4. ASSUME NEW w \in Workers, worker'[w] = worker[w], UNCHANGED folder PROVE FolderHolds(w)'
    <2>1. FolderHolds(w)
      BY DEF WorkInv
    <2>2. FoldPosition(worker[w]) => FoldPosition(worker[w])'
      BY <1>4 DEF FoldPosition
    <2>3. PICK points : points = worker[w].points
      OBVIOUS
    <2>4. Installed(points, mark) => Installed(worker[w].points, fold.mark)'
      BY <1>1, <1>4, <2>3 DEF Installed
    <2>5. OthersKept(points, mark) => OthersKept(worker[w].points, fold.mark)'
      BY <1>1, <1>4, <2>3 DEF OthersKept
    <2>6. Installed(segment, mark) => Installed(segment, fold.mark)'
      BY <1>2 DEF Installed
    <2> QED BY <1>4, <2>1, <2>2, <2>3, <2>4, <2>5, <2>6 DEF FolderHolds
  <1> QED BY <1>3, <1>4

LEMMA NoFolder == ASSUME WorkInv, fold.phase = "Completed", NEW w \in Workers PROVE worker[w].pc \notin FoldSteps
  BY DEF WorkInv, FolderHolds, FoldPosition

(* A step of one compacting worker, which alone holds the lease.            *)
LEMMA CompactorStep ==
  ASSUME ArchiveInv, DataInv', WorkTyped', Fresh', NEW w \in Workers,
         \A v \in Workers \ {w} : worker[v].pc \notin Compacting /\ worker'[v] = worker[v],
         CompactorHolds(w)', worker'[w].pc \notin FoldSteps,
         UNCHANGED <<fold, folder, overlays, revision>>, segment' = segment \/ fold.phase = "Completed"
  PROVE  ArchiveInv'
  <1>1. \A v \in Workers : CompactorHolds(v)'
    BY DEF CompactorHolds
  <1>2. /\ FoldHolds' /\ \A v \in Workers \ {w} : FolderHolds(v)'
    <2>1. CASE fold.phase = "Completed"
      <3>1. \A v \in Workers \ {w} : worker'[v].pc \notin FoldSteps
        BY <2>1, NoFolder DEF ArchiveInv
      <3> QED BY <2>1, <3>1 DEF FoldHolds, FolderHolds, ArchiveInv, WorkInv
    <2>2. CASE segment' = segment
      <3>1. PICK mark : mark = fold.mark
        OBVIOUS
      <3>2. mark \in Nat /\ revision \in Nat /\ SameOverlays(mark)
        BY <3>1 DEF ArchiveInv, WorkInv, WorkTyped, DataInv, DataTyped, SameOverlays, OverlaysOf
      <3> QED BY <2>2, <3>1, <3>2, FoldStays DEF ArchiveInv
    <2> QED BY <2>1, <2>2
  <1>3. FolderHolds(w)'
    BY DEF FolderHolds
  <1> QED BY <1>1, <1>2, <1>3 DEF ArchiveInv, WorkInv

LEMMA Alone ==
  ASSUME WorkInv, NEW w \in Workers, worker[w].pc \in Compacting
  PROVE  /\ \A v \in Workers \ {w} : worker[v].pc \notin Compacting
         /\ lease = w
  BY DEF WorkInv, CompactorHolds

LEMMA AcquireStep == ASSUME WorkersStop, ArchiveInv, NEW w \in Compactors, Acquire(w) PROVE ArchiveInv'
  <1>1. /\ lease' = w /\ w \in Workers
        /\ worker' = [worker EXCEPT ![w] = [Idle EXCEPT !.pc = WorkOf(phase), !.phase = phase]]
        /\ UNCHANGED <<revision, archive, truth, phase, fold, folder, fix, crashes>>
    BY DEF Acquire, Workers
  <1>2. \A v \in Workers \ {w} : worker[v].pc \notin Compacting
    BY DEF WorkersStop, Acquire, ArchiveInv, WorkInv, CompactorHolds, Compacting
  <1>3. DataInv'
    BY <1>1, DataStays DEF ArchiveInv, data, archive
  <1>4. phase \in DayPhases /\ WorkOf(phase) \in Compacting
    BY DEF ArchiveInv, WorkInv, WorkTyped, DayPhases, WorkOf, Compacting
  <1>5. <<>> \in Segments
    BY Nothing, OfSegments
  <1>6. WorkTyped'
    BY <1>1, <1>4, <1>5 DEF ArchiveInv, WorkInv, WorkTyped, WorkerState, Idle, archive
  <1>7. Fresh'
    BY <1>1 DEF ArchiveInv, WorkInv, Fresh, archive
  <1>8. worker'[w].pc = WorkOf(phase) /\ \A v \in Workers \ {w} : worker'[v] = worker[v]
    BY <1>1 DEF Idle, ArchiveInv, WorkInv, WorkTyped
  <1>9. CompactorHolds(w)'
    BY <1>1, <1>4, <1>8 DEF CompactorHolds, Position, WorkOf, DayPhases
  <1>10. worker'[w].pc \notin FoldSteps
    BY <1>4, <1>8 DEF Compacting, FoldSteps
  <1> QED BY <1>1, <1>2, <1>3, <1>6, <1>7, <1>8, <1>9, <1>10, CompactorStep DEF archive

(* Steps of a compaction that change at most the phase, the rollups, or     *)
(* what the worker does.                                                    *)
LEMMA QuietStep ==
  ASSUME ArchiveInv, NEW w \in Workers, worker[w].pc \in Compacting,
         NEW q \in WorkerState, worker' = [worker EXCEPT ![w] = q],
         UNCHANGED <<revision, rows, segment, overlays, truth, fix, generation, fold, folder>>,
         phase' \in DayPhases, phase' = "Pending" => phase = "Pending",
         q.pc \notin FoldSteps, CompactorHolds(w)'
  PROVE  ArchiveInv'
  <1>1. DataInv' /\ \A v \in Workers \ {w} : worker[v].pc \notin Compacting
    BY DataStays, Alone DEF ArchiveInv, data
  <1>2. worker'[w] = q /\ \A v \in Workers \ {w} : worker'[v] = worker[v]
    BY DEF ArchiveInv, WorkInv, WorkTyped
  <1>3. WorkTyped' /\ Fresh'
    BY DEF ArchiveInv, WorkInv, WorkTyped, Fresh
  <1> QED BY <1>1, <1>2, <1>3, CompactorStep

LEMMA QuietSteps ==
  ASSUME ArchiveInv, NEW w \in Compactors,
         StablePoints(w) \/ WriteRollups(w) \/ Verify(w) \/ Complete(w) \/ Advance(w) \/ Release(w)
  PROVE  ArchiveInv'
  <1>1. w \in Workers /\ worker[w] \in WorkerState /\ worker[w].pc \in Compacting
    BY DEF Workers, ArchiveInv, WorkInv, WorkTyped, StablePoints, WriteRollups, Verify, Complete, Advance, Release,
      Compacting
  <1>2. lease = w /\ Position(worker[w])
    BY <1>1 DEF ArchiveInv, WorkInv, CompactorHolds
  <1>3. phase \in DayPhases
    BY DEF ArchiveInv, WorkInv, WorkTyped
  <1>4. CASE StablePoints(w)
    <2> DEFINE points == [i \in {j \in DOMAIN rows : ~rows[j].deleted} |-> rows[i].rev]
               q == [worker[w] EXCEPT !.pc = IF DOMAIN points = {} THEN "release" ELSE "segment", !.points = points]
    <2>1. points \in Segments
      <3>1. \A i \in DOMAIN rows : i \in Ids /\ rows[i].rev \in Nat
        BY DEF ArchiveInv, DataInv, DataTyped, Writes
      <3>2. points \in [{j \in DOMAIN rows : ~rows[j].deleted} -> Nat]
        BY <3>1
      <3> QED BY <3>1, <3>2, OfSegments
    <2>2. Agrees(points)
      BY DEF ArchiveInv, DataInv, Numbered, HotIsTrue, Agrees
    <2>3. worker' = [worker EXCEPT ![w] = q] /\ UNCHANGED <<revision, archive, truth, phase, lease, fold, folder, fix, crashes>>
      BY <1>4 DEF StablePoints
    <2>4. worker[w].pc = "points"
      BY <1>4 DEF StablePoints
    <2> HIDE DEF points
    <2>5. /\ q \in WorkerState /\ q.pc \in {"release", "segment"} /\ q.points = points
      BY <1>1, <2>1 DEF WorkerState, Compacting
    <2> HIDE DEF q
    <2>6. worker'[w] = q
      BY <1>1, <2>3 DEF ArchiveInv, WorkInv, WorkTyped
    <2>7. phase = "Pending"
      BY <1>2, <2>4 DEF Position
    <2>8. Agrees(worker[w].points)'
      BY <2>2, <2>3, <2>5, <2>6 DEF Agrees, archive
    <2>9. CompactorHolds(w)'
      BY <1>2, <2>3, <2>5, <2>6, <2>7, <2>8 DEF CompactorHolds, Position
    <2> QED BY <1>1, <1>3, <2>3, <2>5, <2>9, QuietStep DEF FoldSteps, archive
  <1>5. ASSUME NEW next \in Compacting, NEW p \in DayPhases,
               worker' = [worker EXCEPT ![w].pc = next, ![w].phase = p],
               UNCHANGED <<revision, rows, segment, generation, overlays, truth, phase, lease, fold, folder, fix>>,
               next # "segment", Position([worker[w] EXCEPT !.pc = next, !.phase = p])
        PROVE  ArchiveInv'
    <2> DEFINE q == [worker[w] EXCEPT !.pc = next, !.phase = p]
    <2>1. q \in WorkerState /\ q.pc = next /\ worker' = [worker EXCEPT ![w] = q]
      BY <1>1, <1>5 DEF WorkerState, DayPhases
    <2>2. next \notin FoldSteps
      BY DEF Compacting, FoldSteps
    <2>3. worker'[w] = q
      BY <1>1, <2>1 DEF ArchiveInv, WorkInv, WorkTyped
    <2> HIDE DEF q
    <2>4. Position(q)
      BY <1>5 DEF q
    <2>5. CompactorHolds(w)'
      BY <1>2, <1>5, <2>1, <2>3, <2>4 DEF CompactorHolds, Position
    <2> QED BY <1>1, <1>3, <1>5, <2>1, <2>2, <2>5, QuietStep
  <1>6. CASE WriteRollups(w)
    <2>1. Position([worker[w] EXCEPT !.pc = "advance", !.phase = "RollupsWritten"])
      BY <1>1, <1>2, <1>6 DEF WriteRollups, Position, WorkerState
    <2> QED BY <1>5, <1>6, <2>1 DEF WriteRollups, Reach, Compacting, DayPhases
  <1>7. CASE Complete(w)
    <2>1. Position([worker[w] EXCEPT !.pc = "advance", !.phase = "Completed"])
      BY <1>1, <1>2, <1>7 DEF Complete, Position, WorkerState
    <2> QED BY <1>5, <1>7, <2>1 DEF Complete, Reach, Compacting, DayPhases, archive
  <1>8. CASE Verify(w)
    <2>1. UNCHANGED <<revision, rows, segment, generation, overlays, truth, phase, lease, fold, folder, fix>>
      BY <1>8 DEF Verify, archive
    <2>2. CASE rollups = segment
      <3>1. Position([worker[w] EXCEPT !.pc = "advance", !.phase = "Verified"])
        BY <1>1, <1>2, <1>8 DEF Verify, Position, WorkerState
      <3> QED BY <1>5, <1>8, <2>1, <2>2, <3>1 DEF Verify, Reach, Compacting, DayPhases
    <2>3. CASE rollups # segment
      <3> DEFINE q == [worker[w] EXCEPT !.pc = "release"]
      <3>1. q \in WorkerState /\ q.pc = "release"
        BY <1>1 DEF WorkerState, Compacting
      <3>2. worker' = [worker EXCEPT ![w] = q]
        BY <1>8, <2>3 DEF Verify
      <3>3. worker'[w] = q
        BY <1>1, <3>2 DEF ArchiveInv, WorkInv, WorkTyped
      <3> HIDE DEF q
      <3>4. CompactorHolds(w)'
        BY <1>2, <2>1, <3>1, <3>3 DEF CompactorHolds, Position
      <3> QED BY <1>1, <1>3, <2>1, <3>1, <3>2, <3>4, QuietStep DEF FoldSteps
    <2> QED BY <2>2, <2>3
  <1>9. CASE Advance(w)
    <2> DEFINE q == [worker[w] EXCEPT !.pc = WorkOf(worker[w].phase)]
    <2>1. /\ phase' = worker[w].phase /\ worker' = [worker EXCEPT ![w] = q]
          /\ UNCHANGED <<revision, archive, truth, lease, fold, folder, fix, crashes>>
      BY <1>9 DEF Advance
    <2>2. worker[w].phase \in DayPhases \ {"Pending"}
      BY <1>2, <1>9 DEF Advance, Position, DayPhases
    <2>3. WorkOf(worker[w].phase) \in Compacting \ {"segment"}
      BY <2>2 DEF WorkOf, DayPhases, Compacting
    <2>4. q \in WorkerState /\ q.pc = WorkOf(worker[w].phase)
      BY <1>1, <2>3 DEF WorkerState
    <2> HIDE DEF q
    <2>5. worker'[w] = q
      BY <1>1, <2>1 DEF ArchiveInv, WorkInv, WorkTyped
    <2>6. Position(worker[w])'
      BY <2>1, <2>2, <2>4, <2>5 DEF Position, WorkOf, DayPhases
    <2>7. CompactorHolds(w)'
      BY <1>2, <2>1, <2>3, <2>4, <2>5, <2>6 DEF CompactorHolds, Position
    <2>8. q.pc \notin FoldSteps
      BY <2>3, <2>4 DEF Compacting, FoldSteps
    <2> QED BY <1>1, <2>1, <2>2, <2>4, <2>7, <2>8, QuietStep DEF archive
  <1>10. CASE Release(w)
    <2>1. worker' = [worker EXCEPT ![w] = Idle] /\ UNCHANGED <<revision, archive, truth, phase, fold, folder, fix, crashes>>
      BY <1>10 DEF Release
    <2>2. Idle \in WorkerState /\ Idle.pc = "idle"
      BY Nothing, OfSegments DEF Idle, WorkerState, DayPhases
    <2>3. worker'[w] = Idle
      BY <1>1, <2>1 DEF ArchiveInv, WorkInv, WorkTyped
    <2>4. CompactorHolds(w)' /\ Idle.pc \notin FoldSteps
      BY <2>2, <2>3 DEF CompactorHolds, Compacting, FoldSteps
    <2> QED BY <1>1, <1>3, <2>1, <2>2, <2>4, QuietStep DEF archive
  <1> QED BY <1>4, <1>6, <1>7, <1>8, <1>9, <1>10

LEMMA WriteSegmentStep == ASSUME ArchiveInv, NEW w \in Compactors, WriteSegment(w) PROVE ArchiveInv'
  <1> DEFINE q == [worker[w] EXCEPT !.pc = "advance", !.phase = "SegmentWritten"]
  <1>1. w \in Workers /\ worker[w] \in WorkerState /\ worker[w].pc = "segment"
    BY DEF Workers, ArchiveInv, WorkInv, WorkTyped, WriteSegment
  <1>2. /\ lease = w /\ phase = "Pending" /\ Agrees(worker[w].points)
        /\ \A v \in Workers \ {w} : worker[v].pc \notin Compacting
    BY <1>1, Alone DEF ArchiveInv, WorkInv, CompactorHolds, Position, Compacting
  <1>3. /\ segment' = worker[w].points /\ generation' = generation + 1 /\ worker' = [worker EXCEPT ![w] = q]
        /\ UNCHANGED <<revision, rows, rollups, overlays, truth, phase, lease, fold, folder, fix, crashes>>
    BY DEF WriteSegment, Reach
  <1>4. fold.phase = "Completed" /\ DOMAIN rows = DOMAIN truth
    BY <1>2 DEF ArchiveInv, WorkInv, Fresh
  <1>5. q \in WorkerState /\ q.pc = "advance" /\ q.phase = "SegmentWritten"
    BY <1>1 DEF WorkerState, Compacting, DayPhases
  <1> HIDE DEF q
  <1>6. worker'[w] = q /\ \A v \in Workers \ {w} : worker'[v] = worker[v]
    BY <1>1, <1>3 DEF ArchiveInv, WorkInv, WorkTyped
  <1>7. worker[w].points \in Segments
    BY <1>1 DEF WorkerState
  <1>8. DataInv'
    BY <1>2, <1>3, <1>4, <1>7, SegmentKeeps DEF ArchiveInv
  <1>9. WorkTyped'
    <2>1. generation' \in Nat
      BY <1>3 DEF ArchiveInv, WorkInv, WorkTyped
    <2>2. worker' \in [Workers -> WorkerState]
      BY <1>3, <1>5 DEF ArchiveInv, WorkInv, WorkTyped
    <2> QED BY <1>3, <2>1, <2>2 DEF ArchiveInv, WorkInv, WorkTyped
  <1>11. Fresh'
    BY <1>3 DEF ArchiveInv, WorkInv, Fresh
  <1>10. CompactorHolds(w)' /\ worker'[w].pc \notin FoldSteps
    BY <1>2, <1>3, <1>5, <1>6 DEF CompactorHolds, Position, FoldSteps
  <1> QED BY <1>1, <1>2, <1>3, <1>4, <1>6, <1>8, <1>9, <1>10, <1>11, CompactorStep

LEMMA DeleteStep == ASSUME ArchiveInv, NEW w \in Compactors, DeleteHotRows(w) PROVE ArchiveInv'
  <1> DEFINE q == [worker[w] EXCEPT !.pc = "advance", !.phase = "HotRowsDeleted"]
  <1>1. w \in Workers /\ worker[w] \in WorkerState /\ worker[w].pc = "delete"
    BY DEF Workers, ArchiveInv, WorkInv, WorkTyped, DeleteHotRows
  <1>2. lease = w /\ phase = "Verified" /\ \A v \in Workers \ {w} : worker[v].pc \notin Compacting
    BY <1>1, Alone DEF ArchiveInv, WorkInv, CompactorHolds, Position, Compacting
  <1>3. /\ worker' = [worker EXCEPT ![w] = q]
        /\ UNCHANGED <<revision, segment, generation, rollups, overlays, truth, phase, lease, fold, folder, fix, crashes>>
    BY DEF DeleteHotRows, Reach
  <1>4. q \in WorkerState /\ q.pc = "advance" /\ q.phase = "HotRowsDeleted"
    BY <1>1 DEF WorkerState, Compacting, DayPhases
  <1> HIDE DEF q
  <1>5. worker'[w] = q /\ \A v \in Workers \ {w} : worker'[v] = worker[v]
    BY <1>1, <1>3 DEF ArchiveInv, WorkInv, WorkTyped
  <1>6. DataInv'
    BY DeleteKeeps DEF ArchiveInv
  <1>7. WorkTyped'
    BY <1>3, <1>4 DEF ArchiveInv, WorkInv, WorkTyped
  <1>9. Fresh'
    BY <1>2, <1>3 DEF Fresh
  <1>8. CompactorHolds(w)' /\ worker'[w].pc \notin FoldSteps
    BY <1>2, <1>3, <1>4, <1>5 DEF CompactorHolds, Position, FoldSteps
  <1> QED BY <1>1, <1>2, <1>3, <1>5, <1>6, <1>7, <1>8, <1>9, CompactorStep

(* A step of one folding worker, whose attempt is open or being opened.     *)
LEMMA FolderStep ==
  ASSUME ArchiveInv, DataInv', WorkTyped', FoldHolds', NEW w \in Workers, phase # "Pending",
         \A v \in Workers \ {w} : worker[v].pc \notin FoldSteps /\ worker'[v] = worker[v],
         FolderHolds(w)', worker'[w].pc \notin Compacting,
         UNCHANGED <<revision, rows, truth, phase, lease>>
  PROVE  ArchiveInv'
  <1>1. \A v \in Workers : FolderHolds(v)'
    BY DEF FolderHolds
  <1>2. \A v \in Workers \ {w} : CompactorHolds(v)'
    BY DEF ArchiveInv, WorkInv, CompactorHolds, Position, Agrees
  <1>3. CompactorHolds(w)' /\ Fresh'
    BY DEF CompactorHolds, Fresh
  <1> QED BY <1>1, <1>2, <1>3 DEF ArchiveInv, WorkInv

LEMMA FoldAlone ==
  ASSUME WorkInv, NEW w \in Workers, worker[w].pc \in FoldSteps
  PROVE  /\ \A v \in Workers \ {w} : worker[v].pc \notin FoldSteps
         /\ folder = w /\ worker[w].mark = fold.mark /\ FoldPosition(worker[w]) /\ phase # "Pending"
         /\ HaveTops(fold.mark) /\ fold.mark \in Nat /\ fold.mark <= revision /\ fold.phase # "Completed"
  <1>1. fold.phase # "Completed"
    BY NoFolder
  <1>2. folder = w /\ worker[w].mark = fold.mark /\ FoldPosition(worker[w])
    BY DEF WorkInv, FolderHolds
  <1>3. \A v \in Workers \ {w} : worker[v].pc \notin FoldSteps
    BY <1>2 DEF WorkInv, FolderHolds
  <1>4. phase # "Pending"
    BY <1>1 DEF WorkInv, Fresh
  <1>5. HaveTops(fold.mark) /\ fold.mark <= revision
    BY <1>1 DEF WorkInv, FoldHolds
  <1>6. fold.mark \in Nat
    BY DEF WorkInv, WorkTyped
  <1> QED BY <1>1, <1>2, <1>3, <1>4, <1>5, <1>6

LEMMA IdleTyped == Idle \in WorkerState /\ Idle.pc \notin Compacting \cup FoldSteps
  BY Nothing, OfSegments DEF Idle, WorkerState, DayPhases, Compacting, FoldSteps

LEMMA PrepareStep == ASSUME WorkersStop, ArchiveInv, NEW w \in Folders, Prepare(w) PROVE ArchiveInv'
  <1> DEFINE q == [Idle EXCEPT !.pc = WorkOfFold(fold'.phase), !.phase = fold'.phase, !.gen = fold'.gen,
                               !.mark = fold'.mark]
  <1>1. /\ w \in Workers /\ folder' = w /\ worker' = [worker EXCEPT ![w] = q]
        /\ UNCHANGED <<revision, archive, truth, phase, lease, fix, crashes>>
        /\ overlays # {} \/ fold.phase # "Completed"
    BY DEF Prepare, Workers
  <1>2. phase # "Pending"
    BY <1>1 DEF ArchiveInv, WorkInv, Fresh
  <1>3. \A v \in Workers \ {w} : worker[v].pc \notin FoldSteps
    BY DEF WorkersStop, Prepare, ArchiveInv, WorkInv, FolderHolds, FoldSteps
  <1>4. DataInv'
    BY <1>1, DataStays DEF ArchiveInv, data, archive
  <1>5. revision \in Nat /\ generation \in Nat /\ fold \in [phase : FoldPhases, gen : Nat, mark : Nat]
    BY DEF ArchiveInv, DataInv, DataTyped, WorkInv, WorkTyped
  <1>6. fold' \in [phase : FoldPhases, gen : Nat, mark : Nat] /\ fold'.phase # "Completed"
    BY <1>5 DEF Prepare, FoldPhases
  <1>7. /\ q \in WorkerState /\ q.pc = WorkOfFold(fold'.phase) /\ q.pc \in {"merge", "sweep", "complete fold"}
        /\ q.mark = fold'.mark
    BY <1>6, IdleTyped DEF WorkOfFold, FoldPhases, WorkerState, Idle, FoldSteps
  <1> HIDE DEF q
  <1>8. worker'[w] = q /\ \A v \in Workers \ {w} : worker'[v] = worker[v]
    BY <1>1 DEF ArchiveInv, WorkInv, WorkTyped
  <1>9. WorkTyped'
    BY <1>1, <1>6, <1>7 DEF ArchiveInv, WorkInv, WorkTyped, archive
  <1>10. FoldHolds'
    <2>1. CASE fold.phase = "Completed"
      <3>1. fold'.phase = "Pending" /\ fold'.mark = revision
        BY <2>1 DEF Prepare
      <3>2. HaveTops(revision)
        BY LastIsTrue DEF ArchiveInv, HaveTops, OverlaysOf
      <3> QED BY <1>1, <1>5, <3>1, <3>2 DEF FoldHolds, HaveTops, Top, OverlaysOf, archive
    <2>2. CASE fold.phase # "Completed"
      <3>1. fold' = fold
        BY <2>2 DEF Prepare
      <3> QED BY <1>1, <3>1 DEF ArchiveInv, WorkInv, FoldHolds, HaveTops, Installed, Top, OverlaysOf, archive
    <2> QED BY <2>1, <2>2
  <1>11. FoldPosition(worker[w])'
    BY <1>6, <1>7, <1>8 DEF FoldPosition, WorkOfFold, FoldPhases
  <1>12. FolderHolds(w)' /\ worker'[w].pc \notin Compacting
    BY <1>1, <1>7, <1>8, <1>11 DEF FolderHolds, Compacting
  <1> QED BY <1>1, <1>2, <1>3, <1>4, <1>8, <1>9, <1>10, <1>12, FolderStep DEF archive

(* A fold step that changes no data and leaves the attempt as it is.        *)
LEMMA QuietFoldStep ==
  ASSUME ArchiveInv, NEW w \in Workers, worker[w].pc \in FoldSteps,
         NEW q \in WorkerState, worker' = [worker EXCEPT ![w] = q], q.pc \notin Compacting,
         UNCHANGED <<revision, rows, segment, overlays, truth, fix, generation, phase, lease, fold>>,
         q.pc \in FoldSteps => /\ UNCHANGED folder /\ q.mark = fold.mark /\ FoldPosition(q)
                               /\ q.pc = "replace" => Installed(q.points, fold.mark) /\ OthersKept(q.points, fold.mark)
                               /\ q.pc = "advance fold" => Installed(segment, fold.mark)
  PROVE  ArchiveInv'
  <1>1. DataInv'
    BY DataStays DEF ArchiveInv, data
  <1>2. worker'[w] = q /\ \A v \in Workers \ {w} : worker'[v] = worker[v]
    BY DEF ArchiveInv, WorkInv, WorkTyped
  <1>3. WorkTyped' /\ FoldHolds'
    <2>1. WorkTyped'
      BY DEF ArchiveInv, WorkInv, WorkTyped
    <2>2. FoldHolds'
      BY DEF ArchiveInv, WorkInv, FoldHolds, HaveTops, Installed, Top, OverlaysOf
    <2> QED BY <2>1, <2>2
  <1>4. phase # "Pending" /\ folder = w /\ \A v \in Workers \ {w} : worker[v].pc \notin FoldSteps
    BY FoldAlone DEF ArchiveInv
  <1>5. CASE q.pc \in FoldSteps
    <2>1. Installed(q.points, fold.mark) => Installed(worker[w].points, fold.mark)'
      <3>1. \A i \in Ids, o \in overlays : Top(o, i, fold.mark)' <=> Top(o, i, fold.mark)
        BY DEF Top, OverlaysOf
      <3> QED BY <1>2, <3>1 DEF Installed
    <2>2. OthersKept(q.points, fold.mark) => OthersKept(worker[w].points, fold.mark)'
      BY <1>2 DEF OthersKept, OverlaysOf
    <2>3. Installed(segment, fold.mark) => Installed(segment, fold.mark)'
      BY DEF Installed, Top, OverlaysOf
    <2>4. FoldPosition(q) => FoldPosition(worker[w])'
      BY <1>2 DEF FoldPosition
    <2>5. FolderHolds(w)'
      BY <1>2, <1>4, <1>5, <2>1, <2>2, <2>3, <2>4 DEF FolderHolds
    <2> QED BY <1>1, <1>2, <1>3, <1>4, <2>5, FolderStep
  <1>6. CASE q.pc \notin FoldSteps
    <2>1. FolderHolds(w)'
      BY <1>2, <1>6 DEF FolderHolds
    <2> QED BY <1>1, <1>2, <1>3, <1>4, <2>1, FolderStep
  <1> QED BY <1>5, <1>6

LEMMA MergedPointsStep == ASSUME ArchiveInv, NEW w \in Folders, MergedPoints(w) PROVE ArchiveInv'
  <1>1. w \in Workers /\ worker[w] \in WorkerState /\ worker[w].pc = "merge"
    BY DEF Workers, ArchiveInv, WorkInv, WorkTyped, MergedPoints
  <1>2. UNCHANGED <<revision, rows, segment, overlays, truth, fix, generation, phase, lease, fold>>
    BY DEF MergedPoints, archive
  <1>3. /\ folder = w /\ worker[w].mark = fold.mark /\ FoldPosition(worker[w])
        /\ HaveTops(fold.mark) /\ fold.mark \in Nat
    BY <1>1, FoldAlone DEF ArchiveInv, FoldSteps
  <1>4. PICK mark \in Nat : mark = fold.mark
    BY <1>3
  <1>5. /\ Merged(mark) \in Segments /\ Installed(Merged(mark), mark) /\ OthersKept(Merged(mark), mark)
    BY <1>3, <1>4, MergedIs DEF ArchiveInv
  <1>6. CASE DOMAIN Merged(worker[w].mark) = {}
    <2>1. worker' = [worker EXCEPT ![w] = Idle]
      BY <1>6 DEF MergedPoints
    <2> QED BY <1>1, <1>2, <2>1, IdleTyped, QuietFoldStep DEF FoldSteps
  <1>7. CASE DOMAIN Merged(worker[w].mark) # {}
    <2> DEFINE q == [worker[w] EXCEPT !.pc = "replace", !.points = Merged(worker[w].mark)]
    <2>1. worker' = [worker EXCEPT ![w] = q] /\ UNCHANGED folder
      BY <1>7 DEF MergedPoints
    <2>2. q \in WorkerState /\ q.pc = "replace" /\ q.points = Merged(mark) /\ q.mark = mark
      BY <1>1, <1>3, <1>4, <1>5 DEF WorkerState, FoldSteps
    <2> HIDE DEF q
    <2>3. FoldPosition(q)
      BY <1>1, <1>3, <2>2 DEF FoldPosition
    <2>4. q.pc \in FoldSteps \ Compacting
      BY <2>2 DEF FoldSteps, Compacting
    <2>5. Installed(q.points, fold.mark) /\ OthersKept(q.points, fold.mark)
      BY <1>4, <1>5, <2>2
    <2> QED BY <1>1, <1>2, <1>4, <2>1, <2>2, <2>3, <2>4, <2>5, QuietFoldStep DEF FoldSteps
  <1> QED BY <1>6, <1>7

LEMMA ReplaceStep == ASSUME ArchiveInv, NEW w \in Folders, ReplaceSegment(w) PROVE ArchiveInv'
  <1> DEFINE q == [worker[w] EXCEPT !.pc = "advance fold", !.phase = "SegmentReplaced"]
  <1>1. w \in Workers /\ worker[w] \in WorkerState /\ worker[w].pc = "replace"
    BY DEF Workers, ArchiveInv, WorkInv, WorkTyped, ReplaceSegment
  <1>2. UNCHANGED <<revision, rows, rollups, overlays, truth, phase, lease, fold, fix, crashes>>
    BY DEF ReplaceSegment
  <1>3. /\ folder = w /\ worker[w].mark = fold.mark /\ FoldPosition(worker[w])
        /\ HaveTops(fold.mark) /\ fold.mark \in Nat /\ fold.mark <= revision
        /\ phase # "Pending" /\ \A v \in Workers \ {w} : worker[v].pc \notin FoldSteps
    BY <1>1, FoldAlone DEF ArchiveInv, FoldSteps
  <1>4. PICK mark \in Nat, points \in Segments : mark = fold.mark /\ points = worker[w].points
    BY <1>1, <1>3 DEF WorkerState
  <1>5. Installed(points, mark) /\ OthersKept(points, mark) /\ fold.phase = "Pending"
    BY <1>1, <1>3, <1>4 DEF ArchiveInv, WorkInv, FolderHolds, FoldPosition, FoldSteps
  <1>6. q \in WorkerState /\ q.pc = "advance fold" /\ q.phase = "SegmentReplaced" /\ q.mark = mark
    BY <1>1, <1>3, <1>4 DEF WorkerState, FoldSteps, FoldPhases
  <1> HIDE DEF q
  <1>7. FoldPosition(q)
    BY <1>5, <1>6 DEF FoldPosition
  <1>8. CASE generation = worker[w].gen
    <2>1. segment' = points /\ generation' = generation + 1 /\ worker' = [worker EXCEPT ![w] = q] /\ UNCHANGED folder
      BY <1>4, <1>8 DEF ReplaceSegment, q
    <2>2. worker'[w] = q /\ \A v \in Workers \ {w} : worker'[v] = worker[v]
      BY <1>1, <2>1 DEF ArchiveInv, WorkInv, WorkTyped
    <2>3. DataInv'
      BY <1>2, <1>3, <1>4, <1>5, <2>1, ReplaceKeeps DEF ArchiveInv
    <2>4. WorkTyped'
      <3>1. generation' \in Nat
        BY <2>1 DEF ArchiveInv, WorkInv, WorkTyped
      <3>2. worker' \in [Workers -> WorkerState]
        BY <1>6, <2>1 DEF ArchiveInv, WorkInv, WorkTyped
      <3> QED BY <1>2, <3>1, <3>2 DEF ArchiveInv, WorkInv, WorkTyped
    <2>5. FoldHolds'
      BY <1>2, <1>3, <1>5 DEF FoldHolds, HaveTops, Top, OverlaysOf
    <2>6. Installed(segment, fold.mark)'
      BY <1>2, <1>4, <1>5, <2>1 DEF Installed, Top, OverlaysOf
    <2>7. FoldPosition(worker[w])'
      BY <1>2, <1>7, <2>2 DEF FoldPosition
    <2>8. FolderHolds(w)' /\ worker'[w].pc \notin Compacting
      BY <1>2, <1>3, <1>4, <1>6, <2>1, <2>2, <2>6, <2>7 DEF FolderHolds, Compacting
    <2> QED BY <1>1, <1>2, <1>3, <2>2, <2>3, <2>4, <2>5, <2>8, FolderStep
  <1>9. CASE generation # worker[w].gen
    <2>1. UNCHANGED <<revision, rows, segment, overlays, truth, fix, generation, phase, lease, fold>>
      BY <1>2, <1>9 DEF ReplaceSegment
    <2>2. CASE generation = worker[w].gen + 1 /\ segment = worker[w].points
      <3>1. worker' = [worker EXCEPT ![w] = q] /\ UNCHANGED folder
        BY <1>9, <2>2 DEF ReplaceSegment, q
      <3>2. Installed(segment, fold.mark)
        BY <1>4, <1>5, <2>2
      <3>3. q.pc \in FoldSteps \ Compacting /\ q.pc # "replace"
        BY <1>6 DEF FoldSteps, Compacting
      <3> QED BY <1>1, <1>4, <1>6, <1>7, <2>1, <3>1, <3>2, <3>3, QuietFoldStep DEF FoldSteps
    <2>3. CASE ~(generation = worker[w].gen + 1 /\ segment = worker[w].points)
      <3>1. worker' = [worker EXCEPT ![w] = Idle]
        BY <1>9, <2>3 DEF ReplaceSegment
      <3> QED BY <1>1, <2>1, <3>1, IdleTyped, QuietFoldStep DEF FoldSteps
    <2> QED BY <2>2, <2>3
  <1> QED BY <1>8, <1>9

LEMMA SweepStep == ASSUME ArchiveInv, NEW w \in Folders, DeleteOverlaysThrough(w) PROVE ArchiveInv'
  <1> DEFINE q == [worker[w] EXCEPT !.pc = "advance fold", !.phase = "OverlaysDeleted"]
  <1>1. w \in Workers /\ worker[w] \in WorkerState /\ worker[w].pc = "sweep"
    BY DEF Workers, ArchiveInv, WorkInv, WorkTyped, DeleteOverlaysThrough
  <1>2. /\ folder = w /\ worker[w].mark = fold.mark /\ FoldPosition(worker[w])
        /\ HaveTops(fold.mark) /\ fold.mark \in Nat /\ fold.mark <= revision
        /\ phase # "Pending" /\ \A v \in Workers \ {w} : worker[v].pc \notin FoldSteps
    BY <1>1, FoldAlone DEF ArchiveInv, FoldSteps
  <1>3. PICK mark \in Nat : mark = fold.mark
    BY <1>2
  <1>4. fold.phase = "SegmentReplaced" /\ Installed(segment, mark)
    BY <1>1, <1>2, <1>3 DEF ArchiveInv, WorkInv, FoldHolds, FoldPosition
  <1>5. /\ overlays' = {o \in overlays : o.rev > mark} /\ worker' = [worker EXCEPT ![w] = q]
        /\ UNCHANGED <<revision, rows, segment, generation, rollups, truth, phase, lease, fold, folder, fix, crashes>>
    BY <1>2, <1>3 DEF DeleteOverlaysThrough
  <1>6. q \in WorkerState /\ q.pc = "advance fold" /\ q.phase = "OverlaysDeleted" /\ q.mark = mark
    BY <1>1, <1>2, <1>3 DEF WorkerState, FoldSteps, FoldPhases
  <1> HIDE DEF q
  <1>7. worker'[w] = q /\ \A v \in Workers \ {w} : worker'[v] = worker[v]
    BY <1>1, <1>5 DEF ArchiveInv, WorkInv, WorkTyped
  <1>8. DataInv'
    BY <1>2, <1>3, <1>4, <1>5, SweepKeeps DEF ArchiveInv
  <1>9. WorkTyped'
    BY <1>5, <1>6 DEF ArchiveInv, WorkInv, WorkTyped
  <1>10. \A i \in Ids : OverlaysOf(i, fold.mark)' = {}
    <2>1. \A o \in overlays' : ~(o.rev <= mark)
      BY <1>5 DEF ArchiveInv, DataInv, DataTyped, Overlays
    <2> QED BY <1>3, <1>5, <2>1 DEF OverlaysOf
  <1>11. Installed(segment, fold.mark)' /\ HaveTops(fold.mark)'
    BY <1>10 DEF Installed, HaveTops, Top
  <1>12. FoldHolds'
    BY <1>2, <1>4, <1>5, <1>11 DEF FoldHolds
  <1>13. FoldPosition(worker[w])'
    BY <1>4, <1>5, <1>6, <1>7 DEF FoldPosition
  <1>14. FolderHolds(w)' /\ worker'[w].pc \notin Compacting
    BY <1>2, <1>3, <1>5, <1>6, <1>7, <1>11, <1>13 DEF FolderHolds, Compacting
  <1> QED BY <1>1, <1>2, <1>5, <1>7, <1>8, <1>9, <1>12, <1>14, FolderStep

LEMMA AdvanceFoldStep == ASSUME ArchiveInv, NEW w \in Folders, AdvanceFold(w) PROVE ArchiveInv'
  <1> DEFINE p == IF worker[w].pc = "complete fold" THEN "Completed" ELSE worker[w].phase
             q == IF p = "Completed" THEN Idle ELSE [worker[w] EXCEPT !.pc = WorkOfFold(p)]
  <1>1. w \in Workers /\ worker[w] \in WorkerState /\ worker[w].pc \in {"advance fold", "complete fold"}
    BY DEF Workers, ArchiveInv, WorkInv, WorkTyped, AdvanceFold
  <1>2. worker[w].pc \in FoldSteps
    BY <1>1 DEF FoldSteps
  <1>3. /\ folder = w /\ worker[w].mark = fold.mark /\ FoldPosition(worker[w])
        /\ HaveTops(fold.mark) /\ fold.mark \in Nat /\ fold.mark <= revision
        /\ phase # "Pending" /\ \A v \in Workers \ {w} : worker[v].pc \notin FoldSteps
    BY <1>1, <1>2, FoldAlone DEF ArchiveInv
  <1>4. /\ worker[w].pc = "advance fold" => worker[w].phase \in {"SegmentReplaced", "OverlaysDeleted"}
        /\ worker[w].pc = "advance fold" => Installed(segment, fold.mark)
    BY <1>1, <1>2, <1>3 DEF ArchiveInv, WorkInv, FolderHolds, FoldPosition
  <1>5. /\ p \in {"SegmentReplaced", "OverlaysDeleted", "Completed"}
        /\ p = "SegmentReplaced" => Installed(segment, fold.mark)
    BY <1>1, <1>4
  <1>6. /\ fold' = [fold EXCEPT !.phase = p] /\ worker' = [worker EXCEPT ![w] = q]
        /\ UNCHANGED <<revision, archive, truth, phase, lease, fix, crashes>>
        /\ p # "Completed" => UNCHANGED folder
    BY DEF AdvanceFold
  <1> HIDE DEF p
  <1>7. /\ q \in WorkerState
        /\ p # "Completed" => q.pc = WorkOfFold(p) /\ q.mark = worker[w].mark
        /\ p = "Completed" => q = Idle
    BY <1>1, <1>5, IdleTyped DEF WorkerState, WorkOfFold, FoldSteps
  <1> HIDE DEF q
  <1>8. worker'[w] = q /\ \A v \in Workers \ {w} : worker'[v] = worker[v]
    BY <1>1, <1>6 DEF ArchiveInv, WorkInv, WorkTyped
  <1>9. DataInv'
    BY <1>6, DataStays DEF ArchiveInv, data, archive
  <1>10. fold \in [phase : FoldPhases, gen : Nat, mark : Nat]
    BY DEF ArchiveInv, WorkInv, WorkTyped
  <1>11. fold' \in [phase : FoldPhases, gen : Nat, mark : Nat] /\ fold'.mark = fold.mark /\ fold'.phase = p
    BY <1>5, <1>6, <1>10 DEF FoldPhases
  <1>12. WorkTyped'
    BY <1>6, <1>7, <1>11 DEF ArchiveInv, WorkInv, WorkTyped, archive
  <1>13. FoldHolds'
    BY <1>3, <1>5, <1>6, <1>11 DEF FoldHolds, HaveTops, Installed, Top, OverlaysOf, archive
  <1>14. FolderHolds(w)' /\ worker'[w].pc \notin Compacting
    <2>1. CASE p = "Completed"
      BY <1>7, <1>8, <2>1, IdleTyped DEF FolderHolds
    <2>2. CASE p # "Completed"
      <3>1. worker'[w].pc \in {"sweep", "complete fold"} /\ FoldPosition(worker[w])'
        BY <1>5, <1>7, <1>8, <1>11, <2>2 DEF WorkOfFold, FoldPosition
      <3> QED BY <1>3, <1>6, <1>7, <1>8, <1>11, <2>2, <3>1 DEF FolderHolds, Compacting
    <2> QED BY <2>1, <2>2
  <1> QED BY <1>1, <1>3, <1>6, <1>8, <1>9, <1>12, <1>13, <1>14, FolderStep DEF archive

(* A worker that dies or comes back leaves everything else as it is.        *)
LEMMA StopStep == ASSUME ArchiveInv, NEW w \in Workers, Crash(w) \/ Revive(w) PROVE ArchiveInv'
  <1>1. PICK q \in WorkerState : q.pc \notin Compacting \cup FoldSteps /\ worker' = [worker EXCEPT ![w] = q]
    <2>1. [Idle EXCEPT !.pc = "dead"] \in WorkerState
      BY IdleTyped DEF Idle, WorkerState
    <2>2. [Idle EXCEPT !.pc = "dead"].pc \notin Compacting \cup FoldSteps
      BY DEF Idle, Compacting, FoldSteps
    <2>3. CASE Crash(w)
      BY <2>1, <2>2, <2>3 DEF Crash
    <2>4. CASE Revive(w)
      BY <2>4, IdleTyped DEF Revive
    <2> QED BY <2>3, <2>4
  <1>3. /\ UNCHANGED <<revision, archive, truth, phase, fold, fix>>
        /\ lease' = lease \/ lease = w
        /\ folder' = folder \/ folder = w
    BY DEF Crash, Revive
  <1>4. worker'[w] = q /\ \A v \in Workers \ {w} : worker'[v] = worker[v]
    BY <1>1 DEF ArchiveInv, WorkInv, WorkTyped
  <1>5. DataInv'
    BY <1>3, DataStays DEF ArchiveInv, data, archive
  <1>6. WorkTyped' /\ Fresh'
    BY <1>1, <1>3 DEF ArchiveInv, WorkInv, WorkTyped, Fresh, archive
  <1>7. FoldHolds'
    BY <1>3 DEF ArchiveInv, WorkInv, FoldHolds, HaveTops, Installed, Top, OverlaysOf, archive
  <1>8. ASSUME NEW v \in Workers \ {w} PROVE CompactorHolds(v)' /\ FolderHolds(v)'
    <2>1. CompactorHolds(v) /\ FolderHolds(v)
      BY DEF ArchiveInv, WorkInv
    <2>2. CompactorHolds(v)'
      <3>1. Position(worker[v]) => Position(worker[v])'
        BY <1>3, <1>4 DEF Position
      <3>2. Agrees(worker[v].points) => Agrees(worker[v].points)'
        BY <1>3, <1>4 DEF Agrees, archive
      <3>3. worker[v].pc \in Compacting => lease = v /\ lease' = lease
        BY <1>3, <1>8, <2>1 DEF CompactorHolds
      <3>4. worker[v].pc = "segment" => worker[v].pc \in Compacting
        BY DEF Compacting
      <3> QED BY <1>4, <1>8, <2>1, <3>1, <3>2, <3>3, <3>4 DEF CompactorHolds
    <2>3. FolderHolds(v)'
      <3>1. FoldPosition(worker[v]) => FoldPosition(worker[v])'
        BY <1>3, <1>4 DEF FoldPosition
      <3>2. Installed(worker[v].points, fold.mark) => Installed(worker[v].points, fold.mark)'
        BY <1>3, <1>4 DEF Installed, Top, OverlaysOf, archive
      <3>3. OthersKept(worker[v].points, fold.mark) => OthersKept(worker[v].points, fold.mark)'
        BY <1>3, <1>4 DEF OthersKept, OverlaysOf, archive
      <3>4. Installed(segment, fold.mark) => Installed(segment, fold.mark)'
        BY <1>3 DEF Installed, Top, OverlaysOf, archive
      <3> QED BY <1>3, <1>4, <1>8, <2>1, <3>1, <3>2, <3>3, <3>4 DEF FolderHolds
    <2> QED BY <2>2, <2>3
  <1>9. CompactorHolds(w)' /\ FolderHolds(w)'
    BY <1>1, <1>4 DEF CompactorHolds, FolderHolds
  <1> QED BY <1>5, <1>6, <1>7, <1>8, <1>9 DEF ArchiveInv, WorkInv

(* A write leaves the workers as they are: it has a later number than all   *)
(* they have read.                                                          *)
LEMMA WriteStep ==
  ASSUME ArchiveInv, DataInv', revision' = revision + 1,
         UNCHANGED <<segment, generation, phase, lease, fold, folder, worker>>,
         \A i \in DOMAIN rows' : (i \in DOMAIN rows /\ rows'[i] = rows[i]) \/ rows'[i].rev = revision + 1,
         DOMAIN truth \subseteq DOMAIN truth', Fresh',
         \A o \in overlays' \ overlays : o.rev = revision + 1, overlays \subseteq overlays'
  PROVE  ArchiveInv'
  <1>1. revision \in Nat /\ \A w \in Workers : worker[w] \in WorkerState
    BY DEF ArchiveInv, DataInv, DataTyped, WorkInv, WorkTyped
  <1>2. PICK mark \in Nat : mark = fold.mark
    BY DEF ArchiveInv, WorkInv, WorkTyped
  <1>3. mark <= revision
    BY <1>2 DEF ArchiveInv, WorkInv, FoldHolds
  <1>4. SameOverlays(mark)
    BY <1>1, <1>3 DEF SameOverlays, OverlaysOf
  <1>5. FoldHolds' /\ \A w \in Workers : FolderHolds(w)'
    BY <1>1, <1>2, <1>4, FoldStays DEF ArchiveInv
  <1>6. ASSUME NEW w \in Workers PROVE CompactorHolds(w)'
    <2>1. \A i \in DOMAIN worker[w].points : worker[w].points[i] \in Nat
      BY <1>1, SegmentOf DEF WorkerState
    <2>2. Agrees(worker[w].points) => Agrees(worker[w].points)'
      BY <1>1, <2>1 DEF Agrees
    <2> QED BY <2>2 DEF ArchiveInv, WorkInv, CompactorHolds, Position
  <1>7. WorkTyped'
    BY DEF ArchiveInv, WorkInv, WorkTyped
  <1> QED BY <1>5, <1>6, <1>7 DEF ArchiveInv, WorkInv

LEMMA ArriveStep == ASSUME ArchiveInv, NEW i \in Ids, Arrive(i) PROVE ArchiveInv'
  <1>1. DataInv' /\ revision' = revision + 1
    BY ArriveKeeps DEF ArchiveInv, Arrive
  <1>2. /\ DOMAIN rows' = DOMAIN rows \cup {i} /\ rows'[i].rev = revision + 1
        /\ \A j \in DOMAIN rows \ {i} : rows'[j] = rows[j]
        /\ DOMAIN truth' = DOMAIN truth \cup {i}
    BY DEF Arrive, Put
  <1>3. UNCHANGED <<segment, generation, rollups, overlays, phase, lease, fold, folder, worker, fix, crashes>>
    BY DEF Arrive
  <1>4. Fresh'
    BY <1>2, <1>3 DEF ArchiveInv, WorkInv, Fresh
  <1> QED BY <1>1, <1>2, <1>3, <1>4, WriteStep

LEMMA CorrectStep == ASSUME ArchiveInv, NEW deleted \in BOOLEAN, Correct(deleted) PROVE ArchiveInv'
  <1> DEFINE i == fix.id
             write == [rev |-> revision + 1, deleted |-> deleted]
             overlay == [id |-> i, rev |-> revision + 1, deleted |-> deleted]
  <1>1. DataInv'
    BY CorrectKeeps DEF ArchiveInv
  <1>2. UNCHANGED <<segment, generation, rollups, phase, lease, fold, folder, worker, crashes>>
    BY DEF Correct
  <1>3. i \in DOMAIN truth /\ (fix.archived => i \notin DOMAIN rows)
    BY DEF Correct, ArchiveInv, DataInv, FixHolds
  <1>4. CASE UNCHANGED <<revision, truth, rows, overlays>>
    <2>1. WorkTyped' /\ Fresh'
      BY <1>2, <1>4 DEF ArchiveInv, WorkInv, WorkTyped, Fresh
    <2>2. PICK mark \in Nat : mark = fold.mark
      BY DEF ArchiveInv, WorkInv, WorkTyped
    <2>3. SameOverlays(mark) /\ revision \in Nat
      BY <1>4 DEF SameOverlays, OverlaysOf, ArchiveInv, DataInv, DataTyped
    <2>4. FoldHolds' /\ \A w \in Workers : FolderHolds(w)'
      BY <1>2, <1>4, <2>2, <2>3, FoldStays DEF ArchiveInv
    <2>5. \A w \in Workers : CompactorHolds(w)'
      BY <1>2, <1>4 DEF ArchiveInv, WorkInv, CompactorHolds, Position, Agrees
    <2> QED BY <1>1, <2>1, <2>4, <2>5 DEF ArchiveInv, WorkInv
  <1>5. CASE /\ revision' = revision + 1 /\ truth' = [truth EXCEPT ![i] = write]
             /\ i \in DOMAIN rows /\ rows' = [rows EXCEPT ![i] = write] /\ UNCHANGED overlays
    <2>1. Fresh'
      BY <1>2, <1>5 DEF ArchiveInv, WorkInv, Fresh
    <2>2. \A j \in DOMAIN rows' : (j \in DOMAIN rows /\ rows'[j] = rows[j]) \/ rows'[j].rev = revision + 1
      BY <1>5
    <2> QED BY <1>1, <1>2, <1>5, <2>1, <2>2, WriteStep
  <1>6. CASE /\ revision' = revision + 1 /\ truth' = [truth EXCEPT ![i] = write]
             /\ i \notin DOMAIN rows /\ overlays' = overlays \cup {overlay} /\ UNCHANGED rows
    <2>1. Fresh'
      BY <1>2, <1>3, <1>6 DEF ArchiveInv, WorkInv, Fresh
    <2>2. \A o \in overlays' \ overlays : o.rev = revision + 1
      BY <1>6
    <2> QED BY <1>1, <1>2, <1>6, <2>1, <2>2, WriteStep
  <1> QED BY <1>3, <1>4, <1>5, <1>6 DEF Correct

(* A step that writes nothing.                                              *)
LEMMA ReadStep ==
  ASSUME ArchiveInv, DataInv',
         UNCHANGED <<revision, rows, segment, generation, overlays, truth, phase, lease, fold, folder, worker>>
  PROVE  ArchiveInv'
  <1>1. WorkTyped' /\ Fresh'
    BY DEF ArchiveInv, WorkInv, WorkTyped, Fresh
  <1>2. PICK mark \in Nat : mark = fold.mark
    BY DEF ArchiveInv, WorkInv, WorkTyped
  <1>3. SameOverlays(mark) /\ revision \in Nat
    BY DEF SameOverlays, OverlaysOf, ArchiveInv, DataInv, DataTyped
  <1>4. FoldHolds' /\ \A w \in Workers : FolderHolds(w)'
    BY <1>2, <1>3, FoldStays DEF ArchiveInv
  <1>5. \A w \in Workers : CompactorHolds(w)'
    BY DEF ArchiveInv, WorkInv, CompactorHolds, Position, Agrees
  <1> QED BY <1>1, <1>4, <1>5 DEF ArchiveInv, WorkInv

LEMMA StepKeeps == ASSUME WorkersStop, ArchiveInv, [Next]_vars PROVE ArchiveInv'
  <1>1. CASE \E i \in Ids : Arrive(i) \/ ReadForCorrection(i)
    <2>1. ASSUME NEW i \in Ids, ReadForCorrection(i) PROVE ArchiveInv'
      BY <2>1, ReadForCorrectionKeeps, ReadStep DEF ArchiveInv, ReadForCorrection, archive
    <2> QED BY <1>1, <2>1, ArriveStep
  <1>2. CASE \E deleted \in BOOLEAN : Correct(deleted)
    BY <1>2, CorrectStep
  <1>3. CASE \E w \in Compactors : Compaction(w)
    BY <1>3, AcquireStep, QuietSteps, WriteSegmentStep, DeleteStep DEF Compaction
  <1>4. CASE \E w \in Folders : Folding(w)
    BY <1>4, PrepareStep, MergedPointsStep, ReplaceStep, SweepStep, AdvanceFoldStep DEF Folding
  <1>5. CASE \E w \in Workers : Crash(w) \/ Revive(w)
    BY <1>5, StopStep
  <1>6. CASE UNCHANGED vars
    BY <1>6, DataStays, ReadStep DEF ArchiveInv, vars, data
  <1> QED BY <1>1, <1>2, <1>3, <1>4, <1>5, <1>6 DEF Next

-----------------------------------------------------------------------------
(* The data and the workers are what ArchiveInv says in every state of a    *)
(* day, if workers stop when their lease passes on.                         *)
THEOREM ArchiveInvariant == ASSUME WorkersStop PROVE Spec => []ArchiveInv
  <1>1. Init => ArchiveInv
    BY InitInv
  <1>2. ArchiveInv /\ [Next]_vars => ArchiveInv'
    BY StepKeeps
  <1> QED BY <1>1, <1>2, PTL DEF Spec

(* A read of the day returns every accepted observation once, at its last   *)
(* accepted revision, at every step of compaction and folding, whatever     *)
(* arrives late, is corrected or crashes.                                   *)
THEOREM ReadsStayTrue == ASSUME WorkersStop PROVE Spec => []ReadsAreTrue
  <1>1. ArchiveInv => ReadsAreTrue
    BY ReadsFollow
  <1> QED BY <1>1, ArchiveInvariant, PTL

-----------------------------------------------------------------------------
(* The checkpoint never runs ahead of the server (module Uploader).  With   *)
(* times completed in order, the reading of a time is the same whenever it  *)
(* is read: all its rows, and the energy since the time before.             *)
UploadBounds == LastTime \in Nat /\ BatchSize \in Nat

Moments == 1 .. LastTime
Full(t) == [rows |-> Inverters, since |-> t - 1]
InFlight == pc \in {"sending", "replied"}

Arrivals ==
  /\ source \in [Moments -> SUBSET Inverters]
  /\ ~scattered => \A t \in Moments : source[t] # {} =>
       Inverters # {} /\ source[t] = Inverters /\ \A u \in Moments : u < t => source[u] = Inverters

(* A batch in flight: readings, and in order the ones after the cursor      *)
(* without a gap.                                                           *)
BatchHolds ==
  /\ DOMAIN page \subseteq Moments /\ DOMAIN page # {}
  /\ \A t \in DOMAIN page : page[t] # Upload!Nothing
  /\ ~scattered => \A t \in DOMAIN page :
       /\ source[t] # {} /\ page[t] = Full(t)
       /\ \A u \in Moments : cursor < u /\ u < t => u \in DOMAIN page
  /\ pc = "replied" => \A t \in DOMAIN page : server[t] = page[t]

ServerHolds ==
  /\ checkpoint \in 0 .. LastTime /\ cursor = checkpoint
  /\ checkpoint > 0 => server[checkpoint] # Upload!Nothing
  /\ ~scattered => \A t \in Moments :
       /\ server[t] # Upload!Nothing => server[t] = Full(t)
       /\ t <= checkpoint => source[t] # {} /\ server[t] = Full(t)

UploadInv ==
  /\ Arrivals /\ ServerHolds
  /\ InFlight => BatchHolds

LEMMA UploadCounts == \A S : Upload!Cardinality(S) = Cardinality(S)
  BY DEF Upload!Cardinality, Cardinality

LEMMA Least == ASSUME NEW T, T \subseteq Nat, T # {} PROVE \E n \in T : \A m \in T : n <= m
  <1> DEFINE Below == {ss \in Nat \X Nat : ss[1] < ss[2]}
  <1>1. OpToRel(<, Nat) = Below
    BY Zenon DEF OpToRel
  <1> HIDE DEF Below
  <1>2. IsWellFoundedOn(Below, Nat)
    BY <1>1, NatLessThanWellFounded, Zenon
  <1>3. PICK n \in T : \A m \in T : <<m, n>> \notin Below
    BY <1>2, WFMin
  <1>4. \A m \in Nat : m < n => <<m, n>> \in Below
    <2>1. n \in Nat
      OBVIOUS
    <2> QED BY <2>1 DEF Below
  <1>5. \A m \in T : ~(m < n)
    BY <1>3, <1>4
  <1>6. n \in Nat /\ \A m \in T : m \in Nat
    OBVIOUS
  <1> QED BY <1>5, <1>6

(* The last time of a batch.                                                *)
LEMMA LastIsLast ==
  ASSUME LastTime \in Nat, NEW p, DOMAIN p \subseteq Moments, DOMAIN p # {}
  PROVE  Upload!Last(p) \in DOMAIN p /\ \A u \in DOMAIN p : u <= Upload!Last(p)
<1> DEFINE T == {LastTime - t : t \in DOMAIN p}
<1>1. T \subseteq Nat /\ T # {}
  BY DEF Moments
<1>2. PICK n \in T : \A m \in T : n <= m
  BY <1>1, Least
<1>3. PICK t \in DOMAIN p : n = LastTime - t
  BY <1>2
<1>4. \A u \in DOMAIN p : u <= t
  BY <1>2, <1>3 DEF Moments
<1>5. \E x \in DOMAIN p : \A u \in DOMAIN p : u <= x
  BY <1>3, <1>4
<1> QED BY <1>5 DEF Upload!Last

(* What is read of a time whose rows are complete, as those before it are.  *)
LEMMA FullReading ==
  ASSUME UploadBounds, Arrivals, ~scattered, NEW t \in Moments, source[t] # {}
  PROVE  Upload!Reading(t) = Full(t)
<1> DEFINE earlier == {u \in Upload!Present : u < t}
           last == CHOOSE u \in earlier : \A v \in earlier : v <= u
<1>1. source[t] = Inverters /\ \A u \in Moments : u < t => source[u] = Inverters /\ source[u] # {}
  BY DEF Arrivals
<1>2. earlier = {u \in Moments : u < t}
  BY <1>1 DEF Upload!Present, Moments
<1>3. Upload!Reading(t) = [rows |-> source[t], since |-> IF earlier # {} /\ Upload!Cardinality(source[last]) = Upload!Cardinality(source[t]) THEN last ELSE 0]
  BY DEF Upload!Reading
<1>4. CASE t = 1
  <2>1. earlier = {}
    BY <1>2, <1>4 DEF Moments
  <2> HIDE DEF earlier
  <2> QED BY <1>1, <1>3, <1>4, <2>1 DEF Full
<1>5. CASE t # 1
  <2>1. t - 1 \in earlier /\ \A v \in earlier : v <= t - 1
    BY <1>2, <1>5 DEF Moments, UploadBounds
  <2>2. \A u \in earlier : (\A v \in earlier : v <= u) => u = t - 1
    BY <1>2, <2>1 DEF Moments, UploadBounds
  <2>3. last = t - 1
    <3> HIDE DEF earlier
    <3> QED BY <2>1, <2>2
  <2>4. source[t - 1] = Inverters
    BY <1>1, <1>2, <2>1
  <2>5. earlier # {}
    BY <2>1
  <2> HIDE DEF earlier, last
  <2> QED BY <1>1, <1>3, <2>3, <2>4, <2>5 DEF Full
<1> QED BY <1>4, <1>5

(* A page has no gap: what lies between the cursor and one of its times is  *)
(* on it.                                                                   *)
LEMMA PageHasNoGap ==
  ASSUME UploadBounds, NEW t \in Upload!PageTimes, NEW u \in Upload!Present, cursor < u, u < t, cursor \in Nat
  PROVE  u \in Upload!PageTimes
<1> DEFINE Between(v) == {w \in Upload!Present : cursor < w /\ w < v}
<1>1. Upload!Present \subseteq Moments /\ t \in Upload!Present
  BY DEF Upload!Present, Upload!PageTimes, Moments
<1>2. IsFiniteSet(Moments)
  BY FS_Interval DEF Moments, UploadBounds
<1>3. Between(u) \subseteq Between(t) /\ IsFiniteSet(Between(t)) /\ IsFiniteSet(Between(u))
  <2>1. ASSUME NEW w \in Upload!Present, w < u PROVE w < t
    BY <1>1, <2>1 DEF Moments, UploadBounds
  <2>2. Between(t) \subseteq Moments /\ Between(u) \subseteq Moments
    BY <1>1
  <2>3. Between(u) \subseteq Between(t)
    BY <2>1
  <2> QED BY <1>2, <2>2, <2>3, FS_Subset
<1>4. Cardinality(Between(u)) <= Cardinality(Between(t)) /\ Cardinality(Between(u)) \in Nat /\ Cardinality(Between(t)) \in Nat
  BY <1>3, FS_Subset, FS_CardinalityType
<1>5. Cardinality(Between(t)) < BatchSize
  BY UploadCounts DEF Upload!PageTimes
<1>6. Cardinality(Between(u)) < BatchSize
  <2> HIDE DEF Between
  <2> QED BY <1>4, <1>5 DEF UploadBounds
<1>7. Upload!Cardinality({w \in Upload!Present : cursor < w /\ w < u}) < BatchSize
  BY <1>6, UploadCounts
<1> QED BY <1>7 DEF Upload!PageTimes

LEMMA InitUploader == ASSUME UploadBounds, Upload!Init PROVE UploadInv
<1>1. Arrivals
  BY DEF Upload!Init, Arrivals, Moments
<1>2. ServerHolds /\ ~InFlight
  BY DEF Upload!Init, ServerHolds, InFlight, Moments, UploadBounds
<1> QED BY <1>1, <1>2 DEF UploadInv

LEMMA RowArrivesStep ==
  ASSUME UploadBounds, UploadInv, NEW t \in Moments, NEW i \in Inverters, Upload!RowArrives(t, i)
  PROVE  UploadInv'
<1>1. /\ i \notin source[t] /\ source' = IF scattered THEN [source EXCEPT ![t] = @ \cup {i}] ELSE [source EXCEPT ![t] = Inverters]
      /\ scattered \/ \A u \in Moments : u < t => source[u] = Inverters
      /\ UNCHANGED <<scattered, checkpoint, cursor, pc, page, attempt, server, stops>>
  BY DEF Upload!RowArrives, Moments
<1>2. source' \in [Moments -> SUBSET Inverters]
  BY <1>1 DEF UploadInv, Arrivals
<1>3. ASSUME ~scattered PROVE \A u \in Moments : source'[u] = IF u = t THEN Inverters ELSE source[u]
  BY <1>1, <1>3 DEF UploadInv, Arrivals
<1>4. ASSUME ~scattered, NEW v \in Moments, source'[v] # {}
      PROVE  Inverters # {} /\ source'[v] = Inverters /\ \A u \in Moments : u < v => source'[u] = Inverters
  BY <1>1, <1>3, <1>4 DEF UploadInv, Arrivals
<1>5. Arrivals'
  BY <1>1, <1>2, <1>4 DEF Arrivals
<1>6. ~scattered => \A u \in Moments : source[u] # {} => source'[u] # {}
  BY <1>3
<1>7. ServerHolds'
  BY <1>1, <1>6 DEF UploadInv, ServerHolds
<1>8. InFlight' => BatchHolds'
  BY <1>1, <1>6 DEF UploadInv, InFlight, BatchHolds, Moments
<1> QED BY <1>5, <1>7, <1>8 DEF UploadInv

(* A step that leaves the rows, the checkpoint and the server alone.        *)
LEMMA UploaderMoves ==
  ASSUME UploadInv, UNCHANGED <<scattered, source, checkpoint, server>>, cursor' = checkpoint, InFlight' => BatchHolds'
  PROVE  UploadInv'
BY DEF UploadInv, Arrivals, ServerHolds

LEMMA PageReadStep == ASSUME UploadBounds, UploadInv, Upload!ReadAfter PROVE UploadInv'
<1>1. UNCHANGED <<scattered, source, checkpoint, cursor, server>> /\ cursor = checkpoint
  BY DEF Upload!ReadAfter, UploadInv, ServerHolds
<1>2. CASE Upload!PageTimes = {}
  <2>1. ~InFlight'
    BY <1>2 DEF Upload!ReadAfter, InFlight
  <2> QED BY <1>1, <2>1, UploaderMoves
<1>3. CASE Upload!PageTimes # {}
  <2>1. pc' = "sending" /\ page' = [t \in Upload!PageTimes |-> Upload!Reading(t)]
    BY <1>3 DEF Upload!ReadAfter
  <2>2. DOMAIN page' = Upload!PageTimes /\ Upload!PageTimes \subseteq Upload!Present /\ Upload!Present \subseteq Moments
    BY <2>1 DEF Upload!PageTimes, Upload!Present, Moments
  <2>3. ASSUME NEW t \in Upload!PageTimes PROVE source[t] # {} /\ cursor < t /\ page'[t] = Upload!Reading(t)
    BY <2>1 DEF Upload!PageTimes, Upload!Present
  <2>4. ASSUME NEW t \in Upload!PageTimes PROVE page'[t] # Upload!Nothing
    <3>1. Upload!Reading(t).rows = source[t]
      BY DEF Upload!Reading
    <3> QED BY <2>3, <3>1 DEF Upload!Nothing
  <2>5. ASSUME ~scattered, NEW t \in Upload!PageTimes
        PROVE  /\ source[t] # {} /\ page'[t] = Full(t)
               /\ \A u \in Moments : cursor < u /\ u < t => u \in Upload!PageTimes
    <3>1. page'[t] = Full(t)
      BY <2>2, <2>3, <2>5, FullReading DEF UploadInv
    <3>2. ASSUME NEW u \in Moments, cursor < u, u < t PROVE u \in Upload!PageTimes
      <4>1. source[u] # {}
        BY <2>2, <2>3, <2>5, <3>2 DEF UploadInv, Arrivals
      <4>2. u \in Upload!Present /\ cursor \in Nat
        BY <4>1 DEF Upload!Present, Moments, UploadInv, ServerHolds
      <4> QED BY <3>2, <4>2, PageHasNoGap
    <3> QED BY <2>3, <3>1, <3>2
  <2>6. BatchHolds'
    BY <1>1, <1>3, <2>1, <2>2, <2>4, <2>5 DEF BatchHolds
  <2> QED BY <1>1, <2>6, UploaderMoves
<1> QED BY <1>2, <1>3

(* The server that took the batch.                                          *)
LEMMA BatchTaken ==
  ASSUME UploadBounds, UploadInv, BatchHolds, server' = Upload!Accepted, UNCHANGED <<scattered, source, checkpoint, cursor, page>>
  PROVE  Arrivals' /\ ServerHolds' /\ BatchHolds' /\ \A t \in DOMAIN page : server'[t] = page[t]
<1>1. \A t \in Moments : server'[t] = IF t \in DOMAIN page THEN page[t] ELSE server[t]
  BY DEF Upload!Accepted, Moments
<1>2. \A t \in DOMAIN page : t \in Moments /\ server'[t] = page[t] /\ page[t] # Upload!Nothing
  BY <1>1 DEF BatchHolds
<1>3. Arrivals'
  BY DEF UploadInv, Arrivals
<1>4. BatchHolds'
  BY <1>2 DEF BatchHolds
<1>5. checkpoint' > 0 => server'[checkpoint'] # Upload!Nothing
  <2>1. ASSUME checkpoint > 0 PROVE server'[checkpoint] # Upload!Nothing
    <3>1. checkpoint \in Moments /\ server[checkpoint] # Upload!Nothing
      BY <2>1 DEF UploadInv, ServerHolds, Moments, UploadBounds
    <3> QED BY <1>1, <1>2, <3>1
  <2> QED BY <2>1
<1>6. ASSUME ~scattered, NEW t \in Moments
      PROVE  /\ server'[t] # Upload!Nothing => server'[t] = Full(t)
             /\ t <= checkpoint => source[t] # {} /\ server'[t] = Full(t)
  BY <1>1, <1>6 DEF BatchHolds, UploadInv, ServerHolds
<1>7. ServerHolds'
  BY <1>5, <1>6 DEF UploadInv, ServerHolds, Full
<1> QED BY <1>2, <1>3, <1>4, <1>7

LEMMA BatchSentStep == ASSUME UploadBounds, UploadInv, Upload!Send PROVE UploadInv'
<1>1. BatchHolds /\ UNCHANGED <<scattered, source, checkpoint, cursor, page>> /\ cursor = checkpoint
  BY DEF Upload!Send, UploadInv, InFlight, ServerHolds
<1>2. CASE Upload!Refused
  <2>1. UNCHANGED server /\ ~InFlight'
    BY <1>2 DEF Upload!Send, InFlight
  <2> QED BY <1>1, <2>1, UploaderMoves
<1>3. CASE ~Upload!Refused
  <2>1. server' = Upload!Accepted
    BY <1>3 DEF Upload!Send
  <2> QED BY <1>1, <2>1, BatchTaken DEF UploadInv
<1> QED BY <1>2, <1>3

LEMMA SendFailedStep == ASSUME UploadBounds, UploadInv, NEW arrived \in BOOLEAN, Upload!SendFails(arrived) PROVE UploadInv'
<1>1. /\ pc = "sending" /\ pc' \in {"sending", "failed"} /\ BatchHolds
      /\ UNCHANGED <<scattered, source, checkpoint, cursor, page>> /\ cursor = checkpoint
  BY DEF Upload!SendFails, UploadInv, InFlight, ServerHolds
<1>2. CASE server' = server
  <2>1. BatchHolds'
    BY <1>1, <1>2 DEF BatchHolds
  <2> QED BY <1>1, <1>2, <2>1, UploaderMoves
<1>3. CASE server' = Upload!Accepted
  BY <1>1, <1>3, BatchTaken DEF UploadInv
<1> QED BY <1>2, <1>3 DEF Upload!SendFails

LEMMA CheckpointSavedStep == ASSUME UploadBounds, UploadInv, Upload!Save PROVE UploadInv'
<1> DEFINE l == Upload!Last(page)
<1>1. /\ pc = "replied" /\ BatchHolds /\ checkpoint' = l /\ cursor' = l /\ ~InFlight'
      /\ UNCHANGED <<scattered, source, page, server>>
  BY DEF Upload!Save, UploadInv, InFlight
<1>2. l \in DOMAIN page /\ \A u \in DOMAIN page : u <= l
  BY <1>1, LastIsLast DEF BatchHolds, UploadBounds
<1>3. l \in Moments /\ server[l] # Upload!Nothing
  BY <1>1, <1>2 DEF BatchHolds
<1> HIDE DEF l
<1>4. ASSUME ~scattered, NEW t \in Moments, t <= l PROVE source[t] # {} /\ server[t] = Full(t)
  <2>1. cursor = checkpoint /\ cursor \in Nat
    BY DEF UploadInv, ServerHolds
  <2>2. CASE t <= cursor
    BY <1>4, <2>1, <2>2 DEF UploadInv, ServerHolds
  <2>3. CASE cursor < t
    <3>1. t \in DOMAIN page
      BY <1>1, <1>2, <1>3, <1>4, <2>3 DEF BatchHolds, Moments, UploadBounds
    <3> QED BY <1>1, <1>4, <3>1 DEF BatchHolds
  <2> QED BY <2>1, <2>2, <2>3 DEF Moments
<1>5. Arrivals'
  BY <1>1 DEF UploadInv, Arrivals
<1>6. ServerHolds'
  BY <1>1, <1>3, <1>4 DEF UploadInv, ServerHolds, Full, Moments, UploadBounds
<1> QED BY <1>1, <1>5, <1>6 DEF UploadInv

LEMMA StepUploader == ASSUME UploadBounds, UploadInv, [Upload!Next]_Upload!vars PROVE UploadInv'
<1>1. CASE Upload!Load \/ Upload!Crash \/ Upload!Restart
  <2>1. UNCHANGED <<scattered, source, checkpoint, server>> /\ cursor' = checkpoint /\ ~InFlight'
    BY <1>1 DEF Upload!Load, Upload!Crash, Upload!Restart, UploadInv, ServerHolds, InFlight
  <2> QED BY <2>1, UploaderMoves
<1>2. CASE UNCHANGED Upload!vars
  <2>1. UNCHANGED <<scattered, source, checkpoint, cursor, pc, page, server>>
    BY <1>2 DEF Upload!vars
  <2>2. InFlight' => BatchHolds'
    BY <2>1 DEF UploadInv, InFlight, BatchHolds
  <2>3. cursor' = checkpoint
    BY <2>1 DEF UploadInv, ServerHolds
  <2> QED BY <2>1, <2>2, <2>3, UploaderMoves
<1>3. ASSUME NEW t \in 1 .. LastTime, NEW i \in Inverters, Upload!RowArrives(t, i) PROVE UploadInv'
  BY <1>3, RowArrivesStep DEF Moments
<1> QED BY <1>1, <1>2, <1>3, PageReadStep, BatchSentStep, SendFailedStep, CheckpointSavedStep DEF Upload!Next

(* Whatever of requests, replies, saves and processes fails: the batch in   *)
(* flight begins after the checkpoint and leaves nothing out, and what the  *)
(* server has is what was read (push_pending, post_batch).                  *)
THEOREM UploaderInvariant == ASSUME UploadBounds PROVE Upload!Spec => []UploadInv
<1>1. Upload!Init => UploadInv
  BY InitUploader
<1>2. UploadInv /\ [Upload!Next]_Upload!vars => UploadInv'
  BY StepUploader
<1> QED BY <1>1, <1>2, PTL DEF Upload!Spec

(* The cursor file never runs ahead of the server, and with times completed *)
(* in order what it covers is stored as it is read (push_pending,           *)
(* CursorStore::save).                                                      *)
THEOREM CheckpointKept == ASSUME UploadBounds PROVE Upload!Spec => []CheckpointCovers
<1>1. UploadInv => CheckpointCovers
  <2>1. ASSUME UploadInv, ~scattered, NEW t \in 1 .. LastTime, t <= checkpoint PROVE server[t] = Upload!Reading(t)
    <3>1. source[t] # {} /\ server[t] = Full(t)
      BY <2>1 DEF UploadInv, ServerHolds, Moments
    <3> QED BY <2>1, <3>1, FullReading DEF UploadInv, Moments
  <2> QED BY <2>1 DEF UploadInv, ServerHolds, CheckpointCovers, Upload!CheckpointCovers
<1> QED BY <1>1, UploaderInvariant, PTL

-----------------------------------------------------------------------------
(* A delivery ends for the reasons the limit gives (module Webhooks).  As   *)
(* long as nothing was lost, one worker at a time holds the item, as it is. *)
AttemptsAllowed == DeliveryAttempts \in Nat \ {0}

Items == [state : {"pending", "retrying", "delivered", "dead"}, attempts : Nat, due : BOOLEAN]
Holds == [pc : {"idle", "send", "save"}, item : Items, ok : BOOLEAN]

DeliveryTyped ==
  /\ item \in Items /\ leased \in BOOLEAN
  /\ sender \in [Senders -> Holds]
  /\ found \in Nat /\ sent \in Nat /\ accepted \in BOOLEAN /\ losses \in Nat

Holding(w) == sender[w].pc # "idle"

(* The only worker that holds the item, and what it did so far.             *)
Handled(w) ==
  /\ leased /\ \A v \in Senders : Holding(v) => v = w
  /\ sender[w].item = item /\ item.due /\ ~Hook!Settled
  /\ sent = item.attempts + (IF sender[w].pc = "save" THEN 1 ELSE 0)
  /\ accepted <=> (sender[w].pc = "save" /\ sender[w].ok)

Unhandled ==
  /\ accepted <=> item.state = "delivered"
  /\ item.state # "delivered" => sent = item.attempts

DeliveryHolds ==
  /\ item.state \in {"pending", "retrying"} => item.attempts < DeliveryAttempts
  /\ item.state = "dead" => item.attempts = DeliveryAttempts
  /\ \A w \in Senders : Holding(w) => Handled(w)
  /\ (\A w \in Senders : ~Holding(w)) => Unhandled

DeliveryInv ==
  /\ DeliveryTyped
  /\ losses = 0 => DeliveryHolds

LEMMA InitWebhooks == ASSUME AttemptsAllowed, Hook!Init PROVE DeliveryInv
<1>1. DeliveryTyped
  BY DEF Hook!Init, Hook!New, Hook!Idle, DeliveryTyped, Items, Holds
<1>2. DeliveryHolds
  BY DEF Hook!Init, Hook!New, Hook!Idle, DeliveryHolds, Holding, Unhandled, AttemptsAllowed
<1> QED BY <1>1, <1>2 DEF DeliveryInv

LEMMA ClaimedStep == ASSUME AttemptsAllowed, DeliveryInv, NEW w \in Senders, Hook!Claim(w) PROVE DeliveryInv'
<1>1. /\ ~Holding(w) /\ ~leased /\ ~Hook!Settled /\ item.due /\ leased' = TRUE
      /\ sender' = [sender EXCEPT ![w] = [pc |-> "send", item |-> item, ok |-> FALSE]]
      /\ UNCHANGED <<item, found, sent, accepted, replays, losses>>
  BY DEF Hook!Claim, Holding
<1>2. DeliveryTyped'
  BY <1>1 DEF DeliveryInv, DeliveryTyped, Holds
<1>3. ASSUME losses = 0 PROVE DeliveryHolds'
  <2>1. \A v \in Senders : ~Holding(v)
    BY <1>1, <1>3 DEF DeliveryInv, DeliveryHolds, Handled
  <2>2. Unhandled
    BY <1>3, <2>1 DEF DeliveryInv, DeliveryHolds
  <2>3. sender'[w].pc = "send" /\ sender'[w].item = item /\ \A v \in Senders \ {w} : sender'[v] = sender[v]
    BY <1>1 DEF DeliveryInv, DeliveryTyped
  <2>4. \A v \in Senders : Holding(v)' => v = w
    BY <2>1, <2>3 DEF Holding
  <2>5. sent = item.attempts /\ ~accepted /\ sent \in Nat
    BY <1>1, <2>2 DEF Unhandled, Hook!Settled, DeliveryInv, DeliveryTyped, Items
  <2>6. Handled(w)'
    BY <1>1, <2>3, <2>4, <2>5 DEF Handled, Hook!Settled
  <2>7. Holding(w)'
    BY <2>3 DEF Holding
  <2> QED BY <1>1, <1>3, <2>4, <2>6, <2>7 DEF DeliveryInv, DeliveryHolds
<1> QED BY <1>1, <1>2, <1>3 DEF DeliveryInv

LEMMA RequestSentStep ==
  ASSUME AttemptsAllowed, DeliveryInv, NEW w \in Senders, NEW ok \in BOOLEAN, Hook!Send(w, ok) PROVE DeliveryInv'
<1>1. /\ sender[w].pc = "send" /\ sender' = [sender EXCEPT ![w].pc = "save", ![w].ok = ok]
      /\ sent' = (IF sent > DeliveryAttempts THEN sent ELSE sent + 1) /\ accepted' = (accepted \/ ok)
      /\ UNCHANGED <<item, leased, found, replays, losses>>
  BY DEF Hook!Send
<1>2. PICK yes \in BOOLEAN : yes = (accepted \/ ok)
  BY Zenon
<1>3. accepted' = yes
  BY <1>1, <1>2, Zenon
<1>4. sender' \in [Senders -> Holds] /\ sender'[w].pc = "save" /\ sender'[w].ok = ok /\ sender'[w].item = sender[w].item
  BY <1>1 DEF DeliveryInv, DeliveryTyped, Holds
<1>5. \A v \in Senders \ {w} : sender'[v] = sender[v]
  BY <1>1 DEF DeliveryInv, DeliveryTyped
<1>6. DeliveryTyped'
  BY <1>1, <1>3, <1>4 DEF DeliveryInv, DeliveryTyped
<1>7. ASSUME losses = 0 PROVE DeliveryHolds'
  <2>1. Handled(w) /\ item.state # "dead" /\ item.attempts < DeliveryAttempts /\ item.attempts \in Nat
    BY <1>1, <1>7 DEF DeliveryInv, DeliveryHolds, Holding, Handled, Hook!Settled, DeliveryTyped, Items
  <2>2. sent = item.attempts /\ ~accepted
    BY <1>1, <2>1 DEF Handled
  <2>3. sent' = item.attempts + 1
    BY <1>1, <2>1, <2>2 DEF AttemptsAllowed
  <2>4. accepted' <=> ok
    BY <1>1, <2>2, Zenon
  <2>5. \A v \in Senders : Holding(v)' => v = w
    BY <1>1, <1>5, <2>1 DEF Handled, Holding
  <2>6. Handled(w)'
    BY <1>1, <1>4, <2>1, <2>3, <2>4, <2>5 DEF Handled, Hook!Settled
  <2>7. Holding(w)'
    BY <1>4 DEF Holding
  <2> QED BY <1>1, <1>7, <2>5, <2>6, <2>7 DEF DeliveryInv, DeliveryHolds
<1> QED BY <1>1, <1>6, <1>7 DEF DeliveryInv

LEMMA DeliverySavedStep == ASSUME AttemptsAllowed, DeliveryInv, NEW w \in Senders, Hook!Save(w) PROVE DeliveryInv'
<1> DEFINE i == sender[w].item
           ok == sender[w].ok
<1>1. /\ sender[w].pc = "save" /\ item' = Hook!Attempted(i, ok) /\ leased' = FALSE
      /\ sender' = [sender EXCEPT ![w] = Hook!Idle]
      /\ UNCHANGED <<found, sent, accepted, replays, losses>>
  BY DEF Hook!Save
<1>2. i \in Items /\ ok \in BOOLEAN
  BY DEF DeliveryInv, DeliveryTyped, Holds
<1>3. /\ item'.attempts = i.attempts + 1 /\ item'.due = FALSE
      /\ item'.state = IF ok THEN "delivered" ELSE IF i.attempts + 1 >= DeliveryAttempts THEN "dead" ELSE "retrying"
  BY <1>1 DEF Hook!Attempted
<1>4. item' \in Items
  BY <1>1, <1>2 DEF Hook!Attempted, Items
<1>5. sender' \in [Senders -> Holds] /\ sender'[w].pc = "idle" /\ \A v \in Senders \ {w} : sender'[v] = sender[v]
  BY <1>1 DEF DeliveryInv, DeliveryTyped, Holds, Hook!Idle, Hook!New, Items
<1>6. DeliveryTyped'
  BY <1>1, <1>4, <1>5 DEF DeliveryInv, DeliveryTyped
<1>7. ASSUME losses = 0 PROVE DeliveryHolds'
  <2>1. Handled(w) /\ i = item /\ item.attempts < DeliveryAttempts /\ item.attempts \in Nat
    BY <1>1, <1>7 DEF DeliveryInv, DeliveryHolds, Holding, Handled, Hook!Settled, DeliveryTyped, Items
  <2>2. sent = i.attempts + 1 /\ (accepted <=> ok)
    BY <1>1, <2>1, Zenon DEF Handled
  <2>3. \A v \in Senders : ~Holding(v)'
    BY <1>5, <2>1 DEF Handled, Holding
  <2> HIDE DEF i, ok
  <2>4. item'.state \in {"pending", "retrying"} => item'.attempts < DeliveryAttempts
    BY <1>2, <1>3, <2>1 DEF AttemptsAllowed
  <2>5. item'.state = "dead" => item'.attempts = DeliveryAttempts
    BY <1>2, <1>3, <2>1 DEF AttemptsAllowed
  <2>6. accepted' <=> item'.state = "delivered"
    <3>1. item'.state = "delivered" <=> ok
      BY <1>2, <1>3
    <3> QED BY <1>1, <1>2, <2>2, <3>1, Zenon
  <2>7. sent' = item'.attempts
    BY <1>1, <1>3, <2>2
  <2> QED BY <2>3, <2>4, <2>5, <2>6, <2>7 DEF DeliveryHolds, Unhandled
<1> QED BY <1>1, <1>6, <1>7 DEF DeliveryInv

(* A step that counts as a loss leaves only types to keep.                  *)
LEMMA LostStep == ASSUME DeliveryTyped', losses' # 0 PROVE DeliveryInv'
BY DEF DeliveryInv

LEMMA BackoffStep == ASSUME AttemptsAllowed, DeliveryInv, Hook!Due PROVE DeliveryInv'
<1>1. item.state = "retrying" /\ ~item.due /\ item' = [item EXCEPT !.due = TRUE] /\ UNCHANGED <<leased, sender, found, sent, accepted, replays, losses>>
  BY DEF Hook!Due
<1>2. DeliveryTyped' /\ item'.state = item.state /\ item'.attempts = item.attempts
  BY <1>1 DEF DeliveryInv, DeliveryTyped, Items
<1>3. ASSUME losses = 0 PROVE DeliveryHolds'
  <2>1. \A w \in Senders : ~Holding(w)
    BY <1>1, <1>3 DEF DeliveryInv, DeliveryHolds, Handled
  <2>2. Unhandled
    BY <1>3, <2>1 DEF DeliveryInv, DeliveryHolds
  <2>3. \A w \in Senders : ~Holding(w)'
    BY <1>1, <2>1 DEF Holding
  <2>4. Unhandled'
    BY <1>1, <1>2, <2>2 DEF Unhandled
  <2> QED BY <1>2, <1>3, <2>3, <2>4 DEF DeliveryInv, DeliveryHolds
<1> QED BY <1>1, <1>2, <1>3 DEF DeliveryInv

(* Holders and what they hold are as before, and so is what was sent.       *)
LEMMA DeliveryStays ==
  ASSUME DeliveryInv, UNCHANGED <<item, sender, sent, accepted>>, found' \in Nat, losses' \in Nat, leased' \in BOOLEAN,
         losses' = 0 => losses = 0 /\ (leased' = leased \/ \A w \in Senders : ~Holding(w))
  PROVE  DeliveryInv'
<1>1. DeliveryTyped'
  BY DEF DeliveryInv, DeliveryTyped
<1>2. ASSUME losses' = 0 PROVE DeliveryHolds'
  BY <1>2 DEF DeliveryInv, DeliveryHolds, Handled, Unhandled, Holding, Hook!Settled
<1> QED BY <1>1, <1>2 DEF DeliveryInv

LEMMA LeaseEndsStep == ASSUME DeliveryInv, Hook!Expire PROVE DeliveryInv'
<1>1. UNCHANGED <<item, sender, found, sent, accepted, replays>> /\ leased' = FALSE
  BY DEF Hook!Expire
<1>2. losses \in Nat /\ found \in Nat
  BY DEF DeliveryInv, DeliveryTyped
<1>3. CASE UNCHANGED losses /\ \A w \in Senders : sender[w].pc = "idle"
  <2>1. \A w \in Senders : ~Holding(w)
    BY <1>3 DEF Holding
  <2> QED BY <1>1, <1>2, <1>3, <2>1, DeliveryStays
<1>4. CASE losses' = losses + 1
  <2>1. losses' \in Nat /\ losses' # 0
    BY <1>2, <1>4
  <2> QED BY <1>1, <1>2, <2>1, DeliveryStays
<1> QED BY <1>3, <1>4 DEF Hook!Expire

LEMMA ReplaySavedStep == ASSUME AttemptsAllowed, DeliveryInv, Hook!SaveReplay PROVE DeliveryInv'
<1>1. /\ found > 0 /\ found' = found - 1 /\ item' = Hook!New /\ leased' = FALSE /\ sent' = 0 /\ accepted' = FALSE
      /\ losses' = IF item.state = "dead" THEN losses ELSE losses + 1
      /\ UNCHANGED <<sender, replays>>
  BY DEF Hook!SaveReplay
<1>2. DeliveryTyped'
  <2>1. Hook!New \in Items /\ found' \in Nat /\ losses' \in Nat
    BY <1>1 DEF DeliveryInv, DeliveryTyped, Hook!New, Items
  <2> QED BY <1>1, <2>1 DEF DeliveryInv, DeliveryTyped
<1>3. CASE item.state # "dead"
  <2>1. losses' # 0
    BY <1>1, <1>3 DEF DeliveryInv, DeliveryTyped
  <2> QED BY <1>2, <2>1, LostStep
<1>4. CASE item.state = "dead"
  <2>1. ASSUME losses = 0 PROVE DeliveryHolds'
    <3>1. \A w \in Senders : ~Holding(w)'
      BY <1>1, <1>4, <2>1 DEF DeliveryInv, DeliveryHolds, Handled, Hook!Settled, Holding
    <3>2. item'.state = "pending" /\ item'.attempts = 0
      BY <1>1 DEF Hook!New
    <3> QED BY <1>1, <3>1, <3>2 DEF DeliveryHolds, Unhandled, AttemptsAllowed
  <2> QED BY <1>1, <1>2, <1>4, <2>1 DEF DeliveryInv
<1> QED BY <1>3, <1>4

LEMMA StepWebhooks == ASSUME AttemptsAllowed, DeliveryInv, [Hook!Next]_Hook!vars PROVE DeliveryInv'
<1>1. ASSUME NEW w \in Senders, Hook!Die(w) PROVE DeliveryInv'
  <2>1. sender' = [sender EXCEPT ![w] = Hook!Idle] /\ losses' = losses + 1 /\ UNCHANGED <<item, leased, found, sent, accepted, replays>>
    BY <1>1 DEF Hook!Die
  <2>2. DeliveryTyped' /\ losses' # 0
    BY <2>1 DEF DeliveryInv, DeliveryTyped, Hook!Idle, Hook!New, Holds, Items
  <2> QED BY <2>2, LostStep
<1>2. CASE Hook!Replay
  <2>1. found' = found + 1 /\ UNCHANGED <<item, leased, sender, sent, accepted, losses>>
    BY <1>2 DEF Hook!Replay
  <2>2. found' \in Nat /\ losses' \in Nat /\ leased' \in BOOLEAN
    BY <2>1 DEF DeliveryInv, DeliveryTyped
  <2> QED BY <2>1, <2>2, DeliveryStays
<1>3. CASE UNCHANGED Hook!vars
  <2>1. UNCHANGED <<item, leased, sender, found, sent, accepted, losses>>
    BY <1>3 DEF Hook!vars
  <2>2. found' \in Nat /\ losses' \in Nat /\ leased' \in BOOLEAN
    BY <2>1 DEF DeliveryInv, DeliveryTyped
  <2> QED BY <2>1, <2>2, DeliveryStays
<1> QED BY <1>1, <1>2, <1>3, ClaimedStep, RequestSentStep, DeliverySavedStep, BackoffStep, LeaseEndsStep, ReplaySavedStep DEF Hook!Next

(* As long as nothing is lost, at most one worker holds the delivery, as it *)
(* is and under its lease, and the requests sent are the attempts counted   *)
(* (WebhookDeliveryService::process and replay).                            *)
THEOREM DeliveryInvariant == ASSUME AttemptsAllowed PROVE Hook!Spec => []DeliveryInv
<1>1. Hook!Init => DeliveryInv
  BY InitWebhooks
<1>2. DeliveryInv /\ [Hook!Next]_Hook!vars => DeliveryInv'
  BY StepWebhooks
<1> QED BY <1>1, <1>2, PTL DEF Hook!Spec

(* A dead letter was refused as often as the limit says and never accepted, *)
(* and a delivered one was accepted and is left alone, as long as no worker *)
(* ended or was late (WebhookDeliveryService::process).                     *)
THEOREM OutcomesEarned == ASSUME AttemptsAllowed PROVE Hook!Spec => []OutcomeIsEarned
<1>1. DeliveryInv => OutcomeIsEarned
  <2>1. ASSUME DeliveryInv, losses = 0
        PROVE  /\ item.state = "dead" => sent = DeliveryAttempts /\ ~accepted
               /\ item.state = "delivered" <=> accepted /\ \A w \in Senders : sender[w].pc = "idle"
    <3>1. CASE \A w \in Senders : ~Holding(w)
      BY <2>1, <3>1 DEF DeliveryInv, DeliveryHolds, Unhandled, Holding
    <3>2. CASE \E w \in Senders : Holding(w)
      BY <2>1, <3>2 DEF DeliveryInv, DeliveryHolds, Handled, Holding, Hook!Settled
    <3> QED BY <3>1, <3>2
  <2>2. ASSUME DeliveryInv PROVE losses = 0 \/ losses > 0
    BY <2>2 DEF DeliveryInv, DeliveryTyped
  <2> QED BY <2>1, <2>2 DEF OutcomeIsEarned, Hook!OutcomeIsEarned
<1> QED BY <1>1, DeliveryInvariant, PTL
=============================================================================
