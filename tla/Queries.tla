------------------------------ MODULE Queries ------------------------------
(* Reading telemetry (application::query_planner and series_query, asked by *)
(* api::analytics): a request is turned into a plan, one resolution of the  *)
(* stored series and, for raw observations, the stores to read; what the    *)
(* storage answers is checked against the plan.  Times are numbers, fields  *)
(* with rollups are alike but for their unit; a time zone is known or not.  *)
EXTENDS Integers, FiniteSets, Sequences, FiniteSetsExt, Functions

CONSTANTS
  Rollups,         \* the resolutions of rollups, finest first
  Width,           \* how long a bucket of each is taken to be
  Unit,            \* the unit of each field
  Detailed,        \* the field no rollup has
  DefaultPoints, MostPoints, DefaultInterval,
  Earliest,        \* the earliest instant there is
  LongestRange,    \* the longest range that can be represented
  LargestEstimate, \* the largest number of points that can
  Full,            \* complete coverage
  Omitted          \* what a caller leaves out

NoPlan == [resolution |-> "none", points |-> 0, sources |-> {}, fields |-> {}]
RollupNames == {Rollups[n] : n \in DOMAIN Rollups}

-----------------------------------------------------------------------------
(* The request, of what the caller gives.                                   *)

Or(given, default) == IF given = Omitted THEN default ELSE given

QueryRequest(p) ==
  [from |-> p.from, to |-> p.to, fields |-> p.fields, zone |-> Or(p.zone, "known"),
   resolution |-> Or(p.resolution, "auto"),
   maximum |-> IF p.maximum = Omitted THEN DefaultPoints ELSE IF p.maximum > MostPoints THEN MostPoints ELSE p.maximum,
   interval |-> Or(p.interval, DefaultInterval), hot |-> Or(p.hot, Earliest),
   available |-> RollupNames]

(* An export says neither how often readings come nor where the archive ends. *)
ExportRequest(body) == QueryRequest([body EXCEPT !.interval = Omitted, !.hot = Omitted])

-----------------------------------------------------------------------------
(* The plan.                                                                *)

ValidRequest(q) ==
  /\ q.from < q.to /\ q.fields # {} /\ q.maximum > 0 /\ q.interval > 0
  /\ "raw" \notin q.available

(* As many buckets as are begun, and one more for where the range begins.   *)
PointsAligned(duration, interval) == (duration + interval - 1) \div interval
Points(duration, interval) == (duration + interval - 1) \div interval + 1

PointsOf(q, resolution) == Points(q.to - q.from, IF resolution = "raw" THEN q.interval ELSE Width[resolution])
Fits(q, resolution) == PointsOf(q, resolution) <= q.maximum

(* The finest that fits, of raw observations and then the rollups there are.*)
Automatic(q) ==
  LET fitting == {n \in DOMAIN Rollups : Rollups[n] \in q.available /\ Fits(q, Rollups[n])}
  IN IF Fits(q, "raw") THEN "raw" ELSE IF fitting = {} THEN "none" ELSE Rollups[Min(fitting)]

Chosen(q) ==
  LET aggregates == Detailed \notin q.fields
      raw == IF Fits(q, "raw") THEN "raw" ELSE "none"
  IN CASE q.resolution = "raw" -> raw
       [] q.resolution = "auto" -> IF aggregates THEN Automatic(q) ELSE raw
       [] OTHER -> IF aggregates /\ q.resolution \in q.available /\ Fits(q, q.resolution) THEN q.resolution ELSE "none"

RawSources(q) == IF q.to <= q.hot THEN {"archive"} ELSE IF q.from >= q.hot THEN {"hot"} ELSE {"archive", "hot"}

(* A range that cannot be represented wraps into a negative one, and an     *)
(* estimate that cannot is refused whatever is asked for.                   *)
Plan(q) ==
  IF \/ ~ValidRequest(q) \/ q.zone # "known" \/ q.to - q.from > LongestRange
     \/ q.to - q.from + q.interval - 1 > LargestEstimate
     \/ Chosen(q) = "none"
  THEN NoPlan
  ELSE [resolution |-> Chosen(q), points |-> PointsOf(q, Chosen(q)), fields |-> q.fields,
        sources |-> IF Chosen(q) = "raw" THEN RawSources(q) ELSE {}]

-----------------------------------------------------------------------------
(* What the storage answers: series of [field, unit, points, gaps].         *)

ValidPoints(points, plan, q) ==
  /\ \A n \in DOMAIN points : points[n].at >= q.from /\ points[n].at < q.to /\ points[n].coverage <= Full
  /\ \A n \in 1..Len(points) - 1 : points[n].at < points[n + 1].at
  /\ plan.resolution = "raw" \/ \A n \in DOMAIN points : ~points[n].origin

ValidSeries(series, plan, q) ==
  /\ \A n \in DOMAIN series :
       /\ series[n].field \in plan.fields /\ series[n].unit = Unit[series[n].field]
       /\ Len(series[n].points) <= q.maximum + 2
       /\ ValidPoints(series[n].points, plan, q)
       /\ \A g \in series[n].gaps : g.from >= q.from /\ g.to <= q.to /\ g.from < g.to
  /\ \A k, n \in DOMAIN series : k # n => series[k].field # series[n].field
  /\ {series[n].field : n \in DOMAIN series} = plan.fields

-----------------------------------------------------------------------------
(* A plan is for the resolution that was asked for, or else for the finest  *)
(* that fits; nothing is planned only when nothing fits (plan_query).       *)
PlanIsFinest(q) ==
  LET plan == Plan(q)
      finer == {"raw"} \cup {Rollups[n] : n \in {k \in DOMAIN Rollups : \A j \in DOMAIN Rollups : Rollups[j] = plan.resolution => k < j}}
  IN plan # NoPlan =>
       /\ q.resolution \in {"auto", plan.resolution}
       /\ Detailed \in q.fields => plan.resolution = "raw"
       /\ q.resolution = "auto" /\ plan.resolution # "raw" => \A r \in finer \cap (q.available \cup {"raw"}) : ~Fits(q, r)

(* Wherever the buckets of a resolution begin, the range touches no more of *)
(* them than were estimated, nor than the caller allows; of those that may  *)
(* be shorter than they are taken to be, months, years and days on which    *)
(* the clock is set forward, two more at most: what the check of the answer *)
(* allows.  Starts are the beginnings of the buckets in order, even if none *)
(* is shorter.                                                              *)
PlanIsBounded(q, starts, even) ==
  LET plan == Plan(q)
      begun == {s \in Range(starts) : s < q.to}
      touched == {s \in begun : \A t \in begun : t > s => t > q.from}
  IN plan # NoPlan =>
       /\ plan.points <= q.maximum
       /\ Cardinality(touched) <= plan.points + (IF even THEN 0 ELSE 2)

(* Every instant of the range is in a store that is read, and no store is   *)
(* read in vain.                                                            *)
SourcesCover(q) ==
  LET plan == Plan(q)
      store(t) == IF t < q.hot THEN "archive" ELSE "hot"
  IN plan.resolution = "raw" => plan.sources = {store(t) : t \in q.from..q.to - 1}

(* A storage that answers with the buckets that begin in the range, one     *)
(* series for each field, is never refused (validate_series).               *)
AnswerPasses(q, starts) ==
  LET plan == Plan(q)
      inside == {n \in DOMAIN starts : starts[n] >= q.from /\ starts[n] < q.to}
      points == [n \in 1..Cardinality(inside) |-> [at |-> starts[Min(inside) + n - 1], coverage |-> Full, origin |-> FALSE]]
      fields == CHOOSE order \in [1..Cardinality(plan.fields) -> plan.fields] : IsInjective(order)
  IN plan # NoPlan =>
       ValidSeries([n \in DOMAIN fields |-> [field |-> fields[n], unit |-> Unit[fields[n]], points |-> points, gaps |-> {}]], plan, q)
=============================================================================
