----------------------------- MODULE Summaries -----------------------------
(* What readings are added up to: rollups over calendar windows             *)
(* (storage::rollup_builder), statistics over summary buckets               *)
(* (application::statistics), and the daily and lifetime summaries that are *)
(* rebuilt when a day changes (storage::summary_rebuild), for one system.   *)
(* Times and amounts are numbers; NotGiven is a value that was not measured.*)
EXTENDS Integers, FiniteSets, Sequences, FiniteSetsExt, Functions, Walks

CONSTANTS
  NotGiven,    \* a value that is not there
  Summed,      \* the amounts of a bucket that are added up
  Full,        \* complete coverage
  LargestSum   \* the largest amount that can be represented

Failed == [rollups |-> <<>>, ok |-> FALSE]
Added(values) == SumFunction(values)
Known(values) == [n \in {k \in DOMAIN values : values[k] # NotGiven} |-> values[n]]
TotalOf(values) == IF DOMAIN Known(values) = {} THEN NotGiven ELSE Added(Known(values))
Largest(values) == IF DOMAIN Known(values) = {} THEN NotGiven ELSE Max(Range(Known(values)))
Smallest(values) == IF DOMAIN Known(values) = {} THEN NotGiven ELSE Min(Range(Known(values)))
Least(a, b) == IF a < b THEN a ELSE b

-----------------------------------------------------------------------------
(* Rollups.  A sample is [at, value, covered], a window [from, to].          *)

ValidWindows(windows) ==
  /\ \A n \in DOMAIN windows : windows[n].from < windows[n].to
  /\ \A n \in 1..Len(windows) - 1 : windows[n].to <= windows[n + 1].from

Rollup(window, bucket) ==
  LET value == [n \in DOMAIN bucket |-> bucket[n].value]
      length == window.to - window.from
      covered == Least(Added([n \in DOMAIN bucket |-> bucket[n].covered]), length)
  IN [window |-> window, sum |-> Added(value), min |-> Min(Range(value)), max |-> Max(Range(value)), count |-> Len(bucket),
      first |-> bucket[1].value, last |-> bucket[Len(bucket)].value,
      covered |-> covered, coverage |-> (covered * Full) \div length]

(* The samples from the next one on that are before the end of the window;  *)
(* one before its beginning fits in none.                                   *)
Take(acc, samples, window) ==
  LET end == acc.next + Cardinality({n \in acc.next..Len(samples) : samples[n].at < window.to})
      bucket == SubSeq(samples, acc.next, end - 1)
  IN [next |-> end,
      ok |-> acc.ok /\ \A n \in DOMAIN bucket : bucket[n].at >= window.from,
      rollups |-> IF bucket = <<>> THEN acc.rollups ELSE Append(acc.rollups, Rollup(window, bucket))]

BuildRollups(samples, windows) ==
  LET walked == Along(LAMBDA acc, w : Take(acc, samples, w), [next |-> 1, ok |-> TRUE, rollups |-> <<>>], windows)
  IN IF /\ ValidWindows(windows)
        /\ \A n \in 1..Len(samples) - 1 : samples[n].at < samples[n + 1].at
        /\ walked.ok /\ walked.next = Len(samples) + 1
     THEN [rollups |-> walked.rollups, ok |-> TRUE]
     ELSE Failed

(* Every sample is in the one rollup whose window it falls in, and samples  *)
(* outside all windows are never dropped in silence; the rollup of a day    *)
(* can be had from those of its hours, but for the mean of its coverage.    *)
RollupsPartition(samples, windows) ==
  LET built == BuildRollups(samples, windows)
      within(w) == {n \in DOMAIN samples : w.from <= samples[n].at /\ samples[n].at < w.to}
      whole == [from |-> windows[1].from, to |-> windows[Len(windows)].to]
      day == BuildRollups(samples, <<whole>>)
      part(f(_)) == [n \in DOMAIN built.rollups |-> f(built.rollups[n])]
  IN /\ built.ok <=> \A n \in DOMAIN samples : \E k \in DOMAIN windows : n \in within(windows[k])
     /\ built.ok => \A n \in DOMAIN built.rollups :
          LET r == built.rollups[n]
          IN r.count = Cardinality(within(r.window)) /\ r.coverage \in 0..Full /\ r.min <= r.max
     /\ built.ok /\ samples # <<>> =>
          LET d == day.rollups[1]
          IN /\ d.sum = Added(part(LAMBDA r : r.sum)) /\ d.count = Added(part(LAMBDA r : r.count))
             /\ d.min = Min(Range(part(LAMBDA r : r.min))) /\ d.max = Max(Range(part(LAMBDA r : r.max)))
             /\ d.covered >= Added(part(LAMBDA r : r.covered))

-----------------------------------------------------------------------------
(* Statistics.  A bucket is [sums, peak, low, covered, expected], where sums *)
(* has "generation", "export", "revenue" and "cost" among its fields.       *)

NoStatistics == [sums |-> <<>>]

Statistics(buckets, capacity) ==
  LET of(f(_)) == [n \in DOMAIN buckets |-> f(buckets[n])]
      sums == [s \in Summed |-> TotalOf(of(LAMBDA b : b.sums[s]))]
      covered == Added(of(LAMBDA b : b.covered))
      expected == Added(of(LAMBDA b : b.expected))
      both(a, b) == sums[a] # NotGiven /\ sums[b] # NotGiven
  IN IF \/ buckets = <<>> \/ capacity = 0 \/ expected = 0
        \/ \E n \in DOMAIN buckets : buckets[n].covered > buckets[n].expected
        \/ \E s \in Summed : sums[s] # NotGiven /\ sums[s] > LargestSum
     THEN NoStatistics
     ELSE [sums |-> sums,
           own |-> IF both("generation", "export")
                   THEN IF sums["export"] > sums["generation"] THEN 0 ELSE sums["generation"] - sums["export"] ELSE NotGiven,
           efficiency |-> IF sums["generation"] # NotGiven /\ capacity # NotGiven THEN (sums["generation"] * 1000) \div capacity ELSE NotGiven,
           net |-> IF both("revenue", "cost") THEN sums["revenue"] - sums["cost"] ELSE NotGiven,
           peak |-> Largest(of(LAMBDA b : b.peak)), low |-> Smallest(of(LAMBDA b : b.low)),
           coverage |-> (covered * Full) \div expected]

(* The statistics of a year are what those of its halves come to; what was  *)
(* used by oneself too, where each bucket measured both amounts and no more *)
(* was exported than generated.                                             *)
StatisticsCombine(a, b, capacity) ==
  LET x == Statistics(a, capacity)
      y == Statistics(b, capacity)
      z == Statistics(a \o b, capacity)
      plain(s) == \A n \in DOMAIN s : s[n].sums["generation"] # NotGiven /\ s[n].sums["export"] # NotGiven
                                      /\ s[n].sums["export"] <= s[n].sums["generation"]
  IN x # NoStatistics /\ y # NoStatistics /\ z # NoStatistics =>
       /\ \A s \in Summed : z.sums[s] = TotalOf(<<x.sums[s], y.sums[s]>>)
       /\ z.peak = Largest(<<x.peak, y.peak>>) /\ z.low = Smallest(<<x.low, y.low>>)
       /\ Least(x.coverage, y.coverage) <= z.coverage /\ z.coverage <= Max({x.coverage, y.coverage})
       /\ plain(a) /\ plain(b) => z.own = x.own + y.own

-----------------------------------------------------------------------------
(* Summaries: [daily, lifetime, stale].  A day is [generation, flags,       *)
(* expected, actual and modeled coverage, month]; lifetime is {} or a set   *)
(* of one record.                                                           *)

NoSummaries == [daily |-> << >>, lifetime |-> {}, stale |-> {}]

Invalidate(p, day) == [p EXCEPT !.stale = @ \cup {day}, !.lifetime = {}]

Lifetime(daily) ==
  [generation |-> SumFunction([d \in DOMAIN daily |-> daily[d].generation]),
   flags |-> UNION {daily[d].flags : d \in DOMAIN daily},
   through |-> Max(DOMAIN daily)]

Reconcile(p, day, aggregate) ==
  LET daily == [d \in DOMAIN p.daily \cup {day} |-> IF d = day THEN aggregate ELSE p.daily[d]]
  IN [daily |-> daily, stale |-> p.stale \ {day}, lifetime |-> {Lifetime(daily)}]

(* The ratio of what was generated to what was expected, over some days.    *)
Ratio(actual, modeled, actualCoverage, modeledCoverage) ==
  IF modeled = NotGiven \/ actual < 0 \/ modeled <= 0 \/ actualCoverage = 0 \/ modeledCoverage = 0
  THEN NotGiven ELSE (actual * Full) \div modeled

ModeledSummary(p, days) ==
  LET chosen == DOMAIN p.daily \cap days
      of(f(_)) == [d \in chosen |-> f(p.daily[d])]
      values(f) == {f[d] : d \in DOMAIN f} \ {NotGiven}
      actual == SumFunction(of(LAMBDA a : a.generation))
      known == {d \in chosen : p.daily[d].expected # NotGiven}
      expected == IF known = {} THEN NotGiven ELSE SumFunction([d \in known |-> p.daily[d].expected])
      coverage(f) == IF chosen = {} THEN 0 ELSE Min(values(f))
  IN [actual |-> actual, expected |-> expected,
      ratio |-> Ratio(actual, expected, coverage(of(LAMBDA a : a.coverage)), coverage(of(LAMBDA a : a.modeled)))]

(* What one change or one authoritative day does, in any order.             *)
Applied(p, op) == IF op.kind = "invalidate" THEN Invalidate(p, op.day) ELSE Reconcile(p, op.day, op.aggregate)

(* The lifetime summary, while there is one, is what the days add up to;    *)
(* a day given again changes nothing; and a ratio compares the same days,   *)
(* those that were measured as well as modeled, provided that days without  *)
(* a model have no coverage.                                                *)
SummariesAddUp(ops, days) ==
  LET p == Along(Applied, NoSummaries, ops)
      last == ops[Len(ops)]
      m == ModeledSummary(p, days)
  IN /\ \A l \in p.lifetime : l = Lifetime(p.daily) /\ last.kind = "reconcile"
     /\ last.kind = "reconcile" => Applied(p, last) = p /\ last.day \notin p.stale
     /\ m.ratio # NotGiven => \A d \in DOMAIN p.daily \cap days : p.daily[d].expected # NotGiven /\ p.daily[d].coverage > 0
     /\ m.actual = SumFunction([d \in days |-> ModeledSummary(p, {d}).actual])
=============================================================================
