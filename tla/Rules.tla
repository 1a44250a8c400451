------------------------------- MODULE Rules -------------------------------
(* The rules that keep no state, as properties of every input: a behaviour  *)
(* picks one and stays.  Equipment (EquipmentRules), readings (Readings),   *)
(* queries (Queries), what is added up (Summaries) and the yield model      *)
(* (YieldModel).                                                            *)
EXTENDS Integers, FiniteSets, Sequences

CONSTANTS
  Rules,      \* the rules to ask about, of those below
  Omitted,    \* what a caller leaves out
  NotGiven,   \* a value that is not given
  Full        \* the whole of a ratio

CONSTANTS     \* equipment: the limits and the inputs
  NoEnd, MaxCapacity, MaxModules, MaxModulePower, MaxStringPower, Revision, Catalog,
  Plants, Dates, StringInputs, Documents, Makes, Limits, PageSize

CONSTANTS     \* readings
  Milli, Hour, MaxReset, Channels, Incoming, Chains, Series, Ranges

CONSTANTS     \* queries: bodies of requests, and where buckets begin
  Rollups, Width, Unit, Detailed, DefaultPoints, MostPoints, DefaultInterval,
  Earliest, LongestRange, LargestEstimate, Bodies, Starts(_, _)

CONSTANTS     \* what is added up
  Summed, LargestSum, Samples, Windows, Statements, Changes, DaySets

CONSTANTS     \* the yield model
  One, Standard, Warmth, Rise, RiseAt, MostOfNameplate, Minutes,
  Weather, Suns, ModelStrings, Parks, Intervals, Comparisons

VARIABLES rule, sample

Equip == INSTANCE EquipmentRules WITH Forever <- NoEnd
Reads == INSTANCE Readings
Plans == INSTANCE Queries
Sums == INSTANCE Summaries
Model == INSTANCE YieldModel WITH Hour <- Minutes

(* What the equipment rules are asked about: periods of dates, systems with *)
(* finitely many inverters and strings, whole counts and watts, documents of*)
(* entries that have an id.  What the catalog serves has passed validation: *)
(* it has a manufacturer.                                                   *)
IsPeriod(p) == p.from \in Int /\ p.to \in Int

PlantTyped(system) ==
  /\ IsFiniteSet(system.inverters)
  /\ \A i \in system.inverters :
       /\ IsPeriod(i) /\ IsFiniteSet(i.strings)
       /\ \A s \in i.strings : IsPeriod(s) /\ IsPeriod(s.settings) /\ s.power \in Int

ASSUME EquipmentConstants ==
  /\ NoEnd \in Int /\ \A d \in Dates : d \in Int /\ d < NoEnd
  /\ \A p \in Plants : PlantTyped(p)
  /\ \A s \in StringInputs : s.count \in Int /\ s.power \in Int
  /\ \A d \in Documents : d \in Seq([id : Int, revision : Int, make : STRING])
  /\ \A e \in DOMAIN Catalog : e # Equip!NoEntry /\ Catalog[e] \in [make : STRING \ {Equip!Blank}, power : Int]
  /\ Limits \subseteq Int /\ PageSize \in Nat \ {0}

(* What the reading rules are asked about: whole amounts, counters that were*)
(* reset a number of times, and gaps that are looked for in whole intervals.*)
WholeAmount == [value : Int, unit : {"base", "milli", "none"}, counter : BOOLEAN, reset : Nat]
MaybeGiven(S) == S \cup {NotGiven}
EnergyReading == [kind : {"none", "interval", "counter"}, value : Int, reset : Nat]
RawReading ==
  [at : Int, power : MaybeGiven(Int), energy : EnergyReading, battery : [energy : MaybeGiven(Int), power : MaybeGiven(Int), charge : MaybeGiven(Int)],
   grid : [kind : STRING, import : Int, export : Int], derived : {FALSE}]

ASSUME ReadingConstants ==
  /\ Milli \in Nat \ {0} /\ Hour \in Nat \ {0} /\ MaxReset \in Nat
  /\ \A i \in Incoming :
       i \in [key : STRING, at : Int, channels : SUBSET STRING, power : WholeAmount, energy : WholeAmount, stored : WholeAmount, flow : WholeAmount, charge : MaybeGiven(Int)]
  /\ \A c \in Chains : c.readings \in Seq(RawReading)
  /\ \A s \in Series : s \in Seq([at : Int, source : Int, energy : EnergyReading])
  /\ \A r \in Ranges : r \in [from : Int, to : Int, expected : Nat \ {0}, tolerance : Nat]

(* What is asked of queries: times that are numbers, and a calendar in which*)
(* any run of buckets falls short of what they are taken to be by one bucket*)
(* at most, as months do in winter and days when the clock is set forward.  *)
TakenToBe(resolution, interval) == IF resolution = "raw" THEN interval ELSE Width[resolution]
IsEven(starts, width) == \A n \in 1..Len(starts) - 1 : starts[n + 1] - starts[n] >= width
IsCalendar(starts, width) ==
  /\ starts \in Seq(Int)
  /\ \A j, k \in DOMAIN starts : j < k => starts[j] < starts[k] /\ starts[k] - starts[j] >= (k - j - 1) * width

ASSUME QueryConstants ==
  /\ Rollups \in Seq(STRING) /\ \A r \in Plans!RollupNames : Width[r] \in Nat \ {0}
  /\ {DefaultPoints, MostPoints, DefaultInterval, Earliest, LongestRange, LargestEstimate} \subseteq Int /\ Omitted \notin Int
  /\ \A b \in Bodies : /\ b.from \in Int /\ b.to \in Int /\ IsFiniteSet(b.fields)
                       /\ {b.maximum, b.interval, b.hot} \subseteq Int \cup {Omitted}
  /\ \A r \in {"raw"} \cup Plans!RollupNames, i \in {b.interval : b \in Bodies} \cup {DefaultInterval} :
       i # Omitted => IsCalendar(Starts(r, i), TakenToBe(r, i))

(* What is added up: samples in order and windows in order, amounts that    *)
(* were measured or not, days that have no coverage where they have no model*)
Figure == MaybeGiven(Int)
Sampled == [at : Int, value : Int, covered : Nat]
SummaryBucket == [sums : [Summed -> Figure], peak : Figure, low : Figure, covered : Nat, expected : Nat]
DaySummary ==
  {a \in [generation : Int, flags : SUBSET Int, expected : Figure, coverage : Nat, modeled : Nat] : a.expected = NotGiven => a.modeled = 0}

ASSUME SummaryConstants ==
  /\ NotGiven \notin Int /\ Full \in Nat \ {0} /\ LargestSum \in Int
  /\ {"generation", "export", "revenue", "cost"} \subseteq Summed
  /\ \A s \in Samples : s \in Seq(Sampled) /\ \A n \in 1..Len(s) - 1 : s[n].at < s[n + 1].at
  /\ \A w \in Windows : w \in Seq([from : Int, to : Int]) /\ w # <<>> /\ Sums!ValidWindows(w)
  /\ \A s \in Statements : s.first \in Seq(SummaryBucket) /\ s.second \in Seq(SummaryBucket) /\ s.capacity \in Figure
  /\ \A c \in Changes : c # <<>> /\ c \in Seq([kind : {"invalidate", "reconcile"}, day : Int, aggregate : DaySummary])
  /\ \A days \in DaySets : IsFiniteSet(days)

(* What the yield model is asked about: ratios that are at most the whole,  *)
(* a calibration that takes away no more than that, powers that are not     *)
(* negative, and the sun at weights that are not.                           *)
Estimated(S) == [central : S, lower : MaybeGiven(S), upper : MaybeGiven(S)]
Predicted(S) == Estimated(S) \cup {Model!NoEstimate}
WeatherPoint == [from : Int, to : Int, global : Predicted(Int), direct : Predicted(Int), diffuse : Predicted(Int), plane : Predicted(Int)]
Contribution == [nameplate : Nat, power : Predicted(Nat), reasons : SUBSET STRING]

ASSUME ModelConstants ==
  /\ {One, Standard, RiseAt, Minutes} \subseteq Nat \ {0} /\ {Warmth, Rise} \subseteq Int /\ MostOfNameplate \in Nat
  /\ \A run \in Weather :
       /\ run.points \in Seq(WeatherPoint)
       /\ {run.resolution, run.fetched, run.from, run.to} \subseteq Int
  /\ \A sun \in Suns : sun.up \in BOOLEAN /\ {sun.ground, sun.beam, sun.sky} \subseteq Nat
  /\ \A s \in ModelStrings :
       /\ s.nameplate \in Nat /\ s.plane \in Estimated(Int) /\ s.ambient \in Int /\ s.coefficient \in Int
       /\ s.losses \in Seq(0..Full) /\ s.calibration \in Int /\ -Full <= s.calibration
  /\ \A p \in Parks : p \in Seq([strings : Seq(Contribution), efficiency : 0..Full, most : Nat])
  /\ \A i \in Intervals : i.power \in Estimated(Int) /\ {i.first, i.second} \subseteq Int
  /\ \A c \in Comparisons : {c.modeled, c.actual.energy} \subseteq Figure

-----------------------------------------------------------------------------
(* A snapshot holds until the boundary it names, and says what can be       *)
(* forecast; what a caller may ask for can be stored; pages miss nothing.   *)
EquipmentRulesHold ==
  /\ rule = "system" => Equip!SnapshotHolds(sample, Dates) /\ Equip!CompletenessIsCapacity(sample, Dates)
  /\ rule = "input" => Equip!RecordsAreAccepted(sample) /\ Equip!PrefilledIsACopy
  /\ rule = "document" => \A limit \in Limits, make \in Makes : Equip!PagesCover(sample, make, limit, PageSize)

(* Units lose nothing, counters only go down where a reset was declared,    *)
(* and the gaps told are those there are.                                   *)
ReadingsAreSound ==
  /\ rule = "amounts" => Reads!UnitsAreExact(sample)
  /\ rule = "chain" => Reads!CountersAddUp(sample.readings, sample.policy)
  /\ rule = "series" => \A r \in Ranges : Reads!GapsAreMissing(sample, r.from, r.to, r.expected, r.tolerance)

PlansHold(q) ==
  LET resolution == Plans!Plan(q).resolution
      starts == Starts(resolution, q.interval)
  IN /\ Plans!PlanIsFinest(q) /\ Plans!SourcesCover(q)
     /\ Plans!PlanIsBounded(q, starts, IsEven(starts, TakenToBe(resolution, q.interval)))
     /\ resolution # "raw" => Plans!AnswerPasses(q, starts)

(* A plan is the finest that fits and bounds the answer; what is summed up  *)
(* adds up; an estimate stays within its bounds and on its basis.           *)
FiguresAddUp ==
  /\ rule = "query" => PlansHold(Plans!QueryRequest(sample)) /\ PlansHold(Plans!ExportRequest(sample))
  /\ rule = "rollup" => \A w \in Windows : Sums!RollupsPartition(sample, w)
  /\ rule = "statistics" => Sums!StatisticsCombine(sample.first, sample.second, sample.capacity)
  /\ rule = "summary" => \A days \in DaySets : Sums!SummariesAddUp(sample, days)
  /\ rule = "weather" => \A sun \in Suns, kind \in {"forecast", "observed"} : Model!RunIsUsable([kind |-> kind, place |-> "p"], sample, sun)
  /\ rule = "string" => Model!DcIsBounded(sample)
  /\ rule = "park" => Model!SystemAddsUp(sample)
  /\ rule = "energy" => Model!EnergyAddsUp(sample.power, sample.first, sample.second)
  /\ rule = "comparison" => Model!BasisIsKept(sample.metric, sample.basis, sample.kind, sample.actual, sample.modeled, sample.least)

-----------------------------------------------------------------------------
Nowhere == sample = [none |-> NotGiven] /\ rule = "none"
RulesInit ==
  /\ rule \in Rules
  /\ \/ rule = "system" /\ sample \in Plants
     \/ rule = "input" /\ sample \in StringInputs
     \/ rule = "document" /\ sample \in Documents
     \/ rule = "amounts" /\ sample \in Incoming
     \/ rule = "chain" /\ sample \in Chains
     \/ rule = "series" /\ sample \in Series
     \/ rule = "query" /\ sample \in Bodies
     \/ rule = "rollup" /\ sample \in Samples
     \/ rule = "statistics" /\ sample \in Statements
     \/ rule = "summary" /\ sample \in Changes
     \/ rule = "weather" /\ sample \in Weather
     \/ rule = "string" /\ sample \in ModelStrings
     \/ rule = "park" /\ sample \in Parks
     \/ rule = "energy" /\ sample \in Intervals
     \/ rule = "comparison" /\ sample \in Comparisons

RulesNext == UNCHANGED <<rule, sample>>
RulesSpec == RulesInit /\ [][RulesNext]_<<rule, sample>>
=============================================================================
