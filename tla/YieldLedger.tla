------------------------------ MODULE YieldLedger ------------------------------
(***************************************************************************)
(* The yield ledger of one system and scope in an account's SQLite         *)
(* database: weather runs, the calculation runs that refer to them, their  *)
(* results, the projections that say which result of an interval is        *)
(* active, and the retention that removes what has expired.                *)
(*                                                                         *)
(* Every operation of the two repositories is one statement or transaction *)
(* under the account's writer lock.  A calculation is several of them:     *)
(* between selecting its weather run and naming it, and between inserting  *)
(* its run and its results, others calculate, retain and purge.  The state *)
(* column of a run is left out: no operation reads it.                     *)
(***************************************************************************)
EXTENDS Integers, FiniteSets

CONSTANTS
  Weather,      \* ids of weather runs
  Runs,         \* ids of calculation runs; each belongs to one calculation
  Intervals,    \* interval starts
  Nothing,
  PurgeLimit,   \* the limit a purge is called with
  Horizon       \* bound: the clock stops here

ASSUME ConstantsAssumption ==
  /\ Nothing \notin Weather \cup Runs
  /\ IsFiniteSet(Weather) /\ IsFiniteSet(Runs)
  /\ PurgeLimit \in 1..10000
  /\ Horizon \in Nat

VARIABLES
  now,
  weather,      \* weather_data_runs
  run,          \* yield_calculation_runs
  result,       \* yield_calculation_results: the intervals a run has results for
  projection,   \* yield_result_projections: the run whose result is active
  selected      \* the weather run a calculation has selected and not yet named

vars == <<now, weather, run, result, projection, selected>>

(* "kept": retention class issued or referenced, which no purge considers. *)
Class == {"absent", "working", "kept"}
Until == 0..(Horizon + 1)
NoWeather == [class |-> "absent", until |-> 0]
NoRun == [class |-> "absent", until |-> 0, weather |-> Nothing]

TypeOK ==
  /\ now \in 0..Horizon
  /\ weather \in [Weather -> [class : Class, until : Until]]
  /\ run \in [Runs -> [class : Class, until : Until, weather : Weather \cup {Nothing}]]
  /\ result \in [Runs -> SUBSET Intervals]
  /\ projection \in [Intervals -> Runs \cup {Nothing}]
  /\ selected \in [Runs -> Weather \cup {Nothing}]

Init ==
  /\ now = 0
  /\ weather = [w \in Weather |-> NoWeather]
  /\ run = [r \in Runs |-> NoRun]
  /\ result = [r \in Runs |-> {}]
  /\ projection = [i \in Intervals |-> Nothing]
  /\ selected = [r \in Runs |-> Nothing]

Present(row) == row.class # "absent"
Referenced(w) == \E r \in Runs : run[r].weather = w
Projected(r) == \E i \in Intervals : projection[i] = r

(* validate_retention: a working row must have a date.  That of a kept row *)
(* is optional and never looked at; here it is the earliest there is.      *)
Retention ==
  [class : {"working"}, until : (now + 1)..(Horizon + 1)]
    \cup [class : {"kept"}, until : {0}]

-----------------------------------------------------------------------------
(* Weather runs.  A repeated insert of a run that is there changes nothing. *)

InsertWeatherRun(w) ==
  /\ ~Present(weather[w])
  /\ \E kept \in Retention : weather' = [weather EXCEPT ![w] = kept]
  /\ UNCHANGED <<now, run, result, projection, selected>>

RetainWeatherRun(w) ==
  /\ Present(weather[w])
  /\ \E kept \in Retention : weather' = [weather EXCEPT ![w] = kept]
  /\ UNCHANGED <<now, run, result, projection, selected>>

-----------------------------------------------------------------------------
(* A calculation.                                                          *)

SelectWeatherRun(r, w) ==
  /\ ~Present(run[r]) /\ Present(weather[w])
  /\ selected' = [selected EXCEPT ![r] = w]
  /\ UNCHANGED <<now, weather, run, result, projection>>

(* The foreign key: a run names a weather run that is there. *)
InsertRun(r) ==
  LET w == selected[r] IN
  /\ ~Present(run[r])
  /\ w # Nothing /\ Present(weather[w])
  /\ \E kept \in Retention :
       run' = [run EXCEPT ![r] = [class |-> kept.class, until |-> kept.until, weather |-> w]]
  /\ selected' = [selected EXCEPT ![r] = Nothing]
  /\ UNCHANGED <<now, weather, result, projection>>

InsertRunRefused(r) ==
  /\ selected[r] # Nothing /\ ~Present(weather[selected[r]])
  /\ selected' = [selected EXCEPT ![r] = Nothing]
  /\ UNCHANGED <<now, weather, run, result, projection>>

(* Whoever inserts last is projected.  A second result of a run for an     *)
(* interval violates a key, and the transaction has no effect.             *)
InsertResultsAndProject(r, I) ==
  /\ Present(run[r])
  /\ I # {} /\ I \cap result[r] = {}
  /\ result' = [result EXCEPT ![r] = @ \cup I]
  /\ projection' = [i \in Intervals |-> IF i \in I THEN r ELSE projection[i]]
  /\ UNCHANGED <<now, weather, run, selected>>

RetainCalculationRun(r) ==
  /\ Present(run[r])
  /\ \E kept \in Retention :
       run' = [run EXCEPT ![r].class = kept.class, ![r].until = kept.until]
  /\ UNCHANGED <<now, weather, result, projection, selected>>

-----------------------------------------------------------------------------
(* Retention.                                                              *)

(* Mutants: the date decides whatever the class; an expired weather run is *)
(* a candidate although a run refers to it; an expired run although its    *)
(* results are active.                                                     *)
ExpiredByDate(row) == row.class # "absent" /\ row.until <= now

Expired(row) == row.class = "working" /\ row.until <= now

PurgeableWeatherReferenced == {w \in Weather : Expired(weather[w])}
PurgeableRunsProjected == {r \in Runs : Expired(run[r])}

PurgeableWeather == {w \in Weather : Expired(weather[w]) /\ ~Referenced(w)}
PurgeableRuns == {r \in Runs : Expired(run[r]) /\ ~Projected(r)}

(* ORDER BY retain_until LIMIT: no row left has expired before one taken,  *)
(* and none is left unless the limit is reached.                           *)
Taken(S, C, row) ==
  /\ S \subseteq C
  /\ Cardinality(S) <= PurgeLimit
  /\ Cardinality(S) < PurgeLimit => S = C
  /\ \A x \in S, y \in C \ S : row[x].until <= row[y].until

(* The foreign key restricts: one row still referred to fails them all. *)
PurgeExpiredWeatherRuns ==
  \E S \in SUBSET Weather \ {{}} :
    /\ Taken(S, PurgeableWeather, weather)
    /\ \A w \in S : ~Referenced(w)
    /\ weather' = [w \in Weather |-> IF w \in S THEN NoWeather ELSE weather[w]]
    /\ UNCHANGED <<now, run, result, projection, selected>>

(* Deleting a run deletes its results, and with them their projections.    *)
ResultsWithout(S) == [r \in Runs |-> IF r \in S THEN {} ELSE result[r]]

PurgeExpiredCalculationRuns ==
  \E S \in SUBSET Runs \ {{}} :
    /\ Taken(S, PurgeableRuns, run)
    /\ run' = [r \in Runs |-> IF r \in S THEN NoRun ELSE run[r]]
    /\ result' = ResultsWithout(S)
    /\ projection' = [i \in Intervals |->
                        IF projection[i] \in S THEN Nothing ELSE projection[i]]
    /\ UNCHANGED <<now, weather, selected>>

Tick ==
  /\ now < Horizon
  /\ now' = now + 1
  /\ UNCHANGED <<weather, run, result, projection, selected>>

-----------------------------------------------------------------------------

Next ==
  \/ \E w \in Weather : InsertWeatherRun(w) \/ RetainWeatherRun(w)
  \/ \E r \in Runs :
       \/ \E w \in Weather : SelectWeatherRun(r, w)
       \/ InsertRun(r) \/ InsertRunRefused(r)
       \/ \E I \in SUBSET Intervals : InsertResultsAndProject(r, I)
       \/ RetainCalculationRun(r)
  \/ PurgeExpiredWeatherRuns \/ PurgeExpiredCalculationRuns
  \/ Tick

Spec == Init /\ [][Next]_vars

(* Someone keeps calling the purges. *)
Fairness == WF_vars(PurgeExpiredWeatherRuns) /\ WF_vars(PurgeExpiredCalculationRuns)

FairSpec == Spec /\ Fairness

-----------------------------------------------------------------------------
(* Correctness.                                                            *)

(* What is shown or retained can be explained: a run whose results are     *)
(* active, or that was issued or referenced, stays with its results and    *)
(* the weather run it was calculated from ("Issued/referenced forecasts    *)
(* remain preserved for historical audit").                                *)
Explained ==
  [][\A r \in Runs :
       Projected(r) \/ run[r].class = "kept" =>
         /\ run'[r].weather = run[r].weather
         /\ result[r] \subseteq result'[r]
         /\ weather'[run[r].weather].class # "absent"]_vars

(* An interval that has an active result never loses it without another.   *)
ActiveResultsStay ==
  [][\A i \in Intervals : projection[i] # Nothing => projection'[i] # Nothing]_vars

(* What has expired and is neither shown nor referred to does not stay so: *)
(* it is removed in the end, however many rows that may not be removed     *)
(* expired before it, unless someone retains or uses it.                   *)
Disposable(row) == row.class = "working" /\ row.until <= now
RetentionDrains ==
  /\ \A w \in Weather :
       LET spent == Disposable(weather[w]) /\ ~Referenced(w) IN spent ~> ~spent
  /\ \A r \in Runs :
       LET spent == Disposable(run[r]) /\ ~Projected(r) IN spent ~> ~spent

(* What Explained rests on. *)
ProjectedHasResult ==
  \A i \in Intervals : projection[i] # Nothing => i \in result[projection[i]]
ResultsHaveRun == \A r \in Runs : result[r] # {} => Present(run[r])
RunsHaveWeather ==
  \A r \in Runs :
    IF Present(run[r])
    THEN run[r].weather # Nothing /\ Present(weather[run[r].weather])
    ELSE run[r].weather = Nothing

LedgerInv == TypeOK /\ ProjectedHasResult /\ ResultsHaveRun /\ RunsHaveWeather

=============================================================================
