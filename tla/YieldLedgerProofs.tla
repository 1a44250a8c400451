-------------------------- MODULE YieldLedgerProofs --------------------------
(***************************************************************************)
(* What the yield ledger shows or retains stays explained, for every set   *)
(* of weather runs, calculation runs and intervals, every purge limit and  *)
(* every horizon.                                                          *)
(***************************************************************************)
EXTENDS YieldLedger, TLAPS

USE DEF Present, LedgerInv

(* Initially there is no row to refer to. *)
LEMMA InitEstablishes == Init => LedgerInv
  BY ConstantsAssumption DEF Init, TypeOK, NoWeather, NoRun, Class, Until,
     ProjectedHasResult, ResultsHaveRun, RunsHaveWeather

(* What validate_retention lets through is a class and a date. *)
LEMMA RetentionTyped ==
  ASSUME TypeOK, NEW kept \in Retention
  PROVE  kept.class \in {"working", "kept"} /\ kept.until \in Until
         /\ kept \in [class : Class, until : Until]
  BY ConstantsAssumption DEF TypeOK, Retention, Class, Until

(* Inserting or retaining a weather run takes none away. *)
LEMMA WeatherStepKeeps ==
  ASSUME LedgerInv, NEW w \in Weather, InsertWeatherRun(w) \/ RetainWeatherRun(w)
  PROVE  LedgerInv'
  <1>1. PICK kept \in Retention : weather' = [weather EXCEPT ![w] = kept]
    BY DEF InsertWeatherRun, RetainWeatherRun
  <1>2. UNCHANGED <<now, run, result, projection, selected>>
    BY DEF InsertWeatherRun, RetainWeatherRun
  <1>3. TypeOK'
    BY <1>1, <1>2, RetentionTyped DEF TypeOK
  <1>4. \A x \in Weather : Present(weather[x]) => Present(weather'[x])
    BY <1>1, RetentionTyped DEF TypeOK
  <1>5. RunsHaveWeather'
    BY <1>2, <1>4 DEF RunsHaveWeather, TypeOK
  <1> QED BY <1>2, <1>3, <1>5 DEF ProjectedHasResult, ResultsHaveRun

(* A run is inserted only for a weather run that is there. *)
LEMMA InsertRunKeeps ==
  ASSUME LedgerInv, NEW r \in Runs, InsertRun(r)
  PROVE  LedgerInv'
  <1> DEFINE w == selected[r]
  <1>1. w \in Weather /\ Present(weather[w])
    BY DEF InsertRun, TypeOK
  <1>2. PICK kept \in Retention :
          run' = [run EXCEPT ![r] = [class |-> kept.class, until |-> kept.until, weather |-> w]]
    BY DEF InsertRun
  <1>3. UNCHANGED <<now, weather, result, projection>>
        /\ selected' = [selected EXCEPT ![r] = Nothing]
    BY DEF InsertRun
  <1>4. TypeOK'
    BY <1>1, <1>2, <1>3, RetentionTyped DEF TypeOK, Class
  <1>5. RunsHaveWeather'
    <2>1. w # Nothing
      BY <1>1, ConstantsAssumption
    <2>2. run'[r].weather = w /\ Present(run'[r]) /\ \A q \in Runs \ {r} : run'[q] = run[q]
      BY <1>2, RetentionTyped DEF TypeOK
    <2> QED BY <1>1, <1>3, <2>1, <2>2 DEF RunsHaveWeather
  <1>6. ResultsHaveRun'
    BY <1>2, <1>3, RetentionTyped DEF ResultsHaveRun, TypeOK
  <1> QED BY <1>3, <1>4, <1>5, <1>6 DEF ProjectedHasResult

(* Results go in together with their projections. *)
LEMMA InsertResultsKeeps ==
  ASSUME LedgerInv, NEW r \in Runs, NEW I \in SUBSET Intervals, InsertResultsAndProject(r, I)
  PROVE  LedgerInv'
  <1> USE DEF InsertResultsAndProject
  <1>1. TypeOK'
    <2>1. result' \in [Runs -> SUBSET Intervals]
      BY DEF TypeOK
    <2>2. projection' \in [Intervals -> Runs \cup {Nothing}]
      BY DEF TypeOK
    <2>3. UNCHANGED <<now, weather, run, selected>>
      OBVIOUS
    <2> HIDE DEF InsertResultsAndProject
    <2> QED BY <2>1, <2>2, <2>3 DEF TypeOK
  <1>2. ProjectedHasResult'
    BY ConstantsAssumption DEF ProjectedHasResult, TypeOK
  <1>3. ResultsHaveRun'
    BY DEF ResultsHaveRun, TypeOK
  <1> QED BY <1>1, <1>2, <1>3 DEF RunsHaveWeather

(* Retaining a run changes its class and date, and neither makes it absent. *)
LEMMA RetainRunKeeps ==
  ASSUME LedgerInv, NEW r \in Runs, RetainCalculationRun(r)
  PROVE  LedgerInv'
  <1>1. PICK kept \in Retention :
          run' = [run EXCEPT ![r].class = kept.class, ![r].until = kept.until]
    BY DEF RetainCalculationRun
  <1>2. UNCHANGED <<now, weather, result, projection, selected>> /\ Present(run[r])
    BY DEF RetainCalculationRun
  <1>3. TypeOK'
    <2>1. [run[r] EXCEPT !.class = kept.class, !.until = kept.until]
            \in [class : Class, until : Until, weather : Weather \cup {Nothing}]
      <3>1. kept.class \in Class /\ kept.until \in Until
        BY RetentionTyped DEF Class
      <3>2. run[r] \in [class : Class, until : Until, weather : Weather \cup {Nothing}]
        BY DEF TypeOK
      <3> HIDE DEF LedgerInv
      <3> QED BY <3>1, <3>2
    <2>2. run' = [run EXCEPT ![r] = [run[r] EXCEPT !.class = kept.class, !.until = kept.until]]
      BY <1>1 DEF TypeOK
    <2> QED BY <1>2, <2>1, <2>2 DEF TypeOK
  <1>4. \A q \in Runs : run'[q].weather = run[q].weather /\ (Present(run'[q]) <=> Present(run[q]))
    BY <1>1, <1>2, RetentionTyped DEF TypeOK
  <1>5. ResultsHaveRun' /\ RunsHaveWeather'
    BY <1>2, <1>4 DEF ResultsHaveRun, RunsHaveWeather
  <1> QED BY <1>2, <1>3, <1>5 DEF ProjectedHasResult

(* Selecting a weather run, or dropping the selection, touches no row. *)
LEMMA SelectionKeeps ==
  ASSUME LedgerInv, NEW r \in Runs,
         InsertRunRefused(r) \/ \E w \in Weather : SelectWeatherRun(r, w)
  PROVE  LedgerInv'
  <1>1. /\ UNCHANGED <<now, weather, run, result, projection>>
        /\ \E w \in Weather \cup {Nothing} : selected' = [selected EXCEPT ![r] = w]
    BY DEF InsertRunRefused, SelectWeatherRun
  <1>2. TypeOK'
    BY <1>1 DEF TypeOK
  <1>3. ProjectedHasResult' /\ ResultsHaveRun' /\ RunsHaveWeather'
    BY <1>1 DEF ProjectedHasResult, ResultsHaveRun, RunsHaveWeather
  <1> QED BY <1>2, <1>3

(* The foreign key spares every weather run that a run refers to. *)
LEMMA PurgeWeatherKeeps ==
  ASSUME LedgerInv, PurgeExpiredWeatherRuns
  PROVE  LedgerInv' /\ UNCHANGED <<run, result, projection>>
         /\ \A r \in Runs : Present(run[r]) => Present(weather'[run[r].weather])
  <1>1. PICK S \in SUBSET Weather :
          /\ \A w \in S : ~Referenced(w)
          /\ weather' = [w \in Weather |-> IF w \in S THEN NoWeather ELSE weather[w]]
          /\ UNCHANGED <<now, run, result, projection, selected>>
    BY DEF PurgeExpiredWeatherRuns
  <1>2. TypeOK'
    BY <1>1, ConstantsAssumption DEF TypeOK, NoWeather, Class, Until
  <1>3. \A r \in Runs : Present(run[r]) => Present(weather'[run[r].weather])
    <2> SUFFICES ASSUME NEW r \in Runs, Present(run[r])
                 PROVE  Present(weather'[run[r].weather])
      OBVIOUS
    <2>1. run[r].weather \in Weather /\ Present(weather[run[r].weather])
      BY DEF RunsHaveWeather, TypeOK
    <2>2. run[r].weather \notin S
      BY <1>1 DEF Referenced
    <2> QED BY <1>1, <2>1, <2>2
  <1>4. RunsHaveWeather'
    BY <1>1, <1>3 DEF RunsHaveWeather
  <1> QED BY <1>1, <1>2, <1>3, <1>4 DEF ProjectedHasResult, ResultsHaveRun

(* A purge of runs takes their results along; it spares the projected runs *)
(* and those that are not working.                                         *)
LEMMA PurgeRunsKeeps ==
  ASSUME LedgerInv, PurgeExpiredCalculationRuns
  PROVE  LedgerInv' /\ UNCHANGED <<weather, projection>>
         /\ \A r \in Runs : Projected(r) \/ run[r].class = "kept" =>
              run'[r] = run[r] /\ result'[r] = result[r]
  <1>1. PICK S \in SUBSET Runs :
          /\ Taken(S, PurgeableRuns, run)
          /\ run' = [r \in Runs |-> IF r \in S THEN NoRun ELSE run[r]]
          /\ result' = ResultsWithout(S)
          /\ projection' = [i \in Intervals |->
                              IF projection[i] \in S THEN Nothing ELSE projection[i]]
          /\ UNCHANGED <<now, weather, selected>>
    BY DEF PurgeExpiredCalculationRuns
  <1>2. \A r \in S : run[r].class = "working" /\ ~Projected(r)
    BY <1>1 DEF Taken, PurgeableRuns, Expired
  <1>3. UNCHANGED projection
    BY <1>1, <1>2 DEF Projected, TypeOK
  <1>4. TypeOK'
    <2>1. NoRun \in [class : Class, until : Until, weather : Weather \cup {Nothing}]
      BY ConstantsAssumption DEF NoRun, Class, Until
    <2>2. run' \in [Runs -> [class : Class, until : Until, weather : Weather \cup {Nothing}]]
      BY <1>1, <2>1 DEF TypeOK
    <2>3. result' \in [Runs -> SUBSET Intervals]
      BY <1>1 DEF TypeOK, ResultsWithout
    <2> QED BY <1>1, <1>3, <2>2, <2>3 DEF TypeOK
  <1>5. ProjectedHasResult'
    BY <1>1, <1>2, <1>3 DEF ProjectedHasResult, Projected, ResultsWithout, TypeOK
  <1>6. ResultsHaveRun'
    BY <1>1 DEF ResultsHaveRun, ResultsWithout
  <1>7. RunsHaveWeather'
    BY <1>1 DEF RunsHaveWeather, NoRun
  <1>8. \A r \in Runs : Projected(r) \/ run[r].class = "kept" =>
          run'[r] = run[r] /\ result'[r] = result[r]
    BY <1>1, <1>2 DEF ResultsWithout, TypeOK
  <1> QED BY <1>1, <1>3, <1>4, <1>5, <1>6, <1>7, <1>8

(* Time passes, or nothing happens. *)
LEMMA TickKeeps == ASSUME LedgerInv, Tick \/ UNCHANGED vars PROVE LedgerInv'
  <1>1. now' \in 0..Horizon
    BY ConstantsAssumption DEF Tick, vars, TypeOK
  <1>2. UNCHANGED <<weather, run, result, projection, selected>>
    BY DEF Tick, vars
  <1> QED BY <1>1, <1>2 DEF TypeOK, ProjectedHasResult, ResultsHaveRun, RunsHaveWeather

(* Every step keeps the invariant. *)
LEMMA StepKeeps == ASSUME LedgerInv, [Next]_vars PROVE LedgerInv'
  <1>1. CASE \E w \in Weather : InsertWeatherRun(w) \/ RetainWeatherRun(w)
    BY <1>1, WeatherStepKeeps
  <1>2. CASE \E r \in Runs : \E w \in Weather : SelectWeatherRun(r, w)
    BY <1>2, SelectionKeeps
  <1>3. CASE \E r \in Runs : InsertRun(r)
    BY <1>3, InsertRunKeeps
  <1>4. CASE \E r \in Runs : InsertRunRefused(r)
    BY <1>4, SelectionKeeps
  <1>5. CASE \E r \in Runs, I \in SUBSET Intervals : InsertResultsAndProject(r, I)
    BY <1>5, InsertResultsKeeps
  <1>6. CASE \E r \in Runs : RetainCalculationRun(r)
    BY <1>6, RetainRunKeeps
  <1>7. CASE PurgeExpiredWeatherRuns
    BY <1>7, PurgeWeatherKeeps
  <1>8. CASE PurgeExpiredCalculationRuns
    BY <1>8, PurgeRunsKeeps
  <1>9. CASE Tick \/ UNCHANGED vars
    BY <1>9, TickKeeps
  <1> QED BY <1>1, <1>2, <1>3, <1>4, <1>5, <1>6, <1>7, <1>8, <1>9 DEF Next

(* A run that is shown or kept is there, with the weather run it names. *)
LEMMA ShownIsPresent ==
  ASSUME LedgerInv, NEW r \in Runs, Projected(r) \/ run[r].class = "kept"
  PROVE  Present(run[r]) /\ run[r].weather \in Weather /\ Present(weather[run[r].weather])
  <1>1. Present(run[r])
    <2>1. CASE Projected(r)
      BY <2>1, ConstantsAssumption DEF Projected, ProjectedHasResult, ResultsHaveRun, TypeOK
    <2>2. CASE run[r].class = "kept"
      BY <2>2
    <2> QED BY <2>1, <2>2
  <1> QED BY <1>1 DEF RunsHaveWeather, TypeOK

(* One step of Explained. *)
ExplainedStep ==
  \A r \in Runs :
    Projected(r) \/ run[r].class = "kept" =>
      /\ run'[r].weather = run[r].weather
      /\ result[r] \subseteq result'[r]
      /\ weather'[run[r].weather].class # "absent"

(* No step takes away what is shown or kept, nor what explains it. *)
LEMMA StepExplained == ASSUME LedgerInv, [Next]_vars PROVE ExplainedStep
  <1> SUFFICES ASSUME NEW r \in Runs, Projected(r) \/ run[r].class = "kept"
               PROVE  /\ run'[r].weather = run[r].weather
                      /\ result[r] \subseteq result'[r]
                      /\ weather'[run[r].weather].class # "absent"
    BY DEF ExplainedStep
  <1>0. Present(run[r]) /\ run[r].weather \in Weather /\ Present(weather[run[r].weather])
    BY ShownIsPresent
  <1>1. CASE \E w \in Weather : InsertWeatherRun(w) \/ RetainWeatherRun(w)
    <2>1. PICK w \in Weather, kept \in Retention : weather' = [weather EXCEPT ![w] = kept]
      BY <1>1 DEF InsertWeatherRun, RetainWeatherRun
    <2>2. UNCHANGED <<run, result>>
      BY <1>1 DEF InsertWeatherRun, RetainWeatherRun
    <2> QED BY <1>0, <2>1, <2>2, RetentionTyped DEF TypeOK
  <1>2. CASE \E q \in Runs : InsertRunRefused(q) \/ \E w \in Weather : SelectWeatherRun(q, w)
    BY <1>0, <1>2 DEF InsertRunRefused, SelectWeatherRun
  <1>3. CASE \E q \in Runs : InsertRun(q)
    <2>1. PICK q \in Runs : InsertRun(q)
      BY <1>3
    <2> QED BY <1>0, <2>1 DEF InsertRun, TypeOK
  <1>4. CASE \E q \in Runs, I \in SUBSET Intervals : InsertResultsAndProject(q, I)
    BY <1>0, <1>4 DEF InsertResultsAndProject, TypeOK
  <1>5. CASE \E q \in Runs : RetainCalculationRun(q)
    BY <1>0, <1>5 DEF RetainCalculationRun, TypeOK
  <1>6. CASE PurgeExpiredWeatherRuns
    BY <1>0, <1>6, PurgeWeatherKeeps
  <1>7. CASE PurgeExpiredCalculationRuns
    BY <1>0, <1>7, PurgeRunsKeeps
  <1>8. CASE Tick \/ UNCHANGED vars
    BY <1>0, <1>8 DEF Tick, vars
  <1> QED BY <1>1, <1>2, <1>3, <1>4, <1>5, <1>6, <1>7, <1>8 DEF Next

(* One step of ActiveResultsStay. *)
ActiveStep == \A i \in Intervals : projection[i] # Nothing => projection'[i] # Nothing

(* Only an insertion changes what is active, and it leaves something active. *)
LEMMA StepActive == ASSUME LedgerInv, [Next]_vars PROVE ActiveStep
  <1>1. CASE PurgeExpiredCalculationRuns
    BY <1>1, PurgeRunsKeeps DEF ActiveStep
  <1>2. CASE PurgeExpiredWeatherRuns
    BY <1>2, PurgeWeatherKeeps DEF ActiveStep
  <1>3. CASE \E r \in Runs, I \in SUBSET Intervals : InsertResultsAndProject(r, I)
    BY <1>3, ConstantsAssumption DEF InsertResultsAndProject, ActiveStep
  <1>4. CASE UNCHANGED projection
    BY <1>4 DEF ActiveStep
  <1> QED
    BY <1>1, <1>2, <1>3, <1>4 DEF Next, vars, InsertWeatherRun, RetainWeatherRun,
       SelectWeatherRun, InsertRun, InsertRunRefused, RetainCalculationRun, Tick

-----------------------------------------------------------------------------

(* The rows of the ledger have their types, and none refers to a row that  *)
(* is gone.                                                                *)
THEOREM LedgerInvariant == Spec => []LedgerInv
  <1>1. Init => LedgerInv
    BY InitEstablishes
  <1>2. LedgerInv /\ [Next]_vars => LedgerInv'
    BY StepKeeps
  <1> QED BY <1>1, <1>2, PTL DEF Spec

(* A run that is shown or was retained stays, with its results and with    *)
(* the weather run it was calculated from, whatever is purged around it.   *)
THEOREM ProvenanceKept == Spec => Explained
  <1>1. LedgerInv /\ [Next]_vars => ExplainedStep
    BY StepExplained
  <1> QED BY <1>1, LedgerInvariant, PTL DEF Spec, Explained, ExplainedStep

(* An interval that has an active result never loses it without another.   *)
THEOREM ActiveResultsKept == Spec => ActiveResultsStay
  <1>1. LedgerInv /\ [Next]_vars => ActiveStep
    BY StepActive
  <1> QED BY <1>1, LedgerInvariant, PTL DEF Spec, ActiveResultsStay, ActiveStep

=============================================================================
