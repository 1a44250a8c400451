----------------------------- MODULE YieldModel -----------------------------
(* The yield model (domain::yield_model) over weather that a provider       *)
(* answered (application::weather_adapter, domain::forecasting): irradiance *)
(* on the plane of the modules, the DC power of a string, the AC power of   *)
(* an inverter and of a system, energy over an interval and its comparison  *)
(* with what was measured.  Numbers are the fixed-point integers of the     *)
(* code at a coarser scale; the sun's position and the angles are the       *)
(* weights of a transposition; sums that overflow are left out, as are      *)
(* powers that are not positive, which are refused on the way in.  An       *)
(* estimate is [central, lower, upper], and NotGiven is a value that is not *)
(* given.                                                                   *)
EXTENDS Integers, FiniteSets, Sequences, FiniteSetsExt, Functions, Walks

CONSTANTS
  NotGiven,
  Full,      \* the whole of a ratio in basis points
  One,       \* the whole of a temperature coefficient
  Standard,  \* the irradiance the nameplate power is rated at
  Warmth,    \* the temperature it is rated at
  Rise, RiseAt, \* how much warmer modules are than the air, at which irradiance
  MostOfNameplate, \* the cap on the DC power, in basis points
  Hour

Capped(x, most) == IF x > most THEN most ELSE x
AtLeastZero(x) == IF x < 0 THEN 0 ELSE x
Truncated(a, b) == IF a >= 0 THEN a \div b ELSE -((-a) \div b)
Rounded(product, b) == Truncated(IF product >= 0 THEN product + b \div 2 ELSE product - b \div 2, b)
RoundedRatio(value, a, b) == Rounded(value * a, b)

Estimates(f(_), e) ==
  [central |-> f(e.central), lower |-> IF e.lower = NotGiven THEN NotGiven ELSE f(e.lower),
   upper |-> IF e.upper = NotGiven THEN NotGiven ELSE f(e.upper)]
NoEstimate == [central |-> NotGiven, lower |-> NotGiven, upper |-> NotGiven]

(* The uncertainty of an estimate bounds it.                                *)
Ordered(e) ==
  /\ e.lower = NotGiven \/ e.lower <= e.central
  /\ e.upper = NotGiven \/ e.central <= e.upper

-----------------------------------------------------------------------------
(* Weather.  A point is [from, to, global, direct, diffuse, plane].          *)

ValidIrradiance(p) ==
  /\ p.plane # NoEstimate \/ p.global # NoEstimate \/ (p.direct # NoEstimate /\ p.diffuse # NoEstimate)
  /\ \A e \in {p.global, p.direct, p.diffuse, p.plane} \ {NoEstimate} : Ordered(e)

ValidRun(run) ==
  /\ run.resolution > 0
  /\ run.kind = "forecast" => run.issued # NotGiven /\ run.issued < run.to
  /\ run.issued # NotGiven => run.issued <= run.fetched
  /\ run.kind \in {"observed", "reanalysis"} => run.to <= run.fetched
  /\ run.located /\ run.attributed /\ run.points # <<>>
  /\ \A n \in DOMAIN run.points :
       /\ run.from <= run.points[n].from /\ run.points[n].to <= run.to
       /\ n > 1 => run.points[n - 1].to <= run.points[n].from
       /\ run.points[n].to - run.points[n].from = run.resolution
       /\ ValidIrradiance(run.points[n])

(* What a provider answers is taken in the expected units, for the kind and *)
(* the place that were asked for.                                           *)
ValidResponse(request, run) ==
  run.units /\ run.kind = request.kind /\ run.place = request.place /\ ValidRun(run)

Transposed(global, direct, diffuse, sun) ==
  IF sun.up THEN (global * sun.ground + direct * sun.beam + diffuse * sun.sky + 5) \div 10 ELSE 0

PlaneOfArray(p, sun) ==
  LET all(f(_)) == f(p.global) # NotGiven /\ f(p.direct) # NotGiven /\ f(p.diffuse) # NotGiven
      transposed(f(_)) == IF all(f) THEN Transposed(f(p.global), f(p.direct), f(p.diffuse), sun) ELSE NotGiven
  IN IF p.plane # NoEstimate THEN p.plane
     ELSE IF ~all(LAMBDA e : e.central) THEN NoEstimate
     ELSE [central |-> transposed(LAMBDA e : e.central), lower |-> transposed(LAMBDA e : e.lower), upper |-> transposed(LAMBDA e : e.upper)]

-----------------------------------------------------------------------------
(* One string: [nameplate, plane, ambient, coefficient, losses, calibration].*)

ModuleTemperature(ambient, irradiance) == ambient + (irradiance * Rise) \div RiseAt

MostDc(nameplate) == RoundedRatio(nameplate, MostOfNameplate, Full)

(* Losses apply one after the other, and the calibration last.              *)
DcValue(s, irradiance) ==
  LET delta == ModuleTemperature(s.ambient, irradiance) - Warmth
      factor == AtLeastZero(One + Truncated(s.coefficient * delta, 1000))
      warmed == RoundedRatio(RoundedRatio(s.nameplate, irradiance, Standard), factor, One)
      left == Along(LAMBDA value, loss : RoundedRatio(value, Full - loss, Full), warmed, s.losses)
  IN Capped(AtLeastZero(RoundedRatio(left, Full + s.calibration, Full)), MostDc(s.nameplate))

StringDc(s) ==
  LET power == Estimates(LAMBDA irradiance : DcValue(s, irradiance), s.plane)
  IN [power |-> power, capped |-> MostDc(s.nameplate) \in {power.central, power.lower, power.upper}]

-----------------------------------------------------------------------------
(* An inverter over its strings [nameplate, power, reasons], and a system.  *)

SumOf(contributions, f(_)) == SumFunction([n \in DOMAIN contributions |-> f(contributions[n])])

(* A bound of the sum is known when it is of every part.                    *)
Together(estimates) ==
  LET bound(f(_)) == IF \E n \in DOMAIN estimates : f(estimates[n]) = NotGiven THEN NotGiven ELSE SumOf(estimates, f)
  IN [central |-> SumOf(estimates, LAMBDA e : e.central), lower |-> bound(LAMBDA e : e.lower), upper |-> bound(LAMBDA e : e.upper)]

Given(parts) == [n \in {k \in DOMAIN parts : parts[k].power # NoEstimate} |-> parts[n]]
Completeness(included, reasons) == IF included = 0 THEN "unavailable" ELSE IF reasons = {} THEN "complete" ELSE "partial"
Reasons(reasons, included, total) ==
  reasons \cup (IF included = 0 THEN {"no equipment"} ELSE IF included < total THEN {"partial capacity"} ELSE {})

Inverter(strings, efficiency, most) ==
  LET total == SumOf(strings, LAMBDA s : s.nameplate)
      included == SumOf(Given(strings), LAMBDA s : s.nameplate)
      reasons == Reasons(UNION {strings[n].reasons : n \in {k \in DOMAIN strings : strings[k].power = NoEstimate}}, included, total)
      dc == Together([n \in DOMAIN Given(strings) |-> Given(strings)[n].power])
      converted(value) == RoundedRatio(value, efficiency, Full)
  IN [power |-> IF included = 0 THEN NoEstimate ELSE Estimates(LAMBDA value : Capped(converted(value), most), dc),
      included |-> included, total |-> total, reasons |-> reasons,
      completeness |-> Completeness(included, reasons),
      clipped |-> included > 0 /\ converted(dc.central) > most]

System(inverters) ==
  LET total == SumOf(inverters, LAMBDA i : i.total)
      included == SumOf(inverters, LAMBDA i : i.included)
      reasons == Reasons(UNION {inverters[n].reasons : n \in DOMAIN inverters}, included, total)
  IN [power |-> IF included = 0 THEN NoEstimate ELSE Together([n \in DOMAIN Given(inverters) |-> Given(inverters)[n].power]),
      included |-> included, total |-> total, reasons |-> reasons, completeness |-> Completeness(included, reasons)]

-----------------------------------------------------------------------------
(* Energy over an interval, and what it is compared with.                   *)

Compatible(basis, kind) == <<basis, kind>> \in {<<"forecast", "forecast">>, <<"expected", "observed">>, <<"expected", "reanalysis">>}

Energy(power, length) == Estimates(LAMBDA value : Rounded(value * length, Hour), power)

(* actual is [scope, energy, coverage, quality]; an error is a reason too.  *)
Unavailable(reason) == [ratio |-> NotGiven, reason |-> reason]
Compared(metric, basis, scope, actual, modeled, least) ==
  IF <<metric, basis>> \notin {<<"performance", "expected">>, <<"realization", "forecast">>} THEN Unavailable("basis")
  ELSE IF actual.scope # scope THEN Unavailable("scope")
  ELSE IF actual.energy = NotGiven THEN Unavailable("telemetry")
  ELSE IF actual.coverage < least.coverage \/ actual.quality < least.quality THEN Unavailable("coverage")
  ELSE IF modeled = NotGiven THEN Unavailable("weather")
  ELSE IF modeled <= 0 THEN Unavailable("not positive")
  ELSE IF actual.energy < 0 THEN Unavailable("telemetry")
  ELSE [ratio |-> (actual.energy * Full) \div modeled, reason |-> ""]

-----------------------------------------------------------------------------
(* Every point of a run that was accepted gives the irradiance on a plane,  *)
(* with bounds that bound it, unless it has the global irradiance alone,    *)
(* which is accepted and cannot be transposed; no instant has two; and what *)
(* is taken for observed was over when it was fetched (validate, fetch).    *)
RunIsUsable(request, run, sun) ==
  ValidResponse(request, run) =>
    /\ request.kind # "forecast" => \A n \in DOMAIN run.points : run.points[n].to <= run.fetched
    /\ \A n \in DOMAIN run.points :
         LET p == run.points[n]
         IN /\ p.plane # NoEstimate \/ (p.global # NoEstimate /\ p.direct # NoEstimate /\ p.diffuse # NoEstimate)
               => PlaneOfArray(p, sun) # NoEstimate /\ Ordered(PlaneOfArray(p, sun))
            /\ \A k \in DOMAIN run.points : k # n => run.points[k].to <= p.from \/ p.to <= run.points[k].from

(* The bounds of a string's irradiance bound its power, where warmth costs  *)
(* it nothing, and the power never exceeds the cap.                         *)
DcIsBounded(s) ==
  LET dc == StringDc(s)
  IN /\ dc.power.central \in 0..MostDc(s.nameplate)
     /\ s.coefficient = 0 /\ Ordered(s.plane) => Ordered(dc.power)
     /\ (dc.power.lower = NotGiven) = (s.plane.lower = NotGiven)

(* From strings to the system: bounds go on bounding, in spite of clipping  *)
(* and of parts that are missing; what is left out is said; and no more     *)
(* comes out than the strings put in and the inverters can deliver.         *)
SystemAddsUp(inverters) ==
  LET of(i) == Inverter(i.strings, i.efficiency, i.most)
      each == [n \in DOMAIN inverters |-> of(inverters[n])]
      all == [p \in UNION {{n} \X DOMAIN inverters[n].strings : n \in DOMAIN inverters} |-> inverters[p[1]].strings[p[2]]]
      system == System(each)
      ordered(parts) == \A n \in DOMAIN parts : parts[n].power # NoEstimate => Ordered(parts[n].power)
  IN /\ ordered(all) => ordered(each) /\ ordered(<<system>>)
     /\ (system.power # NoEstimate) <=> system.included > 0
     /\ system.included = SumOf(Given(all), LAMBDA s : s.nameplate) /\ system.total = SumOf(all, LAMBDA s : s.nameplate)
     /\ system.completeness = "complete" => \A n \in DOMAIN all : all[n].power # NoEstimate \/ all[n].reasons = {}
     /\ system.included < system.total => system.completeness # "complete"
     /\ system.power # NoEstimate => /\ system.power.central <= SumOf(inverters, LAMBDA i : i.most)
                                     /\ system.power.central <= SumOf(Given(all), LAMBDA s : s.power.central)
     /\ system.power.lower # NotGiven => \A n \in DOMAIN Given(each) : Given(each)[n].power.lower # NotGiven

(* The energy of an interval is that of its parts, but for the rounding of  *)
(* each; and weather that was forecast never enters the performance of the  *)
(* past, nor weather of the past the realization of a forecast.             *)
EnergyAddsUp(power, first, second) ==
  LET whole == Energy(power, first + second).central
      parts == Energy(power, first).central + Energy(power, second).central
  IN whole - parts \in -1..1
BasisIsKept(metric, basis, kind, actual, modeled, least) ==
  LET compared == Compared(metric, basis, "system", actual, modeled, least)
  IN Compatible(basis, kind) /\ compared.ratio # NotGiven =>
       /\ (metric = "performance") = (kind # "forecast")
       /\ compared.ratio >= 0 /\ (actual.energy >= modeled <=> compared.ratio >= Full)
=============================================================================
