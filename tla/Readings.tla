------------------------------ MODULE Readings ------------------------------
(* Readings of a meter on their way in and later looks at their quality:    *)
(* normalized to whole base units (application::ingestion_normalization),   *)
(* validated against the reading before (ingestion_validation), and         *)
(* searched for gaps and counter resets (data_quality).  An                *)
(* energy reading is [kind, value, reset]: of an interval, of a counter     *)
(* with the number of its resets, or none.  Voltage and temperature are     *)
(* left out; the hash of the values is the values.                          *)
EXTENDS Integers, FiniteSets, Sequences, FiniteSetsExt, Functions, Walks

CONSTANTS
  NotGiven,  \* a value that is not given
  Milli,     \* the thousandths in a base unit
  Full,      \* the whole of a ratio
  Hour,      \* the length of an hour
  MaxReset,  \* the largest number of resets that can be represented
  Channels   \* the registered extended channels

NoEnergy == [kind |-> "none", value |-> 0, reset |-> 0]
NoGrid == [kind |-> "none", import |-> 0, export |-> 0]
NoBattery == [energy |-> NotGiven, power |-> NotGiven, charge |-> NotGiven]
Refused == [at |-> NotGiven]
Truncated(a, b) == IF a >= 0 THEN a \div b ELSE -((-a) \div b)

-----------------------------------------------------------------------------
(* Normalization.  An amount is [value, unit], unit "base" or "milli"; no   *)
(* amount has the unit "none".                                              *)

ExactlyDivided(amount) == amount.unit = "milli" => amount.value % Milli = 0
InBase(amount) == IF amount.unit = "none" THEN NotGiven ELSE IF amount.unit = "milli" THEN amount.value \div Milli ELSE amount.value

Energy(amount) ==
  IF amount.unit = "none" THEN NoEnergy
  ELSE [kind |-> IF amount.counter THEN "counter" ELSE "interval", value |-> InBase(amount), reset |-> IF amount.counter THEN amount.reset ELSE 0]

Battery(input) == [energy |-> InBase(input.stored), power |-> InBase(input.flow), charge |-> input.charge]

Normalized(input) ==
  IF \/ input.key = "blank" \/ ~(input.channels \subseteq Channels)
     \/ \E amount \in {input.power, input.energy, input.stored, input.flow} : ~ExactlyDivided(amount)
     \/ input.charge # NotGiven /\ input.charge \notin -Full..Full
  THEN Refused
  ELSE [at |-> input.at, power |-> InBase(input.power), energy |-> Energy(input.energy),
        battery |-> Battery(input), grid |-> NoGrid, derived |-> FALSE]

Payload(o) == [power |-> o.power, energy |-> o.energy, battery |-> o.battery]

-----------------------------------------------------------------------------
(* Validation against the reading before; Refused stands for none.          *)

Delta(value) == [ok |-> TRUE, value |-> value]
NoDelta == [ok |-> FALSE, value |-> 0]

(* What was measured since: a counter goes up, or was reset once.           *)
EnergyDeltaAnyway(current, previous) ==
  IF current.kind = "interval" THEN Delta(current.value)
  ELSE IF previous.kind = "counter" /\ current.reset = previous.reset THEN Delta(current.value - previous.value)
  ELSE IF previous.kind = "counter" /\ current.reset = (IF previous.reset = MaxReset THEN MaxReset ELSE previous.reset + 1)
  THEN Delta(current.value)
  ELSE NoDelta

EnergyDelta(current, previous) ==
  IF current.kind = "interval" THEN Delta(current.value)
  ELSE IF previous.kind = "counter" /\ current.reset = previous.reset /\ current.value >= previous.value
  THEN Delta(current.value - previous.value)
  ELSE IF previous.kind = "counter" /\ current.reset = (IF previous.reset = MaxReset THEN MaxReset ELSE previous.reset + 1)
  THEN Delta(current.value)
  ELSE NoDelta

ValidCounter(current, previous) ==
  current.kind = "counter" /\ previous.kind # "none" => EnergyDelta(current, previous).ok

ValidGrid(grid, mode) ==
  /\ <<grid.kind, mode>> \notin {<<"net import", "export positive">>, <<"net export", "import positive">>}
  /\ grid.kind = "split" => grid.import >= 0 /\ grid.export >= 0

(* Power is derived from energy where it is not measured.                   *)
Derives(o, previous, policy) ==
  /\ o.power = NotGiven /\ policy.derive /\ previous # Refused
  /\ o.energy.kind # "none" /\ previous.energy.kind # "none"

DerivedPower(o, previous) == Truncated(EnergyDelta(o.energy, previous.energy).value * Hour, o.at - previous.at)

Validated(o, previous, policy) ==
  IF \/ o.at \notin policy.earliest..policy.latest
     \/ o.power # NotGiven /\ o.power \notin -policy.limit..policy.limit
     \/ ~ValidGrid(o.grid, policy.mode)
     \/ Derives(o, previous, policy) /\ (o.at <= previous.at \/ ~EnergyDelta(o.energy, previous.energy).ok)
     \/ previous # Refused /\ ~ValidCounter(o.energy, previous.energy)
  THEN Refused
  ELSE IF Derives(o, previous, policy) THEN [o EXCEPT !.power = DerivedPower(o, previous), !.derived = TRUE]
  ELSE o

(* Readings one after the other, each against the last that was accepted.   *)
Accepted(readings, policy) ==
  LET next(acc, o) ==
        LET v == Validated(o, IF acc = <<>> THEN Refused ELSE acc[Len(acc)], policy)
        IN IF v = Refused THEN acc ELSE Append(acc, v)
  IN Along(next, <<>>, readings)

-----------------------------------------------------------------------------
(* Quality.  Samples [at, source, energy] come in order of time and         *)
(* source.                                                                  *)

ValidSamples(samples, from, to) ==
  /\ from < to
  /\ \A n \in DOMAIN samples : from <= samples[n].at /\ samples[n].at < to
  /\ \A n \in 1..Len(samples) - 1 :
       samples[n].at < samples[n + 1].at \/ (samples[n].at = samples[n + 1].at /\ samples[n].source <= samples[n + 1].source)

Times(samples) == {samples[n].at : n \in DOMAIN samples}

(* From the range's beginning, over the readings, to its end.               *)
MissingIntervals(samples, from, to, expected, tolerance) ==
  LET times == Times(samples) \cup {from - expected}
      after(t) == IF \E u \in times : u > t THEN Min({u \in times : u > t}) ELSE to + expected
  IN {[from |-> IF t + expected > from THEN t + expected ELSE from, to |-> IF after(t) < to THEN after(t) ELSE to] :
        t \in {u \in times : after(u) - (u + expected) > tolerance}}

CounterResets(samples) ==
  LET counts(n) == samples[n].energy.kind = "counter" /\ samples[n - 1].energy.kind = "counter"
      later(n) == samples[n].energy.reset > samples[n - 1].energy.reset
      less(n) == samples[n].energy.value < samples[n - 1].energy.value
  IN {[at |-> samples[n].at, declared |-> later(n)] :
        n \in {k \in 2..Len(samples) : samples[k].at # samples[k - 1].at /\ counts(k) /\ (later(k) \/ less(k))}}

-----------------------------------------------------------------------------
(* A reading given in thousandths and in base units is the same reading, so *)
(* that a retry in other units is told from a conflict, and nothing is      *)
(* rounded away (normalize_observation).                                    *)
UnitsAreExact(input) ==
  LET fine(amount) == IF amount.unit = "base" THEN [amount EXCEPT !.unit = "milli", !.value = @ * Milli] ELSE amount
      finer == [input EXCEPT !.power = fine(@), !.energy = fine(@), !.stored = fine(@), !.flow = fine(@)]
      a == Normalized(input)
      b == Normalized(finer)
  IN (a # Refused) = (b # Refused) /\ (a # Refused => Payload(a) = Payload(b))

(* Whatever arrives: among the readings that are accepted, a counter is     *)
(* lower than before only where a reset was declared, unless resets can no  *)
(* longer be counted; and the power derived between two resets comes to     *)
(* what the counter went up (validate_observation, detect_counter_resets).  *)
CountersAddUp(readings, policy) ==
  LET chain == Accepted(readings, policy)
      counters == \A n \in DOMAIN chain : chain[n].energy.kind = "counter" /\ chain[n].energy.reset < MaxReset
      steady == counters /\ \A n \in DOMAIN chain : chain[n].energy.reset = chain[1].energy.reset
      steps == 2..Len(chain)
      elapsed(n) == chain[n].at - chain[n - 1].at
      derived == SumFunction([n \in steps |-> chain[n].power * elapsed(n)])
      growth == (chain[Len(chain)].energy.value - chain[1].energy.value) * Hour
  IN chain # <<>> =>
       /\ counters => \A r \in CounterResets(chain) : r.declared
       /\ steady /\ (\A n \in steps : chain[n].derived) =>
            derived <= growth /\ growth - derived <= SumFunction([n \in steps |-> elapsed(n)])

(* The gaps that are told are those without a reading for longer than       *)
(* expected; none holds a reading, and no two overlap.  (At the end of the  *)
(* range a gap may be told that is empty, even if no reading is missing.)   *)
GapsAreMissing(samples, from, to, expected, tolerance) ==
  LET gaps == {g \in MissingIntervals(samples, from, to, expected, tolerance) : g.from < g.to}
      times == Times(samples)
  IN ValidSamples(samples, from, to) =>
       /\ \A g \in gaps : g.from >= from /\ g.to <= to /\ \A t \in times : t < g.from \/ t >= g.to
       /\ \A g, h \in gaps : g # h => g.to <= h.from \/ h.to <= g.from
       /\ \A t \in from..to - 1 :
            (\A u \in times : u > t \/ t - u > expected + tolerance) /\ t - from > tolerance + expected
              => \E g \in gaps : g.from <= t /\ t < g.to
=============================================================================
