----------------------------- MODULE Equipment ------------------------------
(* The inverters of a system with their strings, and the forecast settings  *)
(* of a string (account_repository and yield_forecast_repository, called by *)
(* pvlog::inverters): an edit looks the inverter up and replaces it later,  *)
(* the strings of an inverter are replaced as a whole under new ids, which  *)
(* takes their settings along, and settings are inserted after a look for   *)
(* overlapping ones.  A listing reads the inverters first and the strings   *)
(* of each in a read of its own.  Names, ratings and templates are left out *)
(* (EquipmentRules has the rules about them).                               *)
EXTENDS Integers, FiniteSets

CONSTANTS Requests,   \* requests that are handled at the same time
          Inverters,  \* the ids inverters may get
          Inputs,     \* the edits callers ask for: [from, to, strings]
          Periods,    \* the periods settings are asked for
          Forever,    \* the end of a period that has none
          MaxTime,    \* the days that pass
          MaxSaves    \* how often an inverter is saved, for a finite model

VARIABLES
  engine,    \* "sqlite" or "postgres"
  today,
  rows,      \* the inverters: [id, version, from, to]
  strings,   \* [id, inverter, version, from, to]; version is the save's
  settings,  \* [string, from, to, by]
  request,   \* what each request is at
  saves,     \* how often an inverter was saved
  deleted,   \* inverters whose deletion was answered
  overtaken, \* of them, those an edit had looked up before
  crossed    \* strings whose settings two requests inserted side by side

vars == <<engine, today, rows, strings, settings, request, saves, deleted, overtaken, crossed>>

Idle == [pc |-> "idle", inverter |-> 0, string |-> <<>>, input |-> [from |-> 0, to |-> 0], strings |-> {}, rows |-> {}, answer |-> {}]
Step(r, next) == request' = [request EXCEPT ![r] = next]
At(r, pc) == request[r].pc = pc

InEffect(S) == {x \in S : x.from <= today /\ today < x.to}
ValidPeriod(p) == p.from < p.to
ValidInput(input) == ValidPeriod(input) /\ input.strings # {} /\ \A p \in input.strings : ValidPeriod(p)

Overlapping(p, q) == p.from < q.to /\ q.from < p.to
Overlaps(p, string) == \E s \in settings : s.string = string /\ Overlapping(s, p)

TypeOK ==
  /\ engine \in {"sqlite", "postgres"} /\ today \in 0..MaxTime /\ saves \in 0..MaxSaves
  /\ \A i \in rows : i.id \in Inverters /\ ValidPeriod(i)
  /\ \A s \in strings : (\E i \in rows : i.id = s.inverter) /\ ValidPeriod(s)
  /\ \A s \in settings : (\E t \in strings : t.id = s.string) /\ ValidPeriod(s)

Init ==
  /\ engine \in {"sqlite", "postgres"} /\ today = 0
  /\ rows = {} /\ strings = {} /\ settings = {} /\ saves = 0
  /\ request = [r \in Requests |-> Idle]
  /\ deleted = {} /\ overtaken = {} /\ crossed = {}

-----------------------------------------------------------------------------
(* Inverters.                                                               *)

(* The row of one id is inserted or overwritten, its strings are deleted,   *)
(* which deletes their settings, and the given ones are inserted.           *)
SaveAggregate(id, input) ==
  LET gone == {s \in strings : s.inverter = id}
  IN /\ saves < MaxSaves /\ saves' = saves + 1
     /\ rows' = {i \in rows : i.id # id} \cup {[id |-> id, version |-> saves + 1, from |-> input.from, to |-> input.to]}
     /\ strings' = (strings \ gone)
          \cup {[id |-> <<saves + 1, p>>, inverter |-> id, version |-> saves + 1, from |-> p.from, to |-> p.to] : p \in input.strings}
     /\ settings' = {s \in settings : \A g \in gone : s.string # g.id}
     /\ UNCHANGED <<engine, today, deleted, overtaken, crossed>>

Create(r) ==
  /\ At(r, "idle")
  /\ \E id \in Inverters, input \in Inputs :
       /\ ValidInput(input)
       /\ \A i \in rows : i.id # id
       /\ id \notin deleted
       /\ SaveAggregate(id, input)
  /\ UNCHANGED request

(* An edit is let through when the inverter is in effect now.               *)
FindUnseen(r) ==
  /\ At(r, "idle")
  /\ \E id \in Inverters, input \in Inputs :
       ValidInput(input) /\ Step(r, [Idle EXCEPT !.pc = "found", !.inverter = id, !.input = [from |-> input.from, to |-> input.to], !.strings = input.strings])
  /\ UNCHANGED <<engine, today, rows, strings, settings, saves, deleted, overtaken, crossed>>

Find(r) ==
  /\ At(r, "idle")
  /\ \E i \in InEffect(rows), input \in Inputs :
       ValidInput(input) /\ Step(r, [Idle EXCEPT !.pc = "found", !.inverter = i.id, !.input = [from |-> input.from, to |-> input.to], !.strings = input.strings])
  /\ UNCHANGED <<engine, today, rows, strings, settings, saves, deleted, overtaken, crossed>>

Replace(r) ==
  /\ At(r, "found")
  /\ SaveAggregate(request[r].inverter, [from |-> request[r].input.from, to |-> request[r].input.to, strings |-> request[r].strings])
  /\ Step(r, Idle)

Delete(r) ==
  /\ At(r, "idle")
  /\ \E i \in rows :
       LET gone == {s \in strings : s.inverter = i.id}
       IN /\ rows' = rows \ {i}
          /\ strings' = strings \ gone
          /\ settings' = {s \in settings : \A g \in gone : s.string # g.id}
          /\ deleted' = deleted \cup {i.id}
          /\ overtaken' = IF \E q \in Requests : At(q, "found") /\ request[q].inverter = i.id
                          THEN overtaken \cup {i.id} ELSE overtaken
  /\ UNCHANGED <<engine, today, request, saves, crossed>>

(* A listing: the inverters in effect, then the strings in effect of each.  *)
ReadRows(r) ==
  /\ At(r, "idle")
  /\ Step(r, [Idle EXCEPT !.pc = "listing", !.rows = InEffect(rows)])
  /\ UNCHANGED <<engine, today, rows, strings, settings, saves, deleted, overtaken, crossed>>

ReadStrings(r) ==
  /\ At(r, "listing")
  /\ \E i \in request[r].rows :
       Step(r, [request[r] EXCEPT !.rows = @ \ {i},
                                  !.answer = @ \cup {[row |-> i, strings |-> {s \in InEffect(strings) : s.inverter = i.id}]}])
  /\ UNCHANGED <<engine, today, rows, strings, settings, saves, deleted, overtaken, crossed>>

Answer(r) ==
  /\ At(r, "listing") /\ request[r].rows = {}
  /\ Step(r, Idle)
  /\ UNCHANGED <<engine, today, rows, strings, settings, saves, deleted, overtaken, crossed>>

-----------------------------------------------------------------------------
(* Forecast settings.                                                       *)

Setting(string, period, r) == [string |-> string, from |-> period.from, to |-> period.to, by |-> r]

(* Under the writer lane of SQLite the look and the insert are one step.    *)
InsertSettings(r) ==
  /\ engine = "sqlite" /\ At(r, "idle")
  /\ \E s \in strings, p \in Periods :
       ValidPeriod(p) /\ ~Overlaps(p, s.id) /\ settings' = settings \cup {Setting(s.id, p, r)}
  /\ UNCHANGED <<engine, today, rows, strings, request, saves, deleted, overtaken, crossed>>

(* On PostgreSQL they are two.                                              *)
LookForOverlap(r) ==
  /\ engine = "postgres" /\ At(r, "idle")
  /\ \E s \in strings, p \in Periods :
       ValidPeriod(p) /\ ~Overlaps(p, s.id) /\ Step(r, [Idle EXCEPT !.pc = "looked", !.string = s.id, !.input = p])
  /\ UNCHANGED <<engine, today, rows, strings, settings, saves, deleted, overtaken, crossed>>

(* The string may be gone; of two settings from one day the second is       *)
(* refused.                                                                 *)
InsertLooked(r) ==
  /\ At(r, "looked")
  /\ LET string == request[r].string
         input == request[r].input
     IN IF \/ \A s \in strings : s.id # string
           \/ \E s \in settings : s.string = string /\ s.from = input.from
        THEN UNCHANGED <<settings, crossed>>
        ELSE /\ settings' = settings \cup {Setting(string, input, r)}
             /\ crossed' = IF \E q \in Requests \ {r} : At(q, "looked") /\ request[q].string = string
                           THEN crossed \cup {string} ELSE crossed
  /\ Step(r, Idle)
  /\ UNCHANGED <<engine, today, rows, strings, saves, deleted, overtaken>>

(* Forecasts take the settings in effect that began last.                   *)
EffectiveSettings(string) ==
  LET candidates == {s \in InEffect(settings) : s.string = string}
  IN {s \in candidates : \A t \in candidates : t.from <= s.from}

Tick == today < MaxTime /\ today' = today + 1
        /\ UNCHANGED <<engine, rows, strings, settings, request, saves, deleted, overtaken, crossed>>

(* A request that fails ends where it is.                                   *)
Fail(r) == ~At(r, "idle") /\ Step(r, Idle)
           /\ UNCHANGED <<engine, today, rows, strings, settings, saves, deleted, overtaken, crossed>>

Next ==
  \/ \E r \in Requests :
       \/ Create(r) \/ Find(r) \/ Replace(r) \/ Delete(r)
       \/ ReadRows(r) \/ ReadStrings(r) \/ Answer(r)
       \/ InsertSettings(r) \/ LookForOverlap(r) \/ InsertLooked(r)
       \/ Fail(r)
  \/ Tick

Spec == Init /\ [][Next]_vars

-----------------------------------------------------------------------------
(* A deleted inverter stays deleted, unless an edit had looked it up before *)
(* the deletion: that one inserts it again (pvlog::inverters::save).        *)
DeletedStaysGone == \A i \in rows : i.id \in deleted => i.id \in overtaken

(* A listing may show an inverter with the strings of a later save, or with *)
(* none, but never with older strings than its own or with those of two     *)
(* saves, and what it shows together was stored together unless the         *)
(* inverter was saved during the listing (effective_inverters).             *)
ListingIsOneSave ==
  \A r \in Requests : \A a \in request[r].answer :
    /\ \A s, t \in a.strings : s.version = t.version
    /\ \A s \in a.strings : s.version >= a.row.version

(* No two settings of a string are in effect on one day, so that forecasts  *)
(* need not choose, unless on PostgreSQL two requests inserted them side by *)
(* side (insert_forecast_settings).                                         *)
SettingsAreDisjoint ==
  /\ \A s, t \in settings : s # t /\ s.string = t.string /\ Overlapping(s, t) => s.string \in crossed
  /\ engine = "sqlite" => crossed = {}
  /\ \A s \in strings : s.id \notin crossed => Cardinality(EffectiveSettings(s.id)) <= 1
=============================================================================
