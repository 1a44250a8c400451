----------------------------- MODULE MCServices -----------------------------
(* Services on small instances, with the rules that keep no state on        *)
(* samples.  A behaviour exercises the part its initial state chooses.      *)
EXTENDS Services, Rules, TLC

CONSTANTS Halves

VARIABLES half

signin == <<stale, status, cred, recovery, sessions, clock, call, chosen, changes, recoveries, untrimmed>>
identities == <<owner, users, emails, local, task, orphans, overlapped>>
tokens == <<keys, usable, step, answered, leftover, failures>>
access == <<roles, assignments, decision, raced, saves>>
routing == <<instant, routable, pools, made, holder, refused>>
alerts == <<today, state, evaluation, opened, resolved, clearAt, overtaken>>
ingestion == <<engine, hot, archived, invalidated, active, upload>>
records == <<backend, now, record, caller, reply>>
gateway == <<grants, live, registered, ready, asked, seen, disturbed>>
first_session == <<kind, standing, database, leasedBy, members, builtIn, assigned, first, mishaps>>
provisioning == <<accountStatus, accountLifecycle, lease, final, temp, quarantine, dbLease, proc, crashes, errors>>
fleet == <<row, lifecycle, registry, owned, request, outcome, lost, faults>>
requests == <<signin, identities, tokens, access, fleet, routing, alerts>>
equipment == <<profile, date, rows, strings, settings, edits, saved, deleted, overwritten, crossed>>
membership == <<policy, people, invitations, tasks, barred, used, late>>
others == <<gateway, first_session, provisioning, equipment, membership>>

(* A reading, its identical retry in another batch, other values under the  *)
(* same key, the same values at another time, and one without a key.        *)
Reading(k, t, h, v) == [key |-> k, at |-> t, hash |-> h, valid |-> v]
SomeBatches == { <<Reading("k1", 1, "x", TRUE)>>,
                 <<Reading("k1", 1, "y", TRUE), Reading("k2", 2, "x", FALSE)>>,
                 <<Reading("k1", 2, "x", TRUE), Reading(NoKey, 1, "x", TRUE)>> }

(* The user's own account "a" and another one; a key for each, one of them  *)
(* of a single system; the permissions a role, or an administrator, has.    *)
TwoHomes == [s1 |-> "a", s2 |-> "b"]
TwoKeys == [k1 |-> [account |-> "a", system |-> "s1", scopes |-> {"systems_read", "telemetry_write"}],
            k2 |-> [account |-> "b", system |-> "", scopes |-> {"systems_write", "telemetry_read"}]]
ThreeProfiles ==
  { {}, {<<"", "", "instance_manage">>, <<"", "", "role_manage">>},
    {"a"} \X {""} \X {"system_read", "system_manage", "account_read", "credential_manage"}
      \cup {"b"} \X {"s2"} \X {"telemetry_read", "telemetry_write", "system_manage"} }

OwnerAndManager == <<"owner", "manager">>
TwoAdministrators == <<"a", "b">>

(* Edits that leave a period to its strings, cut it, and have none.         *)
Period(f, t) == [from |-> f, to |-> t]
Edit(p, s) == [from |-> p.from, to |-> p.to, strings |-> s]
SomeInputs ==
  {Edit(Period(0, 9), {Period(0, 1), Period(0, 9)}), Edit(Period(0, 1), {Period(1, 9)}), Edit(Period(0, 9), {})}
SomePeriods == {Period(0, 9), Period(1, 2)}

(* A manager holds the one built-in role.                                   *)
OneBuiltIn == [manager |-> {"manage"}]
OneGranted == {[user |-> "m", role |-> "manager", scope |-> "account"]}

-----------------------------------------------------------------------------
(* Samples for the rules.                                                   *)
From(f, t) == [from |-> f, to |-> t]
UpTo(S, n) == UNION {[1..k -> S] : k \in 0..n}

(* Equipment: systems of one or two inverters with two strings and versions *)
(* of them on four dates, inputs around each limit, and documents.          *)
OneCatalog == [e |-> [make |-> "m", power |-> 2], f |-> [make |-> "n", power |-> 1]]
PlantString(id, inv, p, power, missing, s) ==
  [id |-> id, inverter |-> inv, from |-> p.from, to |-> p.to, power |-> power, missing |-> missing, settings |-> s]
Inv(id, p, ss) == [id |-> id, from |-> p.from, to |-> p.to, strings |-> ss]
PlantStrings == { PlantString(id, 1, p, IF id = 1 THEN w ELSE 5 - w, IF w = 4 THEN {} ELSE {"tilt"}, s) :
               id \in {1, 2}, p \in {From(1, 3), From(2, 9)}, w \in {1, 4}, s \in {From(9, 9), From(1, 2), From(2, 9)} }
SomePlants == [ located : BOOLEAN,
             inverters : { {Inv(1, p, {s, t})} \cup other : p \in {From(1, 4), From(2, 9)}, s \in PlantStrings, t \in {u \in PlantStrings : u.id = 2},
               other \in { {}, {Inv(2, From(2, 3), {PlantString(1, 2, From(1, 9), 2, {}, From(1, 9))})},
                           {Inv(1, From(3, 9), {PlantString(1, 1, From(1, 9), 1, {}, From(9, 9))})} } } ]
SomeStringInputs == [ name : {"a", "blank"}, count : {0, 1, 3, 4}, power : 0..2, tilt : {90, 91}, from : {1}, to : {9}, identity : {"p", "blank"},
            claims : {"", "copied"},
            snapshot : {Equip!NoSnapshot} \cup [entry : {"none", "e", "f"}, revision : {1, 2}, make : {"m", "n"}, power : {1, 2}] ]
SomeDocuments == UpTo([id : {1, 2}, revision : {2}, make : {"m", "n"}], 3)

(* Readings: amounts in both units, three readings at three times with      *)
(* every pair of counters and resets up to the limit, series with gaps.     *)
Amount(v, u, c) == [value |-> v, unit |-> u, counter |-> c, reset |-> 1]
Nothing == Amount(0, "none", FALSE)
Amounts == {Amount(v, u, c) : v \in {-3, 0, 7, 20}, u \in {"base", "milli"}, c \in BOOLEAN} \cup {Nothing}
SomeIncoming == [ key : {"k", "blank"}, at : {1}, channels : {{}, {"c"}, {"d"}}, power : Amounts, energy : Amounts,
              stored : {Nothing}, flow : {Nothing, Amount(20, "milli", FALSE)}, charge : {NotGiven, 50, 101} ]
Energies == [kind : {"counter"}, value : {2, 5}, reset : 0..2] \cup [kind : {"interval"}, value : {3}, reset : {0}] \cup {Reads!NoEnergy}
Chain(times, power, energy) ==
  [n \in 1..3 |-> [at |-> times[n], power |-> IF n = 2 THEN power ELSE NotGiven, energy |-> energy[n],
                   battery |-> Reads!NoBattery, grid |-> Reads!NoGrid, derived |-> FALSE]]
SomeChains ==
  { [readings |-> Chain(times, power, energy), policy |-> [earliest |-> 1, latest |-> 5, limit |-> 4, derive |-> derive, mode |-> "disabled"]] :
      times \in {<<1, 3, 4>>, <<1, 2, 6>>, <<2, 1, 3>>}, power \in {NotGiven, 3}, energy \in [1..3 -> Energies], derive \in BOOLEAN }
Taken(t) == [at |-> t, source |-> 1, energy |-> Reads!NoEnergy]
SomeSeries == {s \in UpTo({Taken(t) : t \in 2..9}, 4) : \A n \in 1..Len(s) - 1 : s[n].at <= s[n + 1].at}
Range(f, t, e, d) == [from |-> f, to |-> t, expected |-> e, tolerance |-> d]
SomeRanges == {Range(2, 10, 2, 0), Range(2, 9, 3, 1), Range(1, 10, 1, 2)}

(* Queries: quarters of an hour, days of which one is shorter, months of two*)
(* years (the second a leap year) and years, with ranges that begin and end inside and at the   *)
(* edges of their buckets.                                                  *)
FourRollups == <<"quarter", "day", "month", "year">>
FourWidths == [quarter |-> 1, day |-> 4, month |-> 120, year |-> 1460]
TwoUnits == [power |-> "W", provenance |-> "text"]
Days == <<31, 28, 31, 30, 31, 30, 31, 31, 30, 31, 30, 31, 31, 29, 31, 30, 31, 30, 31, 31, 30, 31, 30, 31>>
Before[n \in 0..24] == IF n = 0 THEN 0 ELSE Before[n - 1] + 4 * Days[n]
SomeStarts(resolution, interval) ==
  CASE resolution = "quarter" -> [n \in 1..260 |-> n - 1] [] resolution = "day" -> [n \in 1..80 |-> 4 * (n - 1) - (IF n > 30 THEN 1 ELSE 0)]
    [] resolution = "month" -> [n \in 1..25 |-> Before[n - 1]] [] resolution = "year" -> <<0, 1460, 2924>>
    [] OTHER -> [n \in 1..90 |-> (n - 1) * interval]
SomeBodies ==
  { [from |-> f, to |-> f + l, fields |-> fields, resolution |-> r, maximum |-> m, interval |-> i, hot |-> h, zone |-> Omitted] :
      f \in {0, 3, 120, 123, 124, 235}, l \in {0, 1, 3, 5, 8, 117, 120, 237, 1461, 3200}, r \in {"day", "month", "year", "raw", Omitted},
      fields \in {{"power"}, {"power", "provenance"}}, m \in {1, 2, 3, 6, 25, Omitted}, i \in {1, 3}, h \in {4, 124, Omitted} }

(* What is added up: samples in and outside of windows with gaps between    *)
(* them, buckets with values that are missing or too large, days given twice.*)
SomeWindows == { <<From(0, 2), From(2, 4)>>, <<From(0, 2), From(3, 5)>>, <<From(1, 3), From(3, 4), From(4, 6)>> }
SomeSamples == {s \in UpTo([at : 0..5, value : {-9, 3}, covered : {1, 2}], 3) : \A n \in 1..Len(s) - 1 : s[n].at < s[n + 1].at}
Bucket(g, e, p, c) == [sums |-> [generation |-> g, export |-> e, revenue |-> g, cost |-> e], peak |-> p, low |-> p, covered |-> c, expected |-> 2]
Buckets == {Bucket(g, e, p, 2) : g \in {NotGiven, 2, 3}, e \in {NotGiven, 1, 4}, p \in {NotGiven, 2}} \cup {Bucket(g, 1, NotGiven, c) : g \in {2, 3}, c \in {0, 3}}
SomeStatements == {[first |-> <<a>>, second |-> s, capacity |-> 2] : a \in Buckets, s \in UNION {{<<b>>, <<b, Bucket(3, 1, 2, 2)>>} : b \in Buckets}}
Day(g, x, c) == [generation |-> g, flags |-> {g}, expected |-> x, coverage |-> c, modeled |-> IF x = NotGiven THEN 0 ELSE 50]
SomeChanges == UpTo([kind : {"invalidate"}, day : {1, 2}, aggregate : {Day(4, 2, 50)}]
                      \cup [kind : {"reconcile"}, day : {1, 2}, aggregate : {Day(1, NotGiven, 50), Day(4, 2, 50), Day(2, 4, 0)}], 3) \ {<<>>}

(* The yield model: weather whose points touch, overlap or leave something  *)
(* out, strings below and above the cap, inverters that clip and that miss  *)
(* parts, energy around the rounding, and every kind of comparison.         *)
E(c, l, u) == [central |-> c, lower |-> l, upper |-> u]
Absent == Model!NoEstimate
Estimates == {Absent, E(4, NotGiven, NotGiven), E(8, 3, 12), E(8, 9, 12)}
Point(f, g, d, h, p) == [from |-> f, to |-> f + 2, global |-> g, direct |-> d, diffuse |-> h, plane |-> p]
Points == {Point(f, g, d, h, p) : f \in {0, 1, 2}, g \in Estimates, d \in {Absent, E(8, 3, 12)}, h \in {Absent, E(2, 1, NotGiven)}, p \in {Absent, E(5, 5, 5)}}
SomeWeather == [ resolution : {2}, kind : {"forecast", "observed"}, issued : {NotGiven, 1}, fetched : {3}, from : {0}, to : {3, 4},
             located : {TRUE}, attributed : {TRUE}, units : BOOLEAN, place : {"p"},
             points : {<<>>} \cup UNION {{<<p>>, <<p, Point(2, Absent, Absent, Absent, E(5, 5, 5))>>} : p \in Points} ]
SomeSuns == [up : BOOLEAN, ground : {1}, beam : {7}, sky : {9}]
SomeModelStrings == [ nameplate : {7, 40}, plane : (Estimates \ {Absent}) \cup {E(16, 8, NotGiven)}, ambient : {0, 40},
                  coefficient : {0, -4000, 3000}, losses : {<<0, 0>>, <<10, 3>>}, calibration : {-20, 0, 30} ]
Contributions == {[nameplate |-> n, power |-> e, reasons |-> IF e = Absent THEN {"tilt"} ELSE {}] :
                    n \in {7, 10}, e \in {Absent, E(4, NotGiven, NotGiven), E(8, 3, 11), E(9, 9, 9)}}
Converters == [strings : UpTo(Contributions, 1) \cup [1..2 -> {c \in Contributions : c.nameplate = 7}], efficiency : {97}, most : {6, 20}]
SomeParks == {<<i>> : i \in Converters} \cup {<<i, j>> : i \in Converters, j \in {k \in Converters : k.most = 6}}
SomeIntervals == [power : {E(c, NotGiven, NotGiven) : c \in 0..9}, first : {1, 20, 7}, second : {2, 40, 90}]
SomeComparisons == [ metric : {"performance", "realization"}, basis : {"forecast", "expected"}, kind : {"forecast", "observed", "reanalysis"},
                 modeled : {NotGiven, 0, 7, 9}, least : [coverage : {5}, quality : {5}],
                 actual : [scope : {"system", "string"}, energy : {NotGiven, -1, 0, 7, 20}, coverage : {2, 5}, quality : {5}] ]

-----------------------------------------------------------------------------
AllInit ==
  /\ half \in Halves
  /\ Way!Init /\ First!Init
  /\ Account!Init \/ (half = "deprovisioning" /\ AtWork)
  /\ half # "gateway" => grants = {}
  /\ half # "first session" => kind = "sqlite"
  /\ User!Init /\ Links!Init /\ Keys!Init /\ Access!Init /\ Fleet!Init /\ Router!Init /\ Rule!Init
  /\ Ingest!Init /\ Records!Init
  /\ half # "sign-in" => ~stale /\ status = "active"
  /\ half # "identities" => owner["s1"] # 0
  /\ half # "ingestion" => engine = "sqlite"
  /\ half # "records" => backend = "sqlite"
  /\ half # "roles" => \A r \in DOMAIN roles : roles[r] = NoRole
  /\ Fittings!Init /\ Membership!Init
  /\ half # "equipment" => profile = "sqlite"
  \* A policy that lets nobody register allows nothing more.
  /\ IF half = "users" THEN "register" \in policy ELSE policy = {}
  /\ IF half = "rules" THEN RulesInit ELSE Nowhere

(* Requests of a kind are interchangeable.                                   *)
Symmetry == Permutations(Requests)

Others == {"gateway", "first session", "deprovisioning", "equipment", "users"}
AllNext ==
  /\ \/ half = "sign-in" /\ User!Next /\ UNCHANGED <<identities, tokens, access, fleet, routing, alerts>>
     \/ half = "identities" /\ Links!Next /\ UNCHANGED <<signin, tokens, access, fleet, routing, alerts>>
     \/ half = "keys" /\ Keys!Next /\ UNCHANGED <<signin, identities, access, fleet, routing, alerts>>
     \/ half = "roles" /\ Access!Next /\ UNCHANGED <<signin, identities, tokens, fleet, routing, alerts>>
     \/ half = "systems" /\ Fleet!Next /\ UNCHANGED <<signin, identities, tokens, access, routing, alerts>>
     \/ half = "routing" /\ Router!Next /\ UNCHANGED <<signin, identities, tokens, access, fleet, alerts>>
     \/ half = "alerts" /\ Rule!Next /\ UNCHANGED <<signin, identities, tokens, access, fleet, routing>>
     \/ half = "ingestion" /\ Ingest!Next
     \/ half = "records" /\ Records!Next
     \/ half = "gateway" /\ Way!Next /\ UNCHANGED <<first_session, provisioning, equipment, membership>>
     \/ half = "first session" /\ First!Next /\ UNCHANGED <<gateway, provisioning, equipment, membership>>
     \/ half = "equipment" /\ Fittings!Next /\ UNCHANGED <<gateway, first_session, provisioning, membership>>
     \/ half = "users" /\ Membership!Next /\ UNCHANGED <<gateway, first_session, provisioning, equipment>>
     \* The two calls play different parts: only one deprovisions.
     \/ half = "deprovisioning" /\ Account!Next /\ UNCHANGED <<gateway, first_session, equipment, membership>>
        /\ (Account!At(2, "idle") => proc'[2].pc # "find")
  /\ half \in {"ingestion", "records"} \cup Others => UNCHANGED requests
  /\ half \notin Others => UNCHANGED others
  /\ half # "ingestion" => UNCHANGED ingestion
  /\ half # "records" => UNCHANGED records
  /\ half # "rules" /\ UNCHANGED <<half, rule, sample>>

AllSpec == AllInit /\ [][AllNext]_<<half, requests, ingestion, records, others, rule, sample>>

(* While the owner is let in, so is whoever they granted a role.            *)
GrantsAreWorthIt == half = "first session" => First!GrantsAreWorthIt
=============================================================================
