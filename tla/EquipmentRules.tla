--------------------------- MODULE EquipmentRules ---------------------------
(* The rules about a system's equipment that need no database: which        *)
(* versions are in effect on a date and what they add up to (domain::systems),*)
(* what is copied from the catalog and what is customised                   *)
(* (application::equipment_configuration), what an inverter's edit becomes  *)
(* (pvlog::inverters) and what the repository accepts (account_repository). *)
(* Dates are numbers and Forever stands for an end that is not given; the   *)
(* manufacturer, the model and the specification of a template are one      *)
(* value.  Reading rows back and the texts of errors are left out.          *)
EXTENDS Integers, FiniteSets, Sequences, FiniteSetsExt, Functions, Walks

CONSTANTS Forever,     \* the end of a period that has none
          MaxCapacity, \* the largest capacity that can be represented
          MaxModules, MaxModulePower, MaxStringPower,
          Catalog,     \* the entries of the bundled catalog, by id
          Revision     \* the revision of the bundled catalog

Refused == [inverters |-> {}, total |-> -1, ready |-> -1, reasons |-> {}]

-----------------------------------------------------------------------------
(* Effective dates.                                                         *)

ValidPeriod(p) == p.from < p.to
InPeriodThrough(p, date) == p.from <= date /\ date <= p.to
InPeriod(p, date) == p.from <= date /\ date < p.to

(* Adding up stops at the first sum that cannot be represented; powers are   *)
(* positive, so the last sum tells.                                         *)
Total(strings) == LET power(s) == s.power IN MapThenSumSet(power, strings)

IncompleteReasons(system, string, date) ==
  (IF system.located THEN {} ELSE {"location"})
    \cup string.missing
    \cup (IF InPeriod(string.settings, date) THEN {} ELSE {"settings"})

InEffect(versions, date) == {v \in versions : InPeriod(v, date)}
Ambiguous(versions) == \E v, w \in versions : v # w /\ v.id = w.id

(* What is in effect on the date: nothing when two versions of one thing are.*)
EffectiveCapacity(system, date) ==
  LET inverters == InEffect(system.inverters, date)
      strings(i) == InEffect(i.strings, date)
      all == UNION {strings(i) : i \in inverters}
      ready == {s \in all : IncompleteReasons(system, s, date) = {}}
      reasons == UNION {IncompleteReasons(system, s, date) : s \in all}
      total == Total(all)
  IN IF \/ Ambiguous(inverters)
        \/ \E i \in inverters : Ambiguous(strings(i)) \/ \E s \in strings(i) : s.power <= 0
        \/ total > MaxCapacity
     THEN Refused
     ELSE [inverters |-> {i.id : i \in inverters}, total |-> total, ready |-> Total(ready),
           reasons |-> reasons \cup (IF total = 0 THEN {"no equipment"} ELSE {})]

Completeness(c) == IF c.reasons = {} THEN "complete" ELSE IF c.ready > 0 THEN "partial" ELSE "unavailable"

Ends(versions) == ({v.from : v \in versions} \cup {v.to : v \in versions}) \ {Forever}

Boundaries(system) ==
  LET strings == UNION {i.strings : i \in system.inverters}
  IN Ends(system.inverters) \cup Ends(strings)
       \cup Ends({s.settings : s \in {t \in strings : t.settings.from # Forever}})

NextBoundary(system, date) ==
  LET later == {b \in Boundaries(system) : b > date} IN IF later = {} THEN Forever ELSE Min(later)

(* What is in effect on a date stays so until the next boundary the snapshot*)
(* names: whoever stores a capacity or a forecast up to there need not look *)
(* at the days between (effective_capacity_snapshot).                       *)
SnapshotHolds(system, dates) ==
  \A d, e \in dates : d <= e /\ e < NextBoundary(system, d)
    => EffectiveCapacity(system, e) = EffectiveCapacity(system, d)

(* The completeness says how much of the capacity can be forecast: all,     *)
(* some or none of it.                                                      *)
CompletenessIsCapacity(system, dates) ==
  \A d \in dates : LET c == EffectiveCapacity(system, d) IN c # Refused =>
    /\ c.ready <= c.total
    /\ Completeness(c) = "complete" <=> c.ready = c.total /\ c.total > 0
    /\ Completeness(c) = "unavailable" => c.ready = 0

-----------------------------------------------------------------------------
(* The catalog.  A snapshot is [entry, revision, make, power]; one typed in *)
(* by hand has the entry NoEntry.                                           *)

NoEntry == "none"
Blank == "blank"
NoSnapshot == [entry |-> NoEntry, revision |-> 0, make |-> NoEntry, power |-> 0]

(* A document is taken when its entries are in order, under distinct ids,   *)
(* all of the document's revision; it is then served in the order of ids.   *)
ValidDocument(entries, revision) ==
  /\ \A n \in 1..Len(entries) : entries[n].revision = revision /\ entries[n].make # Blank
  /\ \A n \in 1..Len(entries) - 1 : entries[n].id < entries[n + 1].id
Served(entries) == {entries[n] : n \in DOMAIN entries}
Found(entries, make) == {e \in Served(entries) : make \in {Blank, e.make}}
InOrder(found) ==
  LET ranks == 1..Cardinality(found)
  IN CHOOSE s \in [ranks -> found] : \A j, k \in ranks : j < k => s[j].id < s[k].id
Matches(entries, make) == InOrder(Found(entries, make))

Prefilled(entry) ==
  [entry |-> entry, revision |-> Revision, make |-> Catalog[entry].make, power |-> Catalog[entry].power]

Confirms(snapshot) ==
  /\ snapshot.make # Blank
  /\ snapshot.entry # NoEntry => snapshot.entry \in DOMAIN Catalog /\ snapshot.revision = Revision

Provenance(snapshot) ==
  IF snapshot.entry = NoEntry THEN "manual"
  ELSE IF Catalog[snapshot.entry] = [make |-> snapshot.make, power |-> snapshot.power] THEN "copied" ELSE "customized"

(* The composition of a string: modules of at most so many watts each.      *)
Composes(count, power) ==
  /\ count \in 1..MaxModules /\ power \in 1..MaxModulePower
  /\ count * power <= MaxStringPower

(* One string of an edit, and the record it becomes: a snapshot, when there *)
(* is one, has to agree with the power the caller gives.                    *)
Builds(string) ==
  /\ string.snapshot # NoSnapshot =>
       /\ Confirms(string.snapshot)
       /\ Composes(string.count, string.snapshot.power)
       /\ string.power = string.snapshot.power
  /\ string.count * string.power <= MaxCapacity
  /\ string.claims \in {"", Provenance(string.snapshot)}

Build(string) ==
  [count |-> string.count, module |-> string.power, rated |-> string.count * string.power,
   identity |-> string.identity, entry |-> string.snapshot.entry, provenance |-> Provenance(string.snapshot)]

(* What the handler, and what the repository, demand of a string.           *)
ValidInput(string) == string.name # Blank /\ string.count > 0 /\ string.power > 0 /\ string.tilt <= 90 /\ ValidPeriod(string)

ValidProvenance(provenance, entry) == (provenance = "manual") = (entry = NoEntry)

ValidRecord(record) ==
  /\ record.count > 0 /\ record.rated > 0 /\ record.module > 0
  /\ record.rated = record.count * record.module
  /\ record.identity # Blank
  /\ ValidProvenance(record.provenance, record.entry)

(* What the handler lets through the repository accepts, but for a string   *)
(* whose panel has no name: the handler does not ask for one.               *)
RecordsAreAccepted(string) ==
  ValidInput(string) /\ Builds(string) => (ValidRecord(Build(string)) <=> string.identity # Blank)

(* A template taken over unchanged is confirmed as a copy, whichever it is. *)
PrefilledIsACopy == \A e \in DOMAIN Catalog : Confirms(Prefilled(e)) /\ Provenance(Prefilled(e)) = "copied"

-----------------------------------------------------------------------------
(* A page of the catalog: of so many entries at most.                       *)

Clamped(limit, most) == IF limit < 1 THEN 1 ELSE IF limit > most THEN most ELSE limit

Page(matches, offset, limit, most) ==
  LET size == Clamped(limit, most)
      last == offset + size
  IN [limit |-> size, items |-> SubSeq(matches, offset + 1, IF last > Len(matches) THEN Len(matches) ELSE last)]

(* Whoever goes on by the limit they were answered sees every match of a    *)
(* document that was taken, once and in the order of the ids.               *)
PagesCover(entries, make, limit, most) ==
  LET matches == Matches(entries, make)
      size == Page(matches, 0, limit, most).limit
      pages == [k \in 1..Len(entries) + 1 |-> Page(matches, (k - 1) * size, limit, most).items]
      seen == Joined(pages)
  IN ValidDocument(entries, Revision) =>
       /\ \A e \in Found(entries, make) : \E n \in DOMAIN seen : seen[n] = e
       /\ \A n \in DOMAIN seen : seen[n] \in Found(entries, make)
       /\ \A n \in 1..Len(seen) - 1 : seen[n].id < seen[n + 1].id
=============================================================================
