-------------------------- MODULE ProviderTelemetry --------------------------
(***************************************************************************)
(* Measurements of one provider: pollers of the host (external) load it,   *)
(* take the adapter of its settings from the cache, ask the vendor and     *)
(* store what it answers with the samples of its metrics, while users      *)
(* change the provider.  A sample of a metric promotes the provider's      *)
(* capability.  Stored measurements are then summed up as energy.          *)
(*                                                                         *)
(* adapters/goodwe.py is committed with merge conflict markers around two  *)
(* conditions: guarded says which side of them is built.                   *)
(***************************************************************************)
EXTENDS EnergyCalculation, HistoryClock

CONSTANTS
  Pollers,
  KpiAnswers,    \* what Huawei may answer: [item, row], power in either or Absent
  FlowAnswers,   \* what GoodWe may answer: [pv, grid, load, soc], or Absent
  Shapes         \* what users may make of the provider

VARIABLES
  guarded,      \* whether GoodWe metrics need the provider's capability
  vendor,
  polled,       \* the columns a poll reads, Absent once it is deleted
  cache,        \* _ADAPTER_CACHE: what each adapter was created with, by key
  polls,        \* what each poller has in hand, or Absent
  rows,         \* provider_measurements in the order of their ids
  definitions   \* metric keys of provider_metric_definitions

telemetryVars == <<guarded, vendor, polled, cache, polls, rows, definitions>>

Capabilities == {"has_power_meter", "has_energy_storage"}
Sources == {"inverter", "meter"}

\* The stored secrets: readable means that all of them decrypt.
Secrets == {"readable", "unreadable", Absent}

ProviderColumns ==
  [enabled : BOOLEAN, power_source : Sources \cup {Absent}, credentials : Secrets,
   has_power_meter : BOOLEAN, has_energy_storage : BOOLEAN]

ASSUME TelemetryAssumption ==
  /\ Shapes \subseteq ProviderColumns
  /\ \A answer \in KpiAnswers : {answer.item, answer.row} \subseteq Int \cup {Absent}
  /\ \A answer \in FlowAnswers \ {Absent} :
       {answer.pv, answer.grid, answer.soc} \subseteq Int \cup {Absent}

MetricKeys == {"battery_soc", "grid_power"}

CapabilityTag == [battery_soc |-> "has_energy_storage", grid_power |-> "has_power_meter"]

Measurements == [at : Nat, value : Int, metrics : SUBSET MetricKeys]

\* known: the capabilities the session that saves has of the provider; seen: the
\* definitions it has found, once it saves; overlapped: history, whether a user
\* has changed the provider meanwhile.
Polls == [adapter : ProviderColumns, known : [Capabilities -> BOOLEAN] \cup {Absent},
          measurement : Measurements \cup {Absent},
          seen : (SUBSET MetricKeys) \cup {Absent}, overlapped : BOOLEAN]

ASSUME AbsenceAssumption ==
  /\ Absent \notin ProviderColumns \cup Polls \cup Measurements \cup [Capabilities -> BOOLEAN]
  /\ \A keys \in SUBSET MetricKeys : keys # Absent

-----------------------------------------------------------------------------
(* Adapters. *)

\* What create_adapter_for_provider passes on beside the credentials.
Settings(p) == [p EXCEPT !.enabled = TRUE]

\* Mutant: the key leaves the capabilities out.
KeyOfSource(p) == <<p.power_source>>

\* The provider's id and external_id and the vendor do not change.
CacheKey(p) == <<p.power_source, p.has_power_meter, p.has_energy_storage>>

\* VendorAdapterFactory.create: the cached adapter, else a new one.
Adapter(p) == IF CacheKey(p) \in DOMAIN cache THEN cache[CacheKey(p)] ELSE Settings(p)

\* Huawei reads active_power of the dataItemMap, else of the row, whatever the
\* power source; Absent is a ProviderError.
HuaweiPower(answer) == IF answer.item # Absent THEN answer.item ELSE answer.row

\* Export to the grid is positive; a load status besides says nothing.
SignedGridPower(answer) ==
  CASE answer.grid = Absent -> Absent
    [] answer.grid # Absent /\ answer.load = -1 -> answer.grid
    [] answer.grid # Absent /\ answer.load = 1  -> -answer.grid
    [] OTHER -> Absent

GoodWePower(adapter, answer) ==
  IF adapter.power_source = "inverter" THEN answer.pv ELSE SignedGridPower(answer)

GoodWeMetrics(adapter, answer) ==
  {key \in MetricKeys :
     /\ guarded => adapter[CapabilityTag[key]]
     /\ CASE key = "battery_soc" -> answer.soc # Absent
          [] key = "grid_power"  -> SignedGridPower(answer) # Absent}

\* fetch_measurement: what it may return now, an exception left out.
Fetched(adapter) ==
  LET measured(power, metrics) ==
        {[at |-> now, value |-> v, metrics |-> metrics] : v \in {power} \ {Absent}}
  IN  IF vendor = "huawei"
      THEN UNION {measured(HuaweiPower(answer), {}) : answer \in KpiAnswers}
      ELSE UNION {measured(GoodWePower(adapter, answer), GoodWeMetrics(adapter, answer)) :
                    answer \in FlowAnswers \ {Absent}}

-----------------------------------------------------------------------------
(* Steps. *)

TelemetryInit ==
  /\ guarded \in BOOLEAN
  /\ vendor \in {"huawei", "goodwe"}
  /\ vendor = "huawei" => guarded
  /\ polled \in Shapes
  /\ cache = << >>
  /\ polls = [w \in Pollers |-> Absent]
  /\ rows = << >>
  /\ definitions = {}

CapabilitiesOf(p) == [c \in Capabilities |-> p[c]]

\* _resolve_provider_credentials: neither missing nor undecipherable.
HasCredentials(p) == p.credentials = "readable"

\* _resolve_provider_power_source
HasPowerSource(p) == p.power_source # Absent

\* One of get_active_providers, with create_adapter_for_provider; own says
\* whether the session that loads the provider is the one that saves.
StartPoll(w, own) ==
  /\ polls[w] = Absent /\ polled # Absent
  /\ Happens
  /\ polled.enabled
  /\ HasCredentials(polled) /\ HasPowerSource(polled)
  /\ cache' = [key \in DOMAIN cache \cup {CacheKey(polled)} |->
                 IF key = CacheKey(polled) THEN Adapter(polled) ELSE cache[key]]
  /\ polls' = [polls EXCEPT ![w] =
                 [adapter |-> Adapter(polled),
                  known |-> IF own THEN CapabilitiesOf(polled) ELSE Absent,
                  measurement |-> Absent, seen |-> Absent, overlapped |-> FALSE]]
  /\ UNCHANGED <<now, guarded, vendor, polled, rows, definitions>>

Fetch(w) ==
  /\ polls[w] # Absent /\ polls[w].measurement = Absent
  /\ Passes
  /\ \E m \in Fetched(polls[w].adapter) : polls' = [polls EXCEPT ![w].measurement = m]
  /\ UNCHANGED <<happened, guarded, vendor, polled, cache, rows, definitions>>

\* A vendor without a value, a poller that dies, or a save that is refused for a
\* conflict or for a deleted provider: nothing is stored.
AbandonPoll(w) ==
  /\ polls[w] # Absent
  /\ polls' = [polls EXCEPT ![w] = Absent]
  /\ UNCHANGED <<now, happened, guarded, vendor, polled, cache, rows, definitions>>

\* save_measurement until its flushes: _resolve_provider takes the object in
\* hand, which commits leave as loaded, or reads the provider now, and
\* _upsert_metric_definition looks for the definitions.
StartSave(w) ==
  /\ polls[w] # Absent /\ polls[w].measurement # Absent /\ polls[w].seen = Absent
  /\ polled # Absent
  /\ polls' = [polls EXCEPT
       ![w].known = IF @ = Absent THEN CapabilitiesOf(polled) ELSE @,
       ![w].seen = definitions]
  /\ UNCHANGED <<now, happened, guarded, vendor, polled, cache, rows, definitions>>

Promoted(known, metrics) ==
  {c \in Capabilities : ~known[c] /\ \E key \in metrics : CapabilityTag[key] = c}

\* The definitions this poll would insert and another one has: one is allowed
\* for each provider and key.
Conflicts(poll) == (poll.measurement.metrics \ poll.seen) \cap definitions

\* The rest of it and the commit of its caller: the row, its samples, their
\* definitions and the capabilities.  Without the provider it fails.
Save(w) ==
  LET m == polls[w].measurement
      raised == Promoted(polls[w].known, m.metrics)
  IN  /\ polls[w] # Absent /\ polls[w].seen # Absent
      /\ polled # Absent
      /\ Conflicts(polls[w]) = {}
      /\ rows' = Append(rows, m)
      /\ definitions' = definitions \cup m.metrics
      /\ polled' = [c \in DOMAIN polled |-> IF c \in raised THEN TRUE ELSE polled[c]]
      /\ polls' = [polls EXCEPT ![w] = Absent]
      /\ UNCHANGED <<now, happened, guarded, vendor, cache>>

Overlapped == [w \in Pollers |->
  IF polls[w] = Absent THEN Absent ELSE [polls[w] EXCEPT !.overlapped = TRUE]]

\* update_provider, set_enabled: one commit; no update sets a column to NULL, and
\* none changes the credentials.
UpdatePolled(p) ==
  /\ polled # Absent /\ Happens
  /\ p # polled
  /\ p.credentials = polled.credentials
  /\ p.power_source = Absent => polled.power_source = Absent
  /\ polled' = p
  /\ polls' = Overlapped
  /\ UNCHANGED <<now, guarded, vendor, cache, rows, definitions>>

\* Mutant: the definitions stay.
DeleteWithoutCascade ==
  /\ polled # Absent /\ Happens
  /\ polled' = Absent
  /\ polls' = Overlapped
  /\ rows' = << >>
  /\ UNCHANGED <<now, guarded, vendor, cache, definitions>>

\* Measurements, samples and definitions go with the provider.
DeletePolled ==
  /\ polled # Absent /\ Happens
  /\ polled' = Absent
  /\ polls' = Overlapped
  /\ rows' = << >>
  /\ definitions' = {}
  /\ UNCHANGED <<now, guarded, vendor, cache>>

TelemetryNext ==
  \/ \E w \in Pollers : \/ \E own \in BOOLEAN : StartPoll(w, own)
                        \/ Fetch(w)
                        \/ AbandonPoll(w)
                        \/ StartSave(w)
                        \/ Save(w)
  \/ \E p \in Shapes : UpdatePolled(p)
  \/ DeletePolled

-----------------------------------------------------------------------------
(* Queries over what is stored. *)

\* Mutant: in the order they were stored.
ListAsStored(from, to) ==
  LET found == SelectSeq(rows, LAMBDA r : r.at >= from /\ r.at <= to)
  IN  [i \in DOMAIN found |-> [ts |-> found[i].at, value |-> found[i].value]]

\* list_power_samples, as PowerSamples: both borders are in.
ListPowerSamples(from, to) ==
  LET found == ByTime({r \in ToSet(rows) : r.at >= from /\ r.at <= to}, "at")
  IN  [i \in DOMAIN found |-> [ts |-> found[i].at, value |-> found[i].value]]

\* get_last_power_sample_before: a sequence of one sample, or of none.
LastPowerSampleBefore(t) ==
  LET earlier == {r \in ToSet(rows) : r.at < t}
  IN  IF earlier = {} THEN << >>
      ELSE LET found == ByTime(earlier, "at")[Cardinality(earlier)]
           IN  <<[ts |-> found.at, value |-> found.value]>>

\* get_last_measurements and Provider.last_value.
LastMeasurement == CHOOSE r \in ToSet(rows) : \A q \in ToSet(rows) : q.at <= r.at

-----------------------------------------------------------------------------
(* Properties. *)

TelemetryTypeOK ==
  /\ guarded \in BOOLEAN
  /\ vendor \in {"huawei", "goodwe"}
  /\ polled \in ProviderColumns \cup {Absent}
  /\ \A key \in DOMAIN cache : cache[key] \in ProviderColumns
  /\ polls \in [Pollers -> Polls \cup {Absent}]
  /\ rows \in Seq(Measurements)
  /\ definitions = UNION {r.metrics : r \in ToSet(rows)}

\* A capability a user has cleared stays cleared, as far as a poll that began
\* since is concerned: only a user, or a poll that was under way when a user
\* changed the provider, brings it back (_promote_provider_capabilities, and
\* the cache key of create_adapter_for_provider).
ClearedStaysCleared ==
  [][guarded /\ polled # Absent /\ polled' # Absent =>
       \A c \in Capabilities : ~polled[c] /\ polled'[c] =>
         \/ happened' # happened
         \/ \E w \in Pollers : /\ polls[w] # Absent /\ polls'[w] = Absent
                               /\ polls[w].overlapped]_<<now, happened, telemetryVars>>

\* Any window has the samples of one that begins and ends with a sample.
Borders == {r.at : r \in ToSet(rows)}

\* The power a window knows of at tick t: that of the last of its samples until
\* then, when another follows and the cap is not reached.
PowerAt(t, from, to, cap) ==
  LET window == {r \in ToSet(rows) : r.at >= from /\ r.at <= to}
      until  == {r \in window : r.at <= t}
  IN  IF until = {} \/ until = window THEN 0
      ELSE LET last == CHOOSE r \in until : \A q \in until : q.at <= r.at
           IN  IF cap = 0 \/ t < last.at + cap THEN last.value ELSE 0

\* Energy is the integral of the power known at each moment, hour by hour and in
\* all, in whatever order the measurements were stored; and a window cut in two,
\* the second part begun with the last sample before it, has the same intervals
\* and the last measurement is the last sample (integrate_hourly,
\* integrate_intervals, the sample queries, get_last_measurements).
EnergyIsExact ==
  \A from, to \in Borders, cap \in 0 .. Horizon :
    LET samples   == ListPowerSamples(from, to)
        byHour    == IntegrateHourly(samples, cap)
        intervals == IntegrateIntervals(samples, cap)
        power     == [t \in 0 .. NextHour(Horizon) |-> PowerAt(t, from, to, cap)]
        hours     == 0 .. HourOf(Horizon)
    IN  /\ DOMAIN byHour \subseteq hours
        /\ \A h \in hours :
             EnergyOf(byHour, h) = SumOf(power, h * HourTicks, (h + 1) * HourTicks - 1)
        /\ SumOf([h \in hours |-> EnergyOf(byHour, h)], 0, HourOf(Horizon)) =
             SumOf([i \in DOMAIN intervals |-> intervals[i].energy], 1, Len(intervals))
        /\ \A cut \in {t \in Borders : from < t /\ t <= to} :
             LET before == LastPowerSampleBefore(cut)
             IN  intervals =
                   IntegrateIntervals(ListPowerSamples(from, cut - 1), cap)
                   \o IntegrateIntervals(before \o ListPowerSamples(cut, to), cap)
        /\ to = Max(Borders) =>
             Last(samples) = [ts |-> LastMeasurement.at, value |-> LastMeasurement.value]
=============================================================================
