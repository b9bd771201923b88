---------------------------- MODULE RuleEvaluation ----------------------------
(***************************************************************************)
(* What SchedulerDecisionService makes of one condition of an automation   *)
(* rule and of the outcomes in a group.  An outcome is three-valued: a     *)
(* condition whose data is missing, stale or unreadable is "unknown".      *)
(*                                                                         *)
(* A provider, a measurement row and a sample row are records, or None.    *)
(* Ages are the whole seconds from measured_at to now_utc, negative for a  *)
(* row from the future.  Power is compared in watts, where the code divides *)
(* by the unit of the condition: the same but for floating point rounding, *)
(* which is left out.                                                      *)
(***************************************************************************)
EXTENDS Integers, Sequences

CONSTANT None  \* Python None, SQL NULL

MetValues == {"met", "unmet", "unknown"}

Sources     == {"provider_primary_power", "provider_battery_soc"}
Comparators == {"gt", "gte", "lt", "lte"}

PowerUnits   == {"W", "kW", "MW"}
Watts(unit)  == IF unit = "W" THEN 1 ELSE IF unit = "kW" THEN 1000 ELSE 1000000

Matches(comparator, x, y) ==
  \/ comparator = "gt"  /\ x > y
  \/ comparator = "gte" /\ x >= y
  \/ comparator = "lt"  /\ x < y
  \/ comparator = "lte" /\ x <= y

OnPower(c) == c.source = "provider_primary_power"

Stale(p, row) == row.age > p.interval

\* The unit a measurement is read in: its own, else the provider's, else that
\* of the condition it is compared with.
UnitOf(c, p, m) ==
  IF m.unit # None THEN m.unit ELSE IF p.unit # None THEN p.unit ELSE c.unit

ProviderGap(p) ==
  IF p = None THEN "POWER_PROVIDER_UNAVAILABLE"
  ELSE IF ~p.enabled THEN "POWER_PROVIDER_UNAVAILABLE"
  ELSE IF p.interval = None THEN "POWER_INTERVAL_MISSING"
  ELSE IF p.interval <= 0 THEN "POWER_INTERVAL_MISSING"
  ELSE None

PowerGap(c, p, m) ==
  IF m = None THEN "POWER_MISSING"
  ELSE IF Stale(p, m) THEN "POWER_STALE"
  ELSE IF m.value = None THEN "POWER_MISSING"
  ELSE IF UnitOf(c, p, m) \notin PowerUnits THEN "POWER_UNIT_UNSUPPORTED"
  ELSE None

SocGap(c, p, s) ==
  IF s = None THEN "BATTERY_SOC_MISSING"
  ELSE IF Stale(p, s) THEN "BATTERY_SOC_STALE"
  ELSE IF s.unit \notin {None, c.unit} THEN "BATTERY_SOC_UNIT_UNSUPPORTED"
  ELSE None

\* Mutant: the threshold is compared in its own unit.
ThresholdUnscaled(c) == c.value

Threshold(c) == IF OnPower(c) THEN c.value * Watts(c.unit) ELSE c.value

Gaps ==
  {"POWER_PROVIDER_UNAVAILABLE", "POWER_INTERVAL_MISSING", "POWER_MISSING",
   "POWER_STALE", "POWER_UNIT_UNSUPPORTED", "BATTERY_SOC_MISSING",
   "BATTERY_SOC_STALE", "BATTERY_SOC_UNIT_UNSUPPORTED"}

ASSUME NoneAssumption == None \notin Gaps /\ None \notin PowerUnits

\* Why a condition cannot be evaluated, or None when it can.
Gap(c, p, m, s) ==
  IF ProviderGap(p) # None THEN ProviderGap(p)
  ELSE IF OnPower(c) THEN PowerGap(c, p, m) ELSE SocGap(c, p, s)

Reading(c, p, m, s) ==
  IF OnPower(c) THEN m.value * Watts(UnitOf(c, p, m)) ELSE s.value

EvaluateCondition(c, p, m, s) ==
  IF Gap(c, p, m, s) # None
  THEN [met |-> "unknown", reason |-> Gap(c, p, m, s), value |-> None]
  ELSE IF Matches(c.comparator, Reading(c, p, m, s), Threshold(c))
  THEN [met |-> "met", reason |-> "SCHEDULER_MATCH", value |-> Reading(c, p, m, s)]
  ELSE [met |-> "unmet", reason |-> "THRESHOLD_NOT_MET", value |-> Reading(c, p, m, s)]

-----------------------------------------------------------------------------
Has(es, met) == \E i \in DOMAIN es : es[i].met = met

First(es, met) ==
  es[CHOOSE i \in DOMAIN es :
       es[i].met = met /\ \A j \in DOMAIN es : es[j].met = met => i <= j]

\* Mutants: an ALL group forgets its unknown conditions; it prefers them to the
\* unmet ones.
CombineBlind(operator, es) ==
  LET strong == IF operator = "ALL" THEN "unmet" ELSE "met"
  IN  IF Has(es, strong) THEN First(es, strong)
      ELSE IF operator = "ANY" /\ Has(es, "unmet") THEN First(es, "unmet")
      ELSE IF Has(es, "met") THEN First(es, "met")
      ELSE es[1]
CombineUnknownFirst(operator, es) ==
  LET strong == IF operator = "ALL" THEN "unknown" ELSE "met"
  IN  IF Has(es, strong) THEN First(es, strong)
      ELSE IF Has(es, "unmet") THEN First(es, "unmet")
      ELSE es[1]

\* The outcome that decides a group: in an ALL group the first unmet one, else
\* the first unknown; in an ANY group the first met one, else the first unmet.
Combine(operator, es) ==
  LET strong == IF operator = "ALL" THEN "unmet" ELSE "met"
      weak   == IF operator = "ALL" THEN "unknown" ELSE "unmet"
  IN  IF Has(es, strong) THEN First(es, strong)
      ELSE IF Has(es, weak) THEN First(es, weak)
      ELSE es[1]

\* What decide makes of the outcome of the whole rule.
Decision(e) ==
  [kind   |-> IF e.met = "met" THEN "ALLOW_ON"
              ELSE IF e.met = "unmet" THEN "SKIP_THRESHOLD_NOT_MET"
              ELSE "SKIP_NO_POWER_DATA",
   reason |-> IF e.met = "met" THEN "SCHEDULER_MATCH" ELSE e.reason,
   value  |-> e.value]

-----------------------------------------------------------------------------
Condition(source, comparator, value, unit) ==
  [source |-> source, comparator |-> comparator, value |-> value, unit |-> unit]

Group(operator, items) == [operator |-> operator, items |-> items]

IsCondition(item) == "source" \in DOMAIN item

\* A threshold column pair as a rule, and the rules that are such a pair.
LegacyRule(value, unit) ==
  Group("ANY", <<Condition("provider_primary_power", "gte", value, unit)>>)

\* Mutant: any comparator.
IsLegacyAnyComparator(rule) ==
  /\ rule # None
  /\ rule.operator = "ANY"
  /\ Len(rule.items) = 1
  /\ IsCondition(rule.items[1])
  /\ OnPower(rule.items[1])

IsLegacy(rule) ==
  /\ rule # None
  /\ rule.operator = "ANY"
  /\ Len(rule.items) = 1
  /\ IsCondition(rule.items[1])
  /\ OnPower(rule.items[1])
  /\ rule.items[1].comparator = "gte"
=============================================================================
