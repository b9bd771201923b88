--------------------------- MODULE SchedulerDecision ---------------------------
(***************************************************************************)
(* The decision whether a slot that is due switches its device on: the     *)
(* rows it reads (slot, provider, measurements) as other actors change     *)
(* them and as time passes, and SchedulerDecisionService.decide on them.   *)
(* The numbers of rules are whole multiples of a quantum, ColumnUnit of     *)
(* which make the last digit the threshold column keeps.                   *)
(***************************************************************************)
EXTENDS RuleEvaluation, FiniteSets

CONSTANTS
  Items,        \* the conditions and groups of the rules in use
  Depth,        \* how deep each of them nests
  Payloads,     \* slots as users submit them
  OldSlots,     \* slots stored before rules existed: threshold columns only
  Providers,    \* states in which a provider is created or attached
  Units,        \* units a user gives to a provider
  NewRows,      \* measurements as they arrive, some late, some from the future
  PowerLevels,  \* watts that tell the thresholds in use apart
  SocLevels,    \* percentages that tell them apart
  ColumnUnit,   \* the last digit of the threshold column, in quanta
  ColumnLimit,  \* the first number too large for the column
  MaxAge,       \* bound: ages at and above it are one
  MaxRows       \* bound: measurement rows

VARIABLES
  slot,         \* the columns of a row of scheduler_slots
  provider,     \* the microcontroller's power provider
  rows          \* its provider_measurements, each with its battery sample

vars == <<slot, provider, rows>>

-----------------------------------------------------------------------------
ASSUME ColumnAssumption == ColumnUnit \in Nat \ {0} /\ ColumnLimit \in Nat

\* Numeric(12, 4): what is left of a number in the column, rounded to its last
\* digit, halves up.  The JSON column of the rule keeps the number itself.
Column(value) == ColumnUnit * ((2 * value + ColumnUnit) \div (2 * ColumnUnit))

\* SchedulerSlotIn: the fields and normalize_and_validate, which makes the
\* columns a payload is stored as.
ValidPayload(s) ==
  /\ s.value # None => s.value > 0
  /\ s.use_power_threshold => s.value # None /\ s.unit \in PowerUnits

PayloadRule(s) ==
  IF s.rule # None THEN s.rule
  ELSE IF s.use_power_threshold THEN LegacyRule(s.value, s.unit)
  ELSE None

StoredSlot(s) ==
  LET rule == PayloadRule(s) IN
  [rule |-> rule,
   use_power_threshold |-> IsLegacy(rule),
   value |-> IF IsLegacy(rule) THEN Column(rule.items[1].value) ELSE None,
   unit  |-> IF IsLegacy(rule) THEN rule.items[1].unit ELSE None]

\* A number the column cannot hold fails the statement, and with it the update.
Storable(s) ==
  ValidPayload(s) /\ (StoredSlot(s).value # None => StoredSlot(s).value < ColumnLimit)

\* The rule decide works with.
RuleOf(s) ==
  IF s.rule # None THEN s.rule
  ELSE IF s.use_power_threshold /\ s.value # None
  THEN LegacyRule(s.value, IF s.unit = None THEN "W" ELSE s.unit)
  ELSE None

-----------------------------------------------------------------------------
(* What the schemas make of the data before it is stored.                   *)

\* AutomationRuleCondition.validate_for_source
IsStoredCondition(item) ==
  /\ item = Condition(item.source, item.comparator, item.value, item.unit)
  /\ item.source \in Sources /\ item.comparator \in Comparators /\ item.value \in Nat
  /\ IF OnPower(item) THEN item.unit \in PowerUnits ELSE item.unit = "%"

\* AutomationRuleGroup.validate_items
IsStoredGroup(item) ==
  /\ item = Group(item.operator, item.items)
  /\ item.operator \in {"ALL", "ANY"}
  /\ item.items \in Seq(Items) /\ item.items # <<>>

\* JSON is finite and no group contains itself.
ASSUME ItemsAssumption ==
  /\ IsFiniteSet(Items) /\ None \notin Items
  /\ Depth \in [Items -> Nat]
  /\ \A item \in Items :
       IF IsCondition(item) THEN IsStoredCondition(item)
       ELSE /\ IsStoredGroup(item)
            /\ \A i \in DOMAIN item.items : Depth[item.items[i]] < Depth[item]

IsRule(rule) == rule # None => rule \in Items /\ ~IsCondition(rule)

\* Before rules were stored, slots had columns only.
ASSUME SlotsAssumption ==
  /\ \A s \in Payloads : ValidPayload(s) => IsRule(PayloadRule(s))
  /\ \A s \in OldSlots :
       /\ s = [rule |-> None, use_power_threshold |-> s.use_power_threshold,
               value |-> s.value, unit |-> s.unit]
       /\ s.value # None => s.value \in Nat /\ s.value = Column(s.value)
       /\ IsRule(RuleOf(s))

\* NULL is none of the rules thresholds stand for.
ASSUME NoRuleAssumption ==
  /\ \A c \in Items : IsCondition(c) => LegacyRule(Column(c.value), c.unit) # None
  /\ \A s \in OldSlots : LegacyRule(s.value, s.unit) # None

\* The column is nullable and an integer.  At MaxAge every row is stale.
IsProvider(p) ==
  /\ p = [enabled |-> p.enabled, interval |-> p.interval, unit |-> p.unit]
  /\ p.enabled \in BOOLEAN
  /\ p.interval # None => p.interval \in Int /\ p.interval < MaxAge

IsRow(r) ==
  /\ r = [age |-> r.age, value |-> r.value, unit |-> r.unit, soc |-> r.soc,
          socUnit |-> r.socUnit]
  /\ r.age \in Int
  /\ r.value # None => r.value \in Int
  /\ r.soc # None => r.soc \in Int

\* The sample of the state of charge that comes with a measurement.
Sample(r) == [age |-> r.age, value |-> r.soc, unit |-> r.socUnit]

\* The rows at every age they can have.
RowsOverTime ==
  UNION {{[r EXCEPT !.age = age] : age \in r.age .. MaxAge} : r \in NewRows}

ASSUME RowsAssumption ==
  /\ MaxAge \in Int
  /\ \A p \in Providers : IsProvider(p)
  /\ \A r \in NewRows : IsRow(r) /\ r.age <= MaxAge
  /\ \A r \in RowsOverTime : r # None /\ Sample(r) # None

\* Without data the power and the charge may be this or that.
ASSUME LevelsAssumption ==
  \A levels \in {PowerLevels, SocLevels} :
    IsFiniteSet(levels) /\ \E x, y \in levels : x # y

-----------------------------------------------------------------------------
\* Mutants: rows from the future are passed over; ORDER BY measured_at ASC.
NewestPast(S) ==
  LET P == {r \in S : r.age >= 0} IN
  IF P = {} THEN {None} ELSE {r \in P : \A q \in P : r.age <= q.age}
Oldest(S) ==
  IF S = {} THEN {None} ELSE {r \in S : \A q \in S : r.age >= q.age}

\* The rows get_latest_measurement may return; rows of one instant tie.
Newest(S) ==
  IF S = {} THEN {None} ELSE {r \in S : \A q \in S : r.age <= q.age}

LatestMeasurements == Newest(rows)
LatestSamples ==
  Newest({Sample(r) : r \in {q \in rows : q.soc # None}})

\* The outcomes of the items of a group, given those of all items.
OutcomesOf(item, outcome) == [i \in DOMAIN item.items |-> outcome[item.items[i]]]

\* _evaluate_rule_item calls itself for the items of a group.
Evaluation(p, m, s) ==
  LET outcome[item \in Items] ==
        IF IsCondition(item) THEN EvaluateCondition(item, p, m, s)
        ELSE Combine(item.operator, OutcomesOf(item, outcome))
  IN  outcome

EvaluateItem(item, p, m, s) == Evaluation(p, m, s)[item]

Unguarded == [kind |-> "ALLOW_ON", reason |-> "SCHEDULER_MATCH", value |-> None]

Decide(m, s) ==
  IF RuleOf(slot) = None THEN Unguarded
  ELSE Decision(EvaluateItem(RuleOf(slot), provider, m, s))

Evidence == LatestMeasurements \X LatestSamples

Decisions == {Decide(e[1], e[2]) : e \in Evidence}

-----------------------------------------------------------------------------
Init ==
  /\ slot \in OldSlots \cup {StoredSlot(s) : s \in {q \in Payloads : Storable(q)}}
  /\ provider = None
  /\ rows = {}

\* update_scheduler replaces the slots by new rows.
ReplaceSlots(s) ==
  /\ Storable(s)
  /\ slot' = StoredSlot(s)
  /\ UNCHANGED <<provider, rows>>

\* set_power_provider: another provider of the user, or none.  Only an enabled
\* one can be attached.  rows are those of the provider attached; what it has
\* measured before comes with SaveMeasurement, which takes rows of any age.
\* The check of battery rules against the provider's capabilities is left out:
\* it forbids some of the steps allowed here.
SetPowerProvider(p) ==
  /\ p # provider
  /\ p # None => p.enabled
  /\ provider' = p
  /\ rows' = {}
  /\ UNCHANGED slot

\* set_enabled of the attached provider.
SetEnabled(enabled) ==
  /\ provider # None
  /\ provider' = [provider EXCEPT !.enabled = enabled]
  /\ UNCHANGED <<slot, rows>>

\* update of the attached provider: rows without a unit change their meaning.
UpdateUnit(unit) ==
  /\ provider # None
  /\ provider' = [provider EXCEPT !.unit = unit]
  /\ UNCHANGED <<slot, rows>>

SaveMeasurement(r) ==
  /\ provider # None
  /\ Cardinality(rows) < MaxRows
  /\ rows' = rows \cup {r}
  /\ UNCHANGED <<slot, provider>>

Older(r) == [r EXCEPT !.age = IF r.age < MaxAge THEN r.age + 1 ELSE MaxAge]

Tick ==
  /\ rows' = {Older(r) : r \in rows}
  /\ UNCHANGED <<slot, provider>>

Next ==
  \/ \E s \in Payloads : ReplaceSlots(s)
  \/ \E p \in Providers \cup {None} : SetPowerProvider(p)
  \/ \E enabled \in BOOLEAN : SetEnabled(enabled)
  \/ \E unit \in Units : UpdateUnit(unit)
  \/ \E r \in NewRows : SaveMeasurement(r)
  \/ Tick

Spec == Init /\ [][Next]_vars

-----------------------------------------------------------------------------
\* The items that hold when just the conditions of C do.
Holding(C) ==
  LET holds[item \in Items] ==
        IF IsCondition(item) THEN item \in C
        ELSE IF item.operator = "ALL"
        THEN \A i \in DOMAIN item.items : holds[item.items[i]]
        ELSE \E i \in DOMAIN item.items : holds[item.items[i]]
  IN  holds

\* What the rule says of the world, the power in watts and the state of charge.
Wanted(c) == IF c.unit = "%" THEN c.value ELSE c.value * Watts(c.unit)

HoldsIn(item, power, soc) ==
  Holding({c \in Items : IsCondition(c) /\
             Matches(c.comparator, IF OnPower(c) THEN power ELSE soc, Wanted(c))})[item]

Conditions[item \in Items] ==
  IF IsCondition(item) THEN {item}
  ELSE UNION {Conditions[item.items[i]] : i \in DOMAIN item.items}

Fresh(row) ==
  /\ provider # None /\ row # None
  /\ provider.enabled /\ provider.interval # None
  /\ provider.interval > 0 /\ row.age <= provider.interval

\* Without any unit a number says nothing about power.
UnitKnown(m) == m # None => m.unit # None \/ provider.unit # None

PowerUnit(m) == IF m.unit # None THEN m.unit ELSE provider.unit

\* What the newest rows tell: the values the power and the charge can have.
PossiblePower(m) ==
  IF Fresh(m) /\ m.value # None /\ PowerUnit(m) \in PowerUnits
  THEN {m.value * Watts(PowerUnit(m))} ELSE PowerLevels
PossibleSoc(s) ==
  IF Fresh(s) /\ s.unit \in {None, "%"} THEN {s.value} ELSE SocLevels

\* The values a condition may read.
Reads(c, m, s) == IF OnPower(c) THEN PossiblePower(m) ELSE PossibleSoc(s)

\* The rule when every condition without data counts as `guess`.
HoldsIfUnknown(item, m, s, guess) ==
  Holding({c \in Items : IsCondition(c) /\
             IF Cardinality(Reads(c, m, s)) = 1
             THEN \A x \in Reads(c, m, s) : Matches(c.comparator, x, Wanted(c))
             ELSE guess})[item]

\* A device with a rule is switched on only on evidence: whatever the power and
\* the charge may be, given the newest fresh measurements of an enabled
\* provider, the rule holds.  Nothing stale, missing or in an unknown unit, and
\* no nesting of groups, may stand in for data.
OnNeedsEvidence ==
  \A m \in LatestMeasurements, s \in LatestSamples :
    UnitKnown(m) /\ RuleOf(slot) # None /\ Decide(m, s).kind = "ALLOW_ON" =>
      \A power \in PossiblePower(m), soc \in PossibleSoc(s) :
        HoldsIn(RuleOf(slot), power, soc)

\* With data for every source of the rule the decision is the truth of the rule.
CompleteDataDecides ==
  \A m \in LatestMeasurements, s \in LatestSamples :
    LET rule    == RuleOf(slot)
        sources == {c.source : c \in Conditions[rule]}
        power   == PossiblePower(m)
        soc     == PossibleSoc(s)
    IN  (/\ rule # None /\ UnitKnown(m)
         /\ "provider_primary_power" \in sources => Cardinality(power) = 1
         /\ "provider_battery_soc" \in sources => Cardinality(soc) = 1)
        => Decide(m, s).kind =
             IF \E w \in power, c \in soc : HoldsIn(rule, w, c)
             THEN "ALLOW_ON" ELSE "SKIP_THRESHOLD_NOT_MET"

\* What a skip is put down to (the reason and the measured value go to the
\* audit log) is true: THRESHOLD_NOT_MET comes with the fresh reading of a
\* condition that fails on it; SKIP_NO_POWER_DATA comes only when the conditions
\* without data would decide, the rule being true if they held and false if not.
SkipIsExplained ==
  \A m \in LatestMeasurements, s \in LatestSamples :
    LET rule == RuleOf(slot)
        d    == Decide(m, s)
    IN  UnitKnown(m) =>
        /\ d.kind = "SKIP_THRESHOLD_NOT_MET" =>
             \E c \in Conditions[rule] :
               Reads(c, m, s) = {d.value} /\ ~Matches(c.comparator, d.value, Wanted(c))
        /\ d.kind = "SKIP_NO_POWER_DATA" =>
             /\ d.reason \notin {"THRESHOLD_NOT_MET", "SCHEDULER_MATCH"}
             /\ HoldsIfUnknown(rule, m, s, TRUE)
             /\ ~HoldsIfUnknown(rule, m, s, FALSE)

\* What a client that knows the threshold columns only sends back.
ColumnsOnly == [slot EXCEPT !.rule = None]

\* The threshold columns of a stored slot follow its rule: they are set exactly
\* when the rule is a plain threshold and state it, in its unit and within half
\* of the last digit the column keeps.  The schema still takes slots without a
\* rule: columns that come back so are stored as they were, and the threshold
\* moves no further.
ColumnsFollowRule ==
  /\ slot.rule # None =>
       IF slot.use_power_threshold
       THEN LET wanted == slot.rule.items[1].value IN
            /\ slot.rule = LegacyRule(wanted, slot.unit)
            /\ 2 * (slot.value - wanted) <= ColumnUnit
            /\ 2 * (wanted - slot.value) <= ColumnUnit
       ELSE /\ slot.value = None /\ slot.unit = None
            /\ \A c \in Items : IsCondition(c) => slot.rule # LegacyRule(c.value, c.unit)
  /\ slot.use_power_threshold /\ ValidPayload(ColumnsOnly) =>
       LET again == StoredSlot(ColumnsOnly) IN
       /\ again.use_power_threshold
       /\ again.value = slot.value /\ again.unit = slot.unit

MayAllow == \E d \in Decisions : d.kind = "ALLOW_ON"

\* Time alone, without a new measurement, never switches a device on.
AgeingNeverSwitchesOn == [][Tick => (MayAllow' => MayAllow)]_vars

\* A measurement that arrives late, with newer ones already stored, changes no
\* decision.
LateRowsChangeNothing ==
  [][(\E r \in NewRows :
        /\ SaveMeasurement(r)
        /\ \E q \in rows : q.age < r.age
        /\ r.soc # None => \E q \in rows : q.soc # None /\ q.age < r.age)
     => Decisions' = Decisions]_vars
=============================================================================
