------------------------- MODULE MCSchedulerDecision -------------------------
(***************************************************************************)
(* An instance of SchedulerDecision for TLC: three conditions, alone, in   *)
(* groups and in nested groups.  Four quanta make the last digit of the     *)
(* threshold column: 1 kW is stored as 0, 1499 W as 1500, 4 kW as it is.    *)
(***************************************************************************)
EXTENDS SchedulerDecision

AtLeastOneKw == Condition("provider_primary_power", "gte", 1, "kW")
Below1500W   == Condition("provider_primary_power", "lt", 1500, "W")
ChargeAbove50 == Condition("provider_battery_soc", "gt", 50, "%")

SomeConditions == {AtLeastOneKw, Below1500W, ChargeAbove50}
Operators == {"ALL", "ANY"}

Flat ==
  {Group(op, <<c>>) : op \in Operators, c \in SomeConditions}
    \cup {Group(op, <<c, d>>) : op \in Operators, c \in SomeConditions, d \in SomeConditions}

Nested ==
  {Group("ALL", <<c, Group("ANY", <<AtLeastOneKw, ChargeAbove50>>)>>) : c \in SomeConditions}
    \cup {Group("ANY", <<Group("ALL", <<ChargeAbove50, Below1500W>>), c>>) : c \in SomeConditions}

Groups == Flat \cup Nested \cup
  {LegacyRule(1500, "W"), LegacyRule(1499, "W"), LegacyRule(4, "kW"),
   LegacyRule(2000, "W"), Group("ALL", <<ChargeAbove50>>)}

Inner == {Group("ANY", <<AtLeastOneKw, ChargeAbove50>>),
          Group("ALL", <<ChargeAbove50, Below1500W>>)}

RuleItems ==
  SomeConditions \cup Inner \cup Groups
    \cup {Condition("provider_primary_power", "gte", v, "W") : v \in {1499, 1500, 2000}}
    \cup {Condition("provider_primary_power", "gte", 4, "kW")}

Nesting ==
  [item \in RuleItems |->
     IF IsCondition(item) THEN 0
     ELSE IF \A i \in DOMAIN item.items : IsCondition(item.items[i]) THEN 1 ELSE 2]

Payload(rule, use, value, unit) ==
  [rule |-> rule, use_power_threshold |-> use, value |-> value, unit |-> unit]

AnyAtLeastOneKw == LegacyRule(1, "kW")

SlotPayloads ==
  {Payload(r, FALSE, None, None) : r \in Flat \cup Nested \cup {None}}
    \cup {Payload(r, use, 1500, "W") : r \in {None, Group("ALL", <<ChargeAbove50>>)},
                                        use \in BOOLEAN}
    \cup {Payload(None, TRUE, 1499, "W"), Payload(None, TRUE, 1500, None),
          Payload(None, TRUE, 2000, "W"), Payload(AnyAtLeastOneKw, TRUE, 0, "kW")}

ThresholdOnly == {Payload(None, TRUE, 4, "kW"), Payload(None, TRUE, 1500, None)}

Attached ==
  {[enabled |-> TRUE, interval |-> i, unit |-> u] : i \in {None, 1}, u \in {None, "kW"}}
    \cup {[enabled |-> TRUE, interval |-> 0, unit |-> "kW"]}

UserUnits == {"W", "V"}

Row(age, value, unit, soc, socUnit) ==
  [age |-> age, value |-> value, unit |-> unit, soc |-> soc, socUnit |-> socUnit]

Arrivals ==
  UNION {{Row(a, 1500, "W", 50, "%"), Row(a, 1, None, 51, None),
          Row(a, None, "W", 51, "%"),
          Row(a, 2, "Wh", 60, "Ah")} : a \in -1..1}

Levels == {0, 1000, 1498, 1499, 1500, 4000, 1000000}
=============================================================================
