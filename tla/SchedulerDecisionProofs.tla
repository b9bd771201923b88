------------------------ MODULE SchedulerDecisionProofs ------------------------
(***************************************************************************)
(* How the outcomes of conditions combine, for groups of every length and  *)
(* rules of every depth, and what a decision says of the world, for every  *)
(* set of rules, measurements and providers.                               *)
(***************************************************************************)
EXTENDS SchedulerDecision, TLAPS, WellFoundedInduction, FiniteSetTheorems

Reasons   == Gaps \cup {"SCHEDULER_MATCH", "THRESHOLD_NOT_MET"}
Outcomes  == [met : MetValues, reason : Reasons, value : Int \cup {None}]
Operators == {"ALL", "ANY"}

\* A group has a first item, and every item is met, unmet or unknown.
LEMMA GroupIsTyped ==
  ASSUME NEW es \in Seq(Outcomes), es # <<>>
  PROVE  1 \in DOMAIN es /\ \A i \in DOMAIN es : es[i].met \in MetValues
<1>1. 1 \in DOMAIN es
  OBVIOUS
<1>2. \A i \in DOMAIN es : es[i] \in Outcomes
  OBVIOUS
<1>3. \A e \in Outcomes : e.met \in MetValues
  BY DEF Outcomes
<1> QED
  BY <1>1, <1>2, <1>3

LEMMA LeastNumber ==
  ASSUME NEW T, T \subseteq Nat, T # {}
  PROVE  \E i \in T : \A j \in T : i <= j
<1> DEFINE R == OpToRel(<, Nat)
<1>1. R = {ss \in Nat \X Nat : ss[1] < ss[2]} /\ IsWellFoundedOn(R, Nat)
  <2>1. R = {ss \in Nat \X Nat : ss[1] < ss[2]}
    BY DEF OpToRel
  <2>2. IsWellFoundedOn(R, Nat)
    BY NatLessThanWellFounded
  <2> QED
    BY <2>1, <2>2
<1> HIDE DEF R
<1>2. PICK i \in T : \A j \in T : ~ (<<j, i>> \in R)
  BY <1>1, WFMin
<1>3. \A j \in T : i <= j
  <2>1. SUFFICES ASSUME NEW j \in T, j < i PROVE FALSE
    OBVIOUS
  <2>2. <<j, i>> \in Nat \X Nat
    OBVIOUS
  <2>3. <<j, i>>[1] < <<j, i>>[2]
    BY <2>1
  <2>4. <<j, i>> \in R
    BY <1>1, <2>2, <2>3
  <2> QED
    BY <1>2, <2>4
<1> QED
  BY <1>3

\* A group that has an outcome with the given truth has a first one.
LEMMA FirstFound ==
  ASSUME NEW es \in Seq(Outcomes), NEW v, Has(es, v)
  PROVE  \E i \in DOMAIN es : First(es, v) = es[i] /\ es[i].met = v
<1> DEFINE T == {i \in DOMAIN es : es[i].met = v}
<1>1. T \subseteq Nat /\ T # {}
  BY DEF Has
<1>2. PICK i \in T : \A j \in T : i <= j
  BY <1>1, LeastNumber
<1>3. es[i].met = v /\ \A j \in DOMAIN es : es[j].met = v => i <= j
  BY <1>2
<1>4. i \in DOMAIN es
  OBVIOUS
<1> QED
  BY <1>3, <1>4 DEF First

\* A group is decided by one of its items: the reason and the value reported
\* belong to it.
THEOREM DecidingItem ==
  ASSUME NEW es \in Seq(Outcomes), es # <<>>, NEW op \in Operators
  PROVE  \E i \in DOMAIN es : Combine(op, es) = es[i]
<1>1. 1 \in DOMAIN es
  OBVIOUS
<1> QED
  BY <1>1, FirstFound DEF Combine

\* The truth of an ALL group: met when every item is, unmet as soon as one is,
\* whatever data is missing; unknown otherwise.
THEOREM AllGroup ==
  ASSUME NEW es \in Seq(Outcomes), es # <<>>
  PROVE  /\ Combine("ALL", es).met = "met" <=> \A i \in DOMAIN es : es[i].met = "met"
         /\ Combine("ALL", es).met = "unmet" <=> Has(es, "unmet")
<1>1. 1 \in DOMAIN es /\ \A i \in DOMAIN es : es[i].met \in MetValues
  BY GroupIsTyped
<1>2. CASE Has(es, "unmet")
  <2>1. Combine("ALL", es).met = "unmet"
    BY <1>2, FirstFound DEF Combine
  <2> QED
    BY <1>2, <2>1 DEF Has
<1>3. CASE ~Has(es, "unmet") /\ Has(es, "unknown")
  <2>1. Combine("ALL", es).met = "unknown"
    BY <1>3, FirstFound DEF Combine
  <2> QED
    BY <1>3, <2>1 DEF Has
<1>4. CASE ~Has(es, "unmet") /\ ~Has(es, "unknown")
  <2>1. Combine("ALL", es) = es[1]
    BY <1>4 DEF Combine
  <2>2. \A i \in DOMAIN es : es[i].met = "met"
    BY <1>1, <1>4 DEF Has, MetValues
  <2> QED
    BY <1>1, <1>4, <2>1, <2>2
<1> QED
  BY <1>2, <1>3, <1>4

\* The truth of an ANY group: met as soon as one item is; unknown only when
\* every item is.  An unmet item hides the unknown ones.
THEOREM AnyGroup ==
  ASSUME NEW es \in Seq(Outcomes), es # <<>>
  PROVE  /\ Combine("ANY", es).met = "met" <=> Has(es, "met")
         /\ Combine("ANY", es).met = "unknown" <=> \A i \in DOMAIN es : es[i].met = "unknown"
<1>1. 1 \in DOMAIN es /\ \A i \in DOMAIN es : es[i].met \in MetValues
  BY GroupIsTyped
<1>2. CASE Has(es, "met")
  <2>1. Combine("ANY", es).met = "met"
    BY <1>2, FirstFound DEF Combine
  <2> QED
    BY <1>2, <2>1 DEF Has
<1>3. CASE ~Has(es, "met") /\ Has(es, "unmet")
  <2>1. Combine("ANY", es).met = "unmet"
    BY <1>3, FirstFound DEF Combine
  <2> QED
    BY <1>3, <2>1 DEF Has
<1>4. CASE ~Has(es, "met") /\ ~Has(es, "unmet")
  <2>1. Combine("ANY", es) = es[1]
    BY <1>4 DEF Combine
  <2>2. \A i \in DOMAIN es : es[i].met = "unknown"
    BY <1>1, <1>4 DEF Has, MetValues
  <2> QED
    BY <1>1, <1>4, <2>1, <2>2
<1> QED
  BY <1>2, <1>3, <1>4

\* Losing data never admits: when some outcomes of a group become unknown and
\* the others stay, the group is met only if it was met before.
THEOREM LossNeverAdmits ==
  ASSUME NEW es \in Seq(Outcomes), NEW fs \in Seq(Outcomes), es # <<>>,
         DOMAIN fs = DOMAIN es,
         \A i \in DOMAIN es : fs[i].met \in {es[i].met, "unknown"},
         NEW op \in Operators,
         Combine(op, fs).met = "met"
  PROVE  Combine(op, es).met = "met"
<1>1. fs # <<>>
  OBVIOUS
<1>2. CASE op = "ALL"
  <2>1. \A i \in DOMAIN fs : fs[i].met = "met"
    BY <1>1, <1>2, AllGroup
  <2>2. \A i \in DOMAIN es : es[i].met = "met"
    BY <2>1
  <2> QED
    BY <1>2, <2>2, AllGroup
<1>3. CASE op = "ANY"
  <2>1. Has(fs, "met")
    BY <1>1, <1>3, AnyGroup
  <2>2. Has(es, "met")
    BY <2>1 DEF Has
  <2> QED
    BY <1>3, <2>2, AnyGroup
<1> QED
  BY <1>2, <1>3 DEF Operators

\* A condition is evaluated only on data: with an enabled provider, and with a
\* row that is no older than the provider's interval and has a value in a unit
\* that can be compared.
THEOREM EvaluatedOnData ==
  ASSUME NEW c, NEW p, NEW m, NEW s,
         EvaluateCondition(c, p, m, s).met # "unknown"
  PROVE  /\ p # None /\ p.enabled /\ p.interval # None
         /\ OnPower(c) => /\ m # None /\ ~Stale(p, m) /\ m.value # None
                          /\ UnitOf(c, p, m) \in PowerUnits
         /\ ~OnPower(c) => s # None /\ ~Stale(p, s) /\ s.unit \in {None, c.unit}
<1>1. Gap(c, p, m, s) = None
  BY DEF EvaluateCondition
<1>2. ProviderGap(p) = None
  BY <1>1 DEF Gap
<1>3. p # None /\ p.enabled /\ p.interval # None
  BY <1>2, NoneAssumption DEF ProviderGap, Gaps
<1>4. ASSUME OnPower(c)
      PROVE  /\ m # None /\ ~Stale(p, m) /\ m.value # None
             /\ UnitOf(c, p, m) \in PowerUnits
  <2>1. PowerGap(c, p, m) = None
    BY <1>1, <1>2, <1>4 DEF Gap
  <2> QED
    BY <2>1, NoneAssumption DEF PowerGap, Gaps
<1>5. ASSUME ~OnPower(c)
      PROVE  s # None /\ ~Stale(p, s) /\ s.unit \in {None, c.unit}
  <2>1. SocGap(c, p, s) = None
    BY <1>1, <1>2, <1>5 DEF Gap
  <2> QED
    BY <2>1, NoneAssumption DEF SocGap, Gaps
<1> QED
  BY <1>3, <1>4, <1>5

-----------------------------------------------------------------------------
(* Rules of every depth.  Groups contain groups (_evaluate_rule_item calls    *)
(* itself), so the outcomes of a rule are given by a function on its items   *)
(* that satisfies the equation of that method; depth rules out a group that  *)
(* contains itself.                                                          *)

Rule(items, depth) ==
  \A item \in items : ~IsCondition(item) =>
    /\ item.operator \in Operators
    /\ item.items \in Seq(items) /\ item.items # <<>>
    /\ \A i \in DOMAIN item.items : depth[item.items[i]] < depth[item]

Evaluated(items, ev, p, m, s) ==
  \A item \in items :
    ev[item] = IF IsCondition(item) THEN EvaluateCondition(item, p, m, s)
               ELSE Combine(item.operator, OutcomesOf(item, ev))

\* What the rule says of the world: a condition with data says what it compares,
\* one without data may be either.
Truth(items, truth, p, m, s) ==
  \A item \in items :
    /\ IsCondition(item) /\ Gap(item, p, m, s) = None =>
         (truth[item] <=> Matches(item.comparator, Reading(item, p, m, s), Threshold(item)))
    /\ ~IsCondition(item) =>
         (truth[item] <=> IF item.operator = "ALL"
                          THEN \A i \in DOMAIN item.items : truth[item.items[i]]
                          ELSE \E i \in DOMAIN item.items : truth[item.items[i]])

\* Induction over a rule: what holds of an item when it holds of all items it
\* contains holds of every item.
LEMMA RuleInduction ==
  ASSUME NEW items, NEW depth \in [items -> Nat], Rule(items, depth),
         NEW Good \in SUBSET items,
         \A item \in items :
           (IsCondition(item) \/ \A i \in DOMAIN item.items : item.items[i] \in Good) => item \in Good
  PROVE  Good = items
<1> SUFFICES ASSUME Good # items PROVE FALSE
  OBVIOUS
<1> DEFINE Bad == items \ Good
           T == {depth[item] : item \in Bad}
<1>1. T \subseteq Nat /\ T # {}
  OBVIOUS
<1>2. PICK n \in T : \A j \in T : n <= j
  BY <1>1, LeastNumber
<1>3. PICK item \in Bad : depth[item] = n
  OBVIOUS
<1>4. ~IsCondition(item)
  OBVIOUS
<1>5. PICK i \in DOMAIN item.items : item.items[i] \notin Good
  BY <1>4
<1>6. /\ item.items \in Seq(items) /\ depth[item.items[i]] < depth[item]
  BY <1>4 DEF Rule
<1>7. item.items[i] \in Bad
  BY <1>5, <1>6
<1>8. depth[item.items[i]] \in T
  BY <1>7
<1> HIDE DEF T
<1>9. n <= depth[item.items[i]]
  BY <1>2, <1>8
<1>10. depth[item.items[i]] \in Nat /\ n \in Nat
  BY <1>1, <1>8
<1> QED
  BY <1>3, <1>6, <1>9, <1>10

LEMMA ItemsOutcomes ==
  ASSUME NEW items, NEW item \in items, NEW ev \in [items -> Outcomes],
         item.items \in Seq(items), item.items # <<>>
  PROVE  /\ OutcomesOf(item, ev) \in Seq(Outcomes) /\ OutcomesOf(item, ev) # <<>>
         /\ DOMAIN OutcomesOf(item, ev) = DOMAIN item.items
         /\ \A i \in DOMAIN item.items :
              OutcomesOf(item, ev)[i] = ev[item.items[i]] /\ item.items[i] \in items
<1> DEFINE es == OutcomesOf(item, ev)
           n == Len(item.items)
<1>1. n \in Nat /\ DOMAIN item.items = 1..n /\ n # 0
  OBVIOUS
<1>2. \A i \in 1..n : item.items[i] \in items
  OBVIOUS
<1> HIDE DEF n
<1>3. es \in [1..n -> Outcomes] /\ \A i \in 1..n : es[i] = ev[item.items[i]]
  BY <1>1, <1>2 DEF OutcomesOf
<1> HIDE DEF es
<1>4. es \in Seq(Outcomes)
  BY <1>1, <1>3
<1>5. es \in Seq(Outcomes) /\ es # <<>> /\ DOMAIN es = 1..n
  BY <1>1, <1>3, <1>4
<1> QED
  BY <1>1, <1>2, <1>3, <1>5 DEF es

\* A device is switched on only on evidence, however deep its rule is: when the
\* outcome is met the rule holds, whatever the values of the conditions without
\* data may be (SchedulerDecisionService._evaluate_rule_item).
THEOREM MetNeedsEvidence ==
  ASSUME NEW items, NEW depth \in [items -> Nat], Rule(items, depth),
         NEW p, NEW m, NEW s,
         NEW ev \in [items -> Outcomes], Evaluated(items, ev, p, m, s),
         NEW truth \in [items -> BOOLEAN], Truth(items, truth, p, m, s)
  PROVE  \A item \in items : ev[item].met = "met" => truth[item]
<1> DEFINE Good == {item \in items : ev[item].met = "met" => truth[item]}
<1>1. ASSUME NEW item \in items, IsCondition(item) PROVE item \in Good
  <2>1. ev[item] = EvaluateCondition(item, p, m, s)
    BY <1>1 DEF Evaluated
  <2>2. ev[item].met = "met" =>
          /\ Gap(item, p, m, s) = None
          /\ Matches(item.comparator, Reading(item, p, m, s), Threshold(item))
    BY <2>1 DEF EvaluateCondition
  <2> QED
    BY <1>1, <2>2 DEF Truth
<1>2. ASSUME NEW item \in items, ~IsCondition(item), \A i \in DOMAIN item.items : item.items[i] \in Good
      PROVE  item \in Good
  <2> DEFINE es == OutcomesOf(item, ev)
  <2>1. ev[item] = Combine(item.operator, es) /\ item.operator \in Operators
        /\ item.items \in Seq(items) /\ item.items # <<>>
    BY <1>2 DEF Evaluated, Rule
  <2> HIDE DEF es
  <2>2. /\ es \in Seq(Outcomes) /\ es # <<>> /\ DOMAIN es = DOMAIN item.items
        /\ \A i \in DOMAIN es : es[i] = ev[item.items[i]]
    <3>1. item.items \in Seq(items) /\ item.items # <<>>
      BY <2>1
    <3> HIDE DEF Good
    <3> QED
      BY <3>1, ItemsOutcomes DEF es
  <2>3. ASSUME ev[item].met = "met" PROVE truth[item]
    <3>1. CASE item.operator = "ALL"
      <4>1. \A i \in DOMAIN es : es[i].met = "met"
        BY <2>1, <2>2, <2>3, <3>1, AllGroup
      <4>2. ASSUME NEW i \in DOMAIN item.items PROVE truth[item.items[i]]
        <5>1. ev[item.items[i]].met = "met"
          BY <2>2, <4>1
        <5> QED
          BY <1>2, <5>1
      <4> QED
        BY <1>2, <3>1, <4>2 DEF Truth
    <3>2. CASE item.operator = "ANY"
      <4>1. \E i \in DOMAIN es : es[i].met = "met"
        BY <2>1, <2>2, <2>3, <3>2, AnyGroup DEF Has
      <4>2. \E i \in DOMAIN item.items : truth[item.items[i]]
        BY <1>2, <2>2, <4>1
      <4> QED
        BY <1>2, <3>2, <4>2 DEF Truth
    <3> QED
      BY <2>1, <3>1, <3>2 DEF Operators
  <2> QED
    BY <2>3
<1> HIDE DEF Good
<1>3. Good = items
  <2>1. Good \in SUBSET items
    BY DEF Good
  <2> QED
    BY <1>1, <1>2, <2>1, RuleInduction
<1> QED
  BY <1>3 DEF Good

\* With data for every condition of a rule the outcome is its truth, however
\* deep the rule is: nothing is unknown, met if it holds, unmet if not.
THEOREM DataDecides ==
  ASSUME NEW items, NEW depth \in [items -> Nat], Rule(items, depth),
         NEW p, NEW m, NEW s,
         NEW ev \in [items -> Outcomes], Evaluated(items, ev, p, m, s),
         NEW truth \in [items -> BOOLEAN], Truth(items, truth, p, m, s),
         \A c \in items : IsCondition(c) => Gap(c, p, m, s) = None
  PROVE  \A item \in items : ev[item].met = IF truth[item] THEN "met" ELSE "unmet"
<1> DEFINE Good == {item \in items : ev[item].met = IF truth[item] THEN "met" ELSE "unmet"}
<1>1. ASSUME NEW item \in items, IsCondition(item) PROVE item \in Good
  <2>1. ev[item] = EvaluateCondition(item, p, m, s) /\ Gap(item, p, m, s) = None
    BY <1>1 DEF Evaluated
  <2>2. ev[item].met = IF Matches(item.comparator, Reading(item, p, m, s), Threshold(item))
                       THEN "met" ELSE "unmet"
    BY <2>1 DEF EvaluateCondition
  <2> QED
    BY <1>1, <2>1, <2>2 DEF Truth
<1>2. ASSUME NEW item \in items, ~IsCondition(item), \A i \in DOMAIN item.items : item.items[i] \in Good
      PROVE  item \in Good
  <2> DEFINE es == OutcomesOf(item, ev)
  <2>1. ev[item] = Combine(item.operator, es) /\ item.operator \in Operators
        /\ item.items \in Seq(items) /\ item.items # <<>>
    BY <1>2 DEF Evaluated, Rule
  <2> HIDE DEF es
  <2>2. /\ es \in Seq(Outcomes) /\ es # <<>> /\ DOMAIN es = DOMAIN item.items
        /\ \A i \in DOMAIN es : es[i] = ev[item.items[i]]
    <3>1. item.items \in Seq(items) /\ item.items # <<>>
      BY <2>1
    <3> HIDE DEF Good
    <3> QED
      BY <3>1, ItemsOutcomes DEF es
  <2>3. \A i \in DOMAIN es : es[i].met = IF truth[item.items[i]] THEN "met" ELSE "unmet"
    BY <1>2, <2>2
  <2>4. Combine(item.operator, es).met \in MetValues /\ 1 \in DOMAIN es
    <3>1. PICK i \in DOMAIN es : Combine(item.operator, es) = es[i]
      BY <2>1, <2>2, DecidingItem
    <3> QED
      BY <2>2, <3>1, GroupIsTyped
  <2>5. CASE item.operator = "ALL"
    <3>1. /\ ev[item].met = "met" <=> \A i \in DOMAIN es : es[i].met = "met"
          /\ ev[item].met = "unmet" <=> \E i \in DOMAIN es : es[i].met = "unmet"
      BY <2>1, <2>2, <2>5, AllGroup DEF Has
    <3>2. truth[item] <=> \A i \in DOMAIN es : truth[item.items[i]]
      BY <1>2, <2>2, <2>5 DEF Truth
    <3> QED
      BY <2>3, <3>1, <3>2
  <2>6. CASE item.operator = "ANY"
    <3>1. /\ ev[item].met = "met" <=> \E i \in DOMAIN es : es[i].met = "met"
          /\ ev[item].met = "unknown" <=> \A i \in DOMAIN es : es[i].met = "unknown"
      BY <2>1, <2>2, <2>6, AnyGroup DEF Has
    <3>2. truth[item] <=> \E i \in DOMAIN es : truth[item.items[i]]
      BY <1>2, <2>2, <2>6 DEF Truth
    <3>3. ev[item].met # "unknown" /\ ev[item].met \in MetValues
      BY <2>1, <2>3, <2>4, <3>1
    <3> QED
      BY <2>3, <3>1, <3>2, <3>3 DEF MetValues
  <2> QED
    BY <2>1, <2>5, <2>6 DEF Operators
<1> HIDE DEF Good
<1>3. Good = items
  <2>1. Good \in SUBSET items
    BY DEF Good
  <2> QED
    BY <1>1, <1>2, <2>1, RuleInduction
<1> QED
  BY <1>3 DEF Good

\* Losing data never admits, however deep the rule is: a provider that is
\* disabled, measurements that age or are missing, switch no device on that was
\* not to be switched on before.
THEOREM RuleLossNeverAdmits ==
  ASSUME NEW items, NEW depth \in [items -> Nat], Rule(items, depth),
         NEW p, NEW m, NEW s, NEW p2, NEW m2, NEW s2,
         NEW ev \in [items -> Outcomes], Evaluated(items, ev, p, m, s),
         NEW later \in [items -> Outcomes], Evaluated(items, later, p2, m2, s2),
         \A c \in items : IsCondition(c) => later[c].met \in {ev[c].met, "unknown"}
  PROVE  \A item \in items : later[item].met = "met" => ev[item].met = "met"
<1> DEFINE Good == {item \in items : later[item].met = "met" => ev[item].met = "met"}
<1>1. ASSUME NEW item \in items, IsCondition(item) PROVE item \in Good
  BY <1>1
<1>2. ASSUME NEW item \in items, ~IsCondition(item), \A i \in DOMAIN item.items : item.items[i] \in Good
      PROVE  item \in Good
  <2> DEFINE es == OutcomesOf(item, ev)
             fs == OutcomesOf(item, later)
  <2>1. /\ ev[item] = Combine(item.operator, es) /\ later[item] = Combine(item.operator, fs)
        /\ item.operator \in Operators
        /\ item.items \in Seq(items) /\ item.items # <<>>
    BY <1>2 DEF Evaluated, Rule
  <2>2. /\ es \in Seq(Outcomes) /\ es # <<>> /\ DOMAIN es = DOMAIN item.items
        /\ \A i \in DOMAIN es : es[i] = ev[item.items[i]]
    <3>1. item.items \in Seq(items) /\ item.items # <<>>
      BY <2>1
    <3> HIDE DEF Good
    <3>2. /\ OutcomesOf(item, ev) \in Seq(Outcomes) /\ OutcomesOf(item, ev) # <<>>
          /\ DOMAIN OutcomesOf(item, ev) = DOMAIN item.items
          /\ \A i \in DOMAIN item.items : OutcomesOf(item, ev)[i] = ev[item.items[i]]
      BY <3>1, ItemsOutcomes, Z3T(30)
    <3> QED
      BY <3>2
  <2>3. /\ fs \in Seq(Outcomes) /\ fs # <<>> /\ DOMAIN fs = DOMAIN item.items
        /\ \A i \in DOMAIN fs : fs[i] = later[item.items[i]]
    <3>1. item.items \in Seq(items) /\ item.items # <<>>
      BY <2>1
    <3> HIDE DEF Good, es
    <3>2. /\ OutcomesOf(item, later) \in Seq(Outcomes) /\ OutcomesOf(item, later) # <<>>
          /\ DOMAIN OutcomesOf(item, later) = DOMAIN item.items
          /\ \A i \in DOMAIN item.items : OutcomesOf(item, later)[i] = later[item.items[i]]
      BY <3>1, ItemsOutcomes, Z3T(30)
    <3> QED
      BY <3>2
  <2> HIDE DEF es, fs
  <2>4. \A i \in DOMAIN es : fs[i].met = "met" => es[i].met = "met"
    BY <1>2, <2>2, <2>3
  <2>5. CASE item.operator = "ALL"
    <3>1. /\ ev[item].met = "met" <=> \A i \in DOMAIN es : es[i].met = "met"
          /\ later[item].met = "met" <=> \A i \in DOMAIN fs : fs[i].met = "met"
      BY <2>1, <2>2, <2>3, <2>5, AllGroup
    <3> QED
      BY <2>2, <2>3, <2>4, <3>1
  <2>6. CASE item.operator = "ANY"
    <3>1. /\ ev[item].met = "met" <=> \E i \in DOMAIN es : es[i].met = "met"
          /\ later[item].met = "met" <=> \E i \in DOMAIN fs : fs[i].met = "met"
      BY <2>1, <2>2, <2>3, <2>6, AnyGroup DEF Has
    <3> QED
      BY <2>2, <2>3, <2>4, <3>1
  <2> QED
    BY <2>1, <2>5, <2>6 DEF Operators
<1> HIDE DEF Good
<1>3. Good = items
  <2>1. Good \in SUBSET items
    BY DEF Good
  <2> QED
    BY <1>1, <1>2, <2>1, RuleInduction
<1> QED
  BY <1>3 DEF Good

-----------------------------------------------------------------------------
(* The recursive functions of SchedulerDecision are what their definitions  *)
(* say: rules are finite, so the recursion ends.                             *)

LEMMA LeastValue ==
  ASSUME NEW S, IsFiniteSet(S), S # {}, NEW f \in [S -> Int]
  PROVE  \E x \in S : \A y \in S : f[x] <= f[y]
<1> DEFINE Below(x) == {y \in S : f[y] < f[x]}
           T == {Cardinality(Below(x)) : x \in S}
<1>1. \A x \in S : IsFiniteSet(Below(x)) /\ Cardinality(Below(x)) \in Nat
  <2>1. \A x \in S : Below(x) \in SUBSET S
    OBVIOUS
  <2> HIDE DEF Below
  <2> QED
    BY <2>1, FS_Subset, FS_CardinalityType
<1>2. T \subseteq Nat /\ T # {}
  BY <1>1
<1>3. PICK n \in T : \A k \in T : n <= k
  BY <1>2, LeastNumber
<1>4. PICK x \in S : n = Cardinality(Below(x))
  OBVIOUS
<1>5. ASSUME NEW y \in S, f[y] < f[x] PROVE FALSE
  <2>1. Below(y) \in SUBSET Below(x) /\ y \in Below(x) /\ y \notin Below(y)
    BY <1>5
  <2>2. Cardinality(Below(x)) <= Cardinality(Below(y))
    BY <1>3, <1>4
  <2> HIDE DEF Below
  <2>3. /\ Cardinality(Below(y)) <= Cardinality(Below(x))
        /\ Cardinality(Below(x)) = Cardinality(Below(y)) => Below(x) = Below(y)
    BY <1>1, <2>1, FS_Subset
  <2> QED
    BY <1>1, <2>1, <2>2, <2>3
<1> QED
  BY <1>5

LEMMA DepthBound == \E n \in Nat : \A item \in Items : Depth[item] < n
<1>1. CASE Items = {}
  BY <1>1
<1>2. CASE Items # {}
  <2> DEFINE f == [item \in Items |-> -Depth[item]]
  <2>1. f \in [Items -> Int]
    BY ItemsAssumption
  <2>2. \A item \in Items : f[item] = -Depth[item] /\ Depth[item] \in Nat
    BY ItemsAssumption
  <2> HIDE DEF f
  <2>3. PICK x \in Items : \A y \in Items : f[x] <= f[y]
    BY <1>2, <2>1, ItemsAssumption, LeastValue
  <2>4. \A y \in Items : Depth[y] < Depth[x] + 1
    BY <2>2, <2>3
  <2> QED
    BY <2>2, <2>4
<1> QED
  BY <1>1, <1>2

LEMMA RulesAreRules == Depth \in [Items -> Nat] /\ Rule(Items, Depth)
BY ItemsAssumption DEF Rule, IsStoredGroup, Operators

\* A step that asks only for the values of the items of a group has a function
\* that it leaves as it is.
LEMMA RuleRecursion ==
  ASSUME NEW V, NEW f0 \in [Items -> V],
         NEW G \in [[Items -> V] -> [Items -> V]],
         \A f, g \in [Items -> V], item \in Items :
           (IsCondition(item) \/ \A i \in DOMAIN item.items : f[item.items[i]] = g[item.items[i]])
             => G[f][item] = G[g][item]
  PROVE  \E f \in [Items -> V] : f = G[f]
<1> DEFINE Fits(k, f) == \A item \in Items : Depth[item] < k => f[item] = G[f][item]
           T == {k \in Nat : ~ \E f \in [Items -> V] : Fits(k, f)}
<1>1. T = {}
  <2> SUFFICES ASSUME T # {} PROVE FALSE
    OBVIOUS
  <2>1. T \subseteq Nat
    OBVIOUS
  <2>2. PICK k \in T : \A j \in T : k <= j
    BY <2>1, LeastNumber
  <2>3. k \in Nat /\ ~ \E f \in [Items -> V] : Fits(k, f)
    OBVIOUS
  <2>4. k # 0
    <3>1. Fits(0, f0)
      BY RulesAreRules
    <3> QED
      BY <2>3, <3>1
  <2>5. k - 1 \in Nat /\ k - 1 \notin T
    BY <2>2, <2>3, <2>4
  <2>6. PICK f \in [Items -> V] : Fits(k - 1, f)
    BY <2>5
  <2>7. G[f] \in [Items -> V]
    OBVIOUS
  <2>8. ASSUME NEW item \in Items, Depth[item] < k PROVE G[f][item] = G[G[f]][item]
    <3>1. IsCondition(item) \/ \A i \in DOMAIN item.items : f[item.items[i]] = G[f][item.items[i]]
      <4>1. ASSUME ~IsCondition(item), NEW i \in DOMAIN item.items
            PROVE  f[item.items[i]] = G[f][item.items[i]]
        <5>1. item.items[i] \in Items /\ Depth[item.items[i]] < Depth[item]
          BY <4>1, RulesAreRules DEF Rule
        <5>2. Depth[item.items[i]] < k - 1
          BY <2>3, <2>8, <5>1, RulesAreRules
        <5> QED
          BY <2>6, <5>1, <5>2
      <4> QED
        BY <4>1
    <3> QED
      BY <2>7, <3>1
  <2>9. Fits(k, G[f])
    BY <2>8
  <2> QED
    BY <2>3, <2>7, <2>9
<1>2. PICK n \in Nat : \A item \in Items : Depth[item] < n
  BY DepthBound
<1>3. PICK f \in [Items -> V] : Fits(n, f)
  BY <1>1
<1>4. \A item \in Items : f[item] = G[f][item]
  BY <1>2, <1>3
<1>5. G[f] \in [Items -> V]
  OBVIOUS
<1>6. f = G[f]
  BY <1>4, <1>5
<1> QED
  BY <1>6

\* What the queries return is typed.
Typed(m, s) ==
  /\ m # None => (m.value # None => m.value \in Int)
  /\ s # None => s.value \in Int

LEMMA ConditionTyped ==
  ASSUME NEW c, NEW p, NEW m, NEW s, Typed(m, s)
  PROVE  /\ EvaluateCondition(c, p, m, s) \in Outcomes
         /\ Gap(c, p, m, s) = None => Reading(c, p, m, s) \in Int
<1>1. Gap(c, p, m, s) \in Gaps \cup {None}
  BY DEF Gap, ProviderGap, PowerGap, SocGap, Gaps
<1>2. ASSUME Gap(c, p, m, s) = None PROVE Reading(c, p, m, s) \in Int
  <2>1. ProviderGap(p) = None
    BY <1>2 DEF Gap
  <2>2. CASE OnPower(c)
    <3>1. PowerGap(c, p, m) = None
      BY <1>2, <2>1, <2>2 DEF Gap
    <3>2. m.value \in Int
      BY <3>1, NoneAssumption DEF PowerGap, Gaps, Typed
    <3> DEFINE w == Watts(UnitOf(c, p, m))
    <3>3. w \in Int
      BY DEF Watts
    <3> HIDE DEF w
    <3>4. m.value * w \in Int
      BY <3>2, <3>3
    <3> QED
      BY <2>2, <3>4 DEF Reading, w
  <2>3. CASE ~OnPower(c)
    <3>1. SocGap(c, p, s) = None
      BY <1>2, <2>1, <2>3 DEF Gap
    <3>2. s.value \in Int
      BY <3>1, NoneAssumption DEF SocGap, Gaps, Typed
    <3> QED
      BY <2>3, <3>2 DEF Reading
  <2> QED
    BY <2>2, <2>3
<1>3. EvaluateCondition(c, p, m, s) \in Outcomes
  <2> DEFINE g == Gap(c, p, m, s)
             r == Reading(c, p, m, s)
             b == Matches(c.comparator, r, Threshold(c))
  <2>1. EvaluateCondition(c, p, m, s) =
          IF g # None THEN [met |-> "unknown", reason |-> g, value |-> None]
          ELSE IF b THEN [met |-> "met", reason |-> "SCHEDULER_MATCH", value |-> r]
          ELSE [met |-> "unmet", reason |-> "THRESHOLD_NOT_MET", value |-> r]
    BY DEF EvaluateCondition
  <2>2. (g = None => r \in Int) /\ (g # None => g \in Gaps)
    BY <1>1, <1>2
  <2> HIDE DEF g, r, b
  <2> QED
    BY <2>1, <2>2 DEF Outcomes, MetValues, Reasons
<1> QED
  BY <1>2, <1>3

\* _evaluate_rule_item: the outcomes of a rule are what its conditions and
\* groups make of each other.
LEMMA EvaluationExact ==
  ASSUME NEW p, NEW m, NEW s, Typed(m, s)
  PROVE  /\ Evaluation(p, m, s) \in [Items -> Outcomes]
         /\ Evaluated(Items, Evaluation(p, m, s), p, m, s)
<1> DEFINE Body(f) == [item \in Items |->
             IF IsCondition(item) THEN EvaluateCondition(item, p, m, s)
             ELSE Combine(item.operator, OutcomesOf(item, f))]
           V == Outcomes
           G == [f \in [Items -> V] |-> Body(f)]
           f0 == [item \in Items |-> [met |-> "met", reason |-> "SCHEDULER_MATCH", value |-> None]]
           e == Evaluation(p, m, s)
<1>1. ASSUME NEW f \in [Items -> V] PROVE Body(f) \in [Items -> V]
  <2>1. ASSUME NEW item \in Items, ~IsCondition(item)
        PROVE  Combine(item.operator, OutcomesOf(item, f)) \in V
    <3>1. item.items \in Seq(Items) /\ item.items # <<>> /\ item.operator \in Operators
      BY <2>1, RulesAreRules DEF Rule
    <3>2. OutcomesOf(item, f) \in Seq(Outcomes) /\ OutcomesOf(item, f) # <<>>
      BY <3>1, ItemsOutcomes
    <3>3. \A i \in DOMAIN OutcomesOf(item, f) : OutcomesOf(item, f)[i] \in Outcomes
      BY <3>2
    <3> QED
      BY <3>1, <3>2, <3>3, DecidingItem
  <2> QED
    BY <2>1, ConditionTyped
<1>2. G \in [[Items -> V] -> [Items -> V]] /\ \A f \in [Items -> V] : G[f] = Body(f)
  <2> HIDE DEF Body, V
  <2> QED
    BY <1>1
<1>3. f0 \in [Items -> V]
  BY DEF Outcomes, MetValues, Reasons
<1>4. ASSUME NEW f \in [Items -> V], NEW g \in [Items -> V], NEW item \in Items,
             IsCondition(item) \/ \A i \in DOMAIN item.items : f[item.items[i]] = g[item.items[i]]
      PROVE  G[f][item] = G[g][item]
  <2>1. Body(f)[item] = Body(g)[item]
    <3>1. CASE IsCondition(item)
      BY <3>1
    <3>2. CASE ~IsCondition(item)
      <4>1. OutcomesOf(item, f) = OutcomesOf(item, g)
        BY <1>4, <3>2 DEF OutcomesOf
      <4> QED
        BY <3>2, <4>1
    <3> QED
      BY <3>1, <3>2
  <2> HIDE DEF Body, G
  <2> QED
    BY <1>2, <2>1
<1>5. \E f \in [Items -> V] : f = Body(f)
  <2> HIDE DEF Body, G, V, f0
  <2>1. \E f \in [Items -> V] : f = G[f]
    BY <1>2, <1>3, <1>4, RuleRecursion
  <2> QED
    BY <1>2, <2>1
<1>6. e = Body(e)
  <2>1. PICK f \in [Items -> V] : f = Body(f)
    BY <1>5
  <2>2. e = CHOOSE g : g = Body(g)
    BY DEF Evaluation
  <2> HIDE DEF Body, e
  <2> QED
    BY <2>1, <2>2
<1> HIDE DEF e, V, G, f0
<1>7. Evaluated(Items, e, p, m, s)
  <2>1. \A item \in Items : Body(e)[item] =
          IF IsCondition(item) THEN EvaluateCondition(item, p, m, s)
          ELSE Combine(item.operator, OutcomesOf(item, e))
    OBVIOUS
  <2> HIDE DEF Body
  <2> QED
    BY <1>6, <2>1 DEF Evaluated
<1>8. e \in [Items -> Outcomes]
  <2>1. PICK f \in [Items -> V] : f = Body(f)
    BY <1>5
  <2>2. f \in [Items -> Outcomes] /\ Evaluated(Items, f, p, m, s)
    <3>1. \A item \in Items : Body(f)[item] =
            IF IsCondition(item) THEN EvaluateCondition(item, p, m, s)
            ELSE Combine(item.operator, OutcomesOf(item, f))
      OBVIOUS
    <3> HIDE DEF Body
    <3> QED
      BY <2>1, <3>1 DEF Evaluated, V
  <2> DEFINE Good == {item \in Items : e[item] = f[item]}
  <2>3. \A item \in Items : IsCondition(item) => item \in Good
    BY <1>7, <2>2 DEF Evaluated
  <2>4. ASSUME NEW item \in Items, ~IsCondition(item), \A i \in DOMAIN item.items : item.items[i] \in Good
        PROVE  item \in Good
    <3>1. OutcomesOf(item, e) = OutcomesOf(item, f)
      BY <2>4 DEF OutcomesOf
    <3> QED
      BY <1>7, <2>2, <2>4, <3>1 DEF Evaluated
  <2>5. Good \in SUBSET Items
    OBVIOUS
  <2> HIDE DEF Good
  <2>6. Good = Items
    BY <2>3, <2>4, <2>5, RulesAreRules, RuleInduction
  <2>7. \A item \in Items : e[item] = f[item]
    BY <2>6 DEF Good
  <2>8. e = [item \in Items |-> e[item]]
    BY <1>6
  <2> HIDE DEF Body
  <2> QED
    BY <2>2, <2>7, <2>8
<1> QED
  BY <1>7, <1>8 DEF e

LEMMA HoldingExact ==
  ASSUME NEW C
  PROVE  /\ Holding(C) \in [Items -> BOOLEAN]
         /\ \A item \in Items : IsCondition(item) => (Holding(C)[item] <=> item \in C)
         /\ \A item \in Items : ~IsCondition(item) =>
              (Holding(C)[item] <=>
                 IF item.operator = "ALL"
                 THEN \A i \in DOMAIN item.items : Holding(C)[item.items[i]]
                 ELSE \E i \in DOMAIN item.items : Holding(C)[item.items[i]])
<1> DEFINE Body(f) == [item \in Items |->
             IF IsCondition(item) THEN item \in C
             ELSE IF item.operator = "ALL"
             THEN \A i \in DOMAIN item.items : f[item.items[i]]
             ELSE \E i \in DOMAIN item.items : f[item.items[i]]]
           V == BOOLEAN
           G == [f \in [Items -> V] |-> Body(f)]
           f0 == [item \in Items |-> TRUE]
           e == Holding(C)
<1>1. ASSUME NEW f PROVE Body(f) \in [Items -> BOOLEAN]
  <2> DEFINE all(item) == \A i \in DOMAIN item.items : f[item.items[i]]
             some(item) == \E i \in DOMAIN item.items : f[item.items[i]]
  <2>1. \A item : all(item) \in BOOLEAN /\ some(item) \in BOOLEAN
    OBVIOUS
  <2>2. \A item : (item \in C) \in BOOLEAN
    OBVIOUS
  <2>3. Body(f) = [item \in Items |->
                     IF IsCondition(item) THEN item \in C
                     ELSE IF item.operator = "ALL" THEN all(item) ELSE some(item)]
    OBVIOUS
  <2> HIDE DEF all, some, Body
  <2> QED
    BY <2>1, <2>2, <2>3
<1>2. G \in [[Items -> V] -> [Items -> V]] /\ \A f \in [Items -> V] : G[f] = Body(f)
  <2>1. \A f : Body(f) \in [Items -> V]
    BY <1>1
  <2> HIDE DEF Body, V
  <2> QED
    BY <2>1
<1>3. f0 \in [Items -> V]
  OBVIOUS
<1>4. ASSUME NEW f \in [Items -> V], NEW g \in [Items -> V], NEW item \in Items,
             IsCondition(item) \/ \A i \in DOMAIN item.items : f[item.items[i]] = g[item.items[i]]
      PROVE  G[f][item] = G[g][item]
  <2>1. Body(f)[item] = Body(g)[item]
    <3>1. CASE IsCondition(item)
      BY <3>1
    <3>2. CASE ~IsCondition(item)
      BY <1>4, <3>2
    <3> QED
      BY <3>1, <3>2
  <2> HIDE DEF Body, G
  <2> QED
    BY <1>2, <2>1
<1>5. \E f : f = Body(f)
  <2> HIDE DEF Body, G, V, f0
  <2>1. \E f \in [Items -> V] : f = G[f]
    BY <1>2, <1>3, <1>4, RuleRecursion
  <2> QED
    BY <1>2, <2>1
<1>6. e = Body(e)
  <2>1. e = CHOOSE g : g = Body(g)
    BY DEF Holding
  <2> HIDE DEF Body, e
  <2> QED
    BY <1>5, <2>1
<1> HIDE DEF e
<1>7. e \in [Items -> BOOLEAN]
  <2> HIDE DEF Body
  <2> QED
    BY <1>1, <1>6
<1>8. \A item \in Items : e[item] = Body(e)[item]
  <2> HIDE DEF Body
  <2> QED
    BY <1>6
<1>9. \A item \in Items : IsCondition(item) => (e[item] <=> item \in C)
  BY <1>7, <1>8
<1>10. \A item \in Items : ~IsCondition(item) =>
         (e[item] <=> IF item.operator = "ALL"
                      THEN \A i \in DOMAIN item.items : e[item.items[i]]
                      ELSE \E i \in DOMAIN item.items : e[item.items[i]])
  BY <1>7, <1>8
<1> QED
  BY <1>7, <1>9, <1>10 DEF e

LEMMA ConditionsExact ==
  /\ \A item \in Items : Conditions[item] \in SUBSET Items
  /\ \A item \in Items : IsCondition(item) => Conditions[item] = {item}
  /\ \A item \in Items : ~IsCondition(item) =>
       Conditions[item] = UNION {Conditions[item.items[i]] : i \in DOMAIN item.items}
<1> DEFINE Body(f) == [item \in Items |->
             IF IsCondition(item) THEN {item}
             ELSE UNION {f[item.items[i]] : i \in DOMAIN item.items}]
           V == SUBSET Items
           G == [f \in [Items -> V] |-> Body(f)]
           f0 == [item \in Items |-> {}]
<1>1. ASSUME NEW f \in [Items -> V] PROVE Body(f) \in [Items -> V]
  <2>1. ASSUME NEW item \in Items, ~IsCondition(item)
        PROVE  \A i \in DOMAIN item.items : f[item.items[i]] \in SUBSET Items
    <3>1. \A i \in DOMAIN item.items : item.items[i] \in Items
      BY <2>1, RulesAreRules DEF Rule
    <3> QED
      BY <3>1
  <2> QED
    BY <2>1
<1>2. G \in [[Items -> V] -> [Items -> V]] /\ \A f \in [Items -> V] : G[f] = Body(f)
  <2> HIDE DEF Body, V
  <2> QED
    BY <1>1
<1>3. f0 \in [Items -> V]
  OBVIOUS
<1>4. ASSUME NEW f \in [Items -> V], NEW g \in [Items -> V], NEW item \in Items,
             IsCondition(item) \/ \A i \in DOMAIN item.items : f[item.items[i]] = g[item.items[i]]
      PROVE  G[f][item] = G[g][item]
  <2>1. Body(f)[item] = Body(g)[item]
    <3>1. CASE IsCondition(item)
      BY <3>1
    <3>2. CASE ~IsCondition(item)
      BY <1>4, <3>2
    <3> QED
      BY <3>1, <3>2
  <2> HIDE DEF Body, G
  <2> QED
    BY <1>2, <2>1
<1>5. \E f : f = Body(f)
  <2> HIDE DEF Body, G, V, f0
  <2>1. \E f \in [Items -> V] : f = G[f]
    BY <1>2, <1>3, <1>4, RuleRecursion
  <2> QED
    BY <1>2, <2>1
<1>6. Conditions = Body(Conditions)
  <2>1. Conditions = CHOOSE g : g = Body(g)
    BY DEF Conditions
  <2> HIDE DEF Body
  <2> QED
    BY <1>5, <2>1
<1>7. \A item \in Items : Conditions[item] = Body(Conditions)[item]
  <2> HIDE DEF Body
  <2> QED
    BY <1>6
<1>8. /\ \A item \in Items : IsCondition(item) => Conditions[item] = {item}
      /\ \A item \in Items : ~IsCondition(item) =>
           Conditions[item] = UNION {Conditions[item.items[i]] : i \in DOMAIN item.items}
  BY <1>7
<1> DEFINE Good == {item \in Items : Conditions[item] \in SUBSET Items}
<1>9. \A item \in Items :
        (IsCondition(item) \/ \A i \in DOMAIN item.items : item.items[i] \in Good) => item \in Good
  BY <1>8
<1>10. Good \in SUBSET Items
  OBVIOUS
<1> HIDE DEF Good
<1>11. Good = Items
  BY <1>9, <1>10, RulesAreRules, RuleInduction
<1> QED
  BY <1>8, <1>11 DEF Good

-----------------------------------------------------------------------------
(* The inductive invariant: the slot has a rule of the schema or the columns *)
(* of one, and what is measured has been measured by the provider attached.  *)

ColumnsOK(s) ==
  /\ IsRule(RuleOf(s))
  /\ s.rule # None =>
       /\ s.rule \in Items /\ ~IsCondition(s.rule)
       /\ s.use_power_threshold = IsLegacy(s.rule)
       /\ s.value = IF IsLegacy(s.rule) THEN Column(s.rule.items[1].value) ELSE None
       /\ s.unit = IF IsLegacy(s.rule) THEN s.rule.items[1].unit ELSE None
  /\ s = [rule |-> s.rule, use_power_threshold |-> s.use_power_threshold,
          value |-> s.value, unit |-> s.unit]
  /\ s.value # None => /\ s.value \in Int /\ s.value = Column(s.value)
                       /\ LegacyRule(s.value, s.unit) # None

SlotOK == ColumnsOK(slot)

DataOK ==
  /\ provider # None => IsProvider(provider)
  /\ IsFiniteSet(rows) /\ \A r \in rows : IsRow(r) /\ r \in RowsOverTime

IInv == SlotOK /\ DataOK

\* Halving and rounding: a number and its column are at most half a digit apart.
LEMMA ColumnIsNear ==
  ASSUME NEW value \in Int
  PROVE  /\ Column(value) \in Int
         /\ 2 * (Column(value) - value) <= ColumnUnit
         /\ 2 * (value - Column(value)) <= ColumnUnit
<1> DEFINE n == 2 * value + ColumnUnit
           d == 2 * ColumnUnit
           q == n \div d
<1>1. n \in Int /\ d \in Nat \ {0} /\ ColumnUnit \in Int
  BY ColumnAssumption
<1>2. q \in Int /\ d * q <= n /\ n < d * q + d
  <2> HIDE DEF n, d
  <2>1. n = d * q + (n % d) /\ n % d \in 0 .. d - 1 /\ q \in Int
    BY <1>1, Z3
  <2>2. PICK r \in Int : r = n % d
    BY <2>1
  <2>3. PICK x \in Int : x = d * q
    BY <1>1, <2>1
  <2> HIDE DEF q
  <2> QED
    BY <1>1, <2>1, <2>2, <2>3
<1>3. d * q = 2 * (ColumnUnit * q)
  <2> HIDE DEF q
  <2> QED
    BY <1>1, <1>2, Z3
<1>4. PICK x \in Int : x = ColumnUnit * q
  BY <1>1, <1>2
<1>5. Column(value) = x
  BY <1>4 DEF Column
<1>6. 2 * x <= 2 * value + ColumnUnit /\ 2 * value + ColumnUnit < 2 * x + 2 * ColumnUnit
  <2>1. 2 * x <= n /\ n < 2 * x + d
    <3> HIDE DEF n, d, q
    <3> QED
      BY <1>2, <1>3, <1>4
  <2> QED
    BY <2>1
<1> HIDE DEF q
<1> QED
  BY <1>1, <1>5, <1>6

\* A number is its quotient times the divisor and a remainder below it.
LEMMA Quotient ==
  ASSUME NEW n \in Int, NEW d \in Nat \ {0}, NEW q \in Int, NEW r \in Int,
         n = d * q + r, 0 <= r, r < d
  PROVE  n \div d = q
<1>1. n = d * (n \div d) + (n % d) /\ n % d \in 0 .. d - 1 /\ n \div d \in Int
  BY Z3
<1>2. PICK x \in Int, y \in Int : x = n \div d /\ y = n % d
  BY <1>1
<1>3. d * x + y = d * q + r /\ 0 <= y /\ y < d
  BY <1>1, <1>2
<1>4. \A a, b, c, e, f \in Int : c > 0 /\ c * a + e = c * b + f /\ 0 <= e /\ e < c
                                /\ 0 <= f /\ f < c => a = b
  BY Z3
<1>5. x = q
  BY <1>3, <1>4
<1> QED
  BY <1>2, <1>5

\* A column is its own column.
LEMMA ColumnTwice ==
  ASSUME NEW value \in Int
  PROVE  Column(Column(value)) = Column(value)
<1> DEFINE k == (2 * value + ColumnUnit) \div (2 * ColumnUnit)
<1>1. ColumnUnit \in Nat \ {0} /\ k \in Int
  BY ColumnAssumption, Z3
<1>2. \A q \in Int : (2 * (ColumnUnit * q) + ColumnUnit) \div (2 * ColumnUnit) = q
  <2> SUFFICES ASSUME NEW q \in Int
               PROVE  (2 * (ColumnUnit * q) + ColumnUnit) \div (2 * ColumnUnit) = q
    OBVIOUS
  <2>1. PICK d \in Nat \ {0} : d = 2 * ColumnUnit
    BY <1>1
  <2>2. PICK n \in Int : n = 2 * (ColumnUnit * q) + ColumnUnit
    BY <1>1
  <2>3. n = d * q + ColumnUnit /\ 0 <= ColumnUnit /\ ColumnUnit < d
    BY <1>1, <2>1, <2>2, Z3
  <2>4. n \div d = q
    BY <1>1, <2>1, <2>2, <2>3, Quotient
  <2> QED
    BY <2>1, <2>2, <2>4
<1>3. Column(value) = ColumnUnit * k
  BY DEF Column
<1> HIDE DEF k
<1>4. Column(ColumnUnit * k) = ColumnUnit * k
  BY <1>1, <1>2 DEF Column
<1> QED
  BY <1>3, <1>4

LEMMA StoredSlotOK ==
  ASSUME NEW s \in Payloads, ValidPayload(s)
  PROVE  ColumnsOK(StoredSlot(s))
<1> DEFINE rule == PayloadRule(s)
           sl == StoredSlot(s)
<1>1. IsRule(rule)
  BY SlotsAssumption
<1>2. /\ sl.rule = rule /\ sl.use_power_threshold = IsLegacy(rule)
      /\ sl.value = IF IsLegacy(rule) THEN Column(rule.items[1].value) ELSE None
      /\ sl.unit = IF IsLegacy(rule) THEN rule.items[1].unit ELSE None
  BY DEF StoredSlot
<1> HIDE DEF sl, rule
<1>3. RuleOf(sl) = rule
  <2>1. CASE rule # None
    BY <1>2, <2>1 DEF RuleOf
  <2>2. CASE rule = None
    <3>1. ~IsLegacy(rule)
      BY <2>2 DEF IsLegacy
    <3> QED
      BY <1>2, <2>2, <3>1 DEF RuleOf
  <2> QED
    BY <2>1, <2>2
<1>4. sl = [rule |-> sl.rule, use_power_threshold |-> sl.use_power_threshold,
            value |-> sl.value, unit |-> sl.unit]
  BY DEF sl, StoredSlot
<1>5. sl.value # None => /\ sl.value \in Int /\ sl.value = Column(sl.value)
                         /\ LegacyRule(sl.value, sl.unit) # None
  <2> SUFFICES ASSUME IsLegacy(rule)
               PROVE  /\ sl.value \in Int /\ sl.value = Column(sl.value)
                      /\ LegacyRule(sl.value, sl.unit) # None
    BY <1>2
  <2> DEFINE c == rule.items[1]
  <2>1. c \in Items /\ IsCondition(c)
    BY <1>1, ItemsAssumption DEF IsLegacy, IsRule, IsStoredGroup
  <2>2. c.value \in Int
    BY <2>1, ItemsAssumption DEF IsStoredCondition
  <2>3. sl.value = Column(c.value) /\ sl.unit = c.unit
    BY <1>2
  <2>4. LegacyRule(Column(c.value), c.unit) # None
    BY <2>1, NoRuleAssumption
  <2> HIDE DEF c
  <2> QED
    BY <2>2, <2>3, <2>4, ColumnIsNear, ColumnTwice
<1>6. ColumnsOK(sl)
  BY <1>1, <1>2, <1>3, <1>4, <1>5 DEF ColumnsOK, IsRule
<1> QED
  BY <1>6 DEF sl

LEMMA StartsOK == Init => IInv
<1> SUFFICES ASSUME Init PROVE IInv
  OBVIOUS
<1>1. SlotOK
  <2>1. CASE slot \in OldSlots
    BY <2>1, SlotsAssumption, NoRuleAssumption DEF SlotOK, ColumnsOK
  <2>2. CASE slot \notin OldSlots
    <3>1. PICK s \in {q \in Payloads : Storable(q)} : slot = StoredSlot(s)
      BY <2>2 DEF Init
    <3>2. ValidPayload(s)
      BY DEF Storable
    <3> QED
      BY <3>1, <3>2, StoredSlotOK DEF SlotOK
  <2> QED
    BY <2>1, <2>2
<1>2. DataOK
  BY FS_EmptySet DEF Init, DataOK
<1> QED
  BY <1>1, <1>2 DEF IInv

LEMMA OlderIsRow ==
  ASSUME NEW r, IsRow(r)
  PROVE  /\ IsRow(Older(r))
         /\ Older(r).age = IF r.age < MaxAge THEN r.age + 1 ELSE MaxAge
         /\ Older(r).value = r.value /\ Older(r).unit = r.unit
         /\ Older(r).soc = r.soc /\ Older(r).socUnit = r.socUnit
<1> DEFINE a == IF r.age < MaxAge THEN r.age + 1 ELSE MaxAge
<1>1. a \in Int
  BY RowsAssumption DEF IsRow
<1>2. Older(r) = [age |-> a, value |-> r.value, unit |-> r.unit, soc |-> r.soc,
                  socUnit |-> r.socUnit]
  BY DEF Older, IsRow
<1> HIDE DEF a
<1>3. /\ Older(r).age = a
      /\ Older(r).value = r.value /\ Older(r).unit = r.unit
      /\ Older(r).soc = r.soc /\ Older(r).socUnit = r.socUnit
  BY <1>2
<1>4. IsRow(Older(r))
  BY <1>1, <1>2, <1>3 DEF IsRow
<1> QED
  BY <1>3, <1>4 DEF a

LEMMA TimeKeepsRows ==
  /\ \A r \in NewRows : r \in RowsOverTime
  /\ \A q \in RowsOverTime : Older(q) \in RowsOverTime
<1> DEFINE At(r, age) == [r EXCEPT !.age = age]
<1>1. \A r \in NewRows : r.age \in Int /\ r.age <= MaxAge /\ IsRow(r)
  BY RowsAssumption DEF IsRow
<1>2. ASSUME NEW r \in NewRows, NEW age \in r.age .. MaxAge PROVE At(r, age) \in RowsOverTime
  BY DEF RowsOverTime
<1>3. ASSUME NEW r \in NewRows PROVE r \in RowsOverTime
  <2>1. r = At(r, r.age)
    BY <1>1 DEF IsRow
  <2>2. r.age \in r.age .. MaxAge
    BY <1>1, RowsAssumption
  <2> HIDE DEF At
  <2> QED
    BY <1>2, <2>1, <2>2
<1>4. ASSUME NEW q \in RowsOverTime PROVE Older(q) \in RowsOverTime
  <2>1. PICK r \in NewRows : \E age \in r.age .. MaxAge : q = At(r, age)
    BY DEF RowsOverTime
  <2> PICK age \in r.age .. MaxAge : q = At(r, age)
    BY <2>1
  <2> DEFINE a == IF age < MaxAge THEN age + 1 ELSE MaxAge
  <2>2. a \in r.age .. MaxAge /\ age \in Int
    BY <1>1, RowsAssumption
  <2>3. Older(q) = At(r, a)
    <3>1. q.age = age
      BY <1>1, <2>1 DEF IsRow
    <3>2. At(q, a) = At(r, a)
      BY <1>1, <2>1 DEF IsRow
    <3> QED
      BY <3>1, <3>2 DEF Older
  <2> HIDE DEF At, a
  <2> QED
    BY <1>2, <2>2, <2>3
<1> QED
  BY <1>3, <1>4

LEMMA AgedRows ==
  ASSUME IsFiniteSet(rows)
  PROVE  IsFiniteSet({Older(r) : r \in rows})
<1> DEFINE T == {Older(r) : r \in rows}
           f == [r \in rows |-> Older(r)]
<1>1. f \in Surjection(rows, T)
  BY DEF Surjection
<1> HIDE DEF T, f
<1>2. IsFiniteSet(T)
  BY <1>1, FS_Surjection
<1> QED
  BY <1>2 DEF T

LEMMA StaysOK == IInv /\ [Next]_vars => IInv'
<1> SUFFICES ASSUME IInv, [Next]_vars PROVE IInv'
  OBVIOUS
<1> USE DEF IInv
<1>1. ASSUME UNCHANGED slot PROVE SlotOK'
  BY <1>1 DEF SlotOK
<1>2. ASSUME UNCHANGED <<provider, rows>> PROVE DataOK'
  BY <1>2 DEF DataOK, IsProvider, IsRow
<1>3. CASE \E s \in Payloads : ReplaceSlots(s)
  <2>1. PICK s \in Payloads : ReplaceSlots(s)
    BY <1>3
  <2>2. slot' = StoredSlot(s) /\ ValidPayload(s) /\ UNCHANGED <<provider, rows>>
    BY <2>1 DEF ReplaceSlots, Storable
  <2>3. SlotOK'
    BY <2>2, StoredSlotOK DEF SlotOK
  <2> QED
    BY <1>2, <2>2, <2>3
<1>4. CASE \E p \in Providers \cup {None} : SetPowerProvider(p)
  <2>1. PICK p \in Providers \cup {None} : SetPowerProvider(p)
    BY <1>4
  <2>2. provider' = p /\ rows' = {} /\ UNCHANGED slot
    BY <2>1 DEF SetPowerProvider
  <2>3. DataOK'
    BY <2>2, RowsAssumption, FS_EmptySet DEF DataOK
  <2> QED
    BY <1>1, <2>2, <2>3
<1>5. CASE \E enabled \in BOOLEAN : SetEnabled(enabled)
  <2>1. PICK enabled \in BOOLEAN : SetEnabled(enabled)
    BY <1>5
  <2>2. /\ provider # None /\ provider' = [provider EXCEPT !.enabled = enabled]
        /\ UNCHANGED <<slot, rows>>
    BY <2>1 DEF SetEnabled
  <2>3. IsProvider(provider)
    BY <2>2 DEF DataOK
  <2>4. /\ provider' = [enabled |-> enabled, interval |-> provider.interval, unit |-> provider.unit]
        /\ provider.interval # None => provider.interval \in Int /\ provider.interval < MaxAge
    BY <2>2, <2>3 DEF IsProvider
  <2>5. IsProvider(provider')
    BY <2>4 DEF IsProvider
  <2>6. DataOK'
    BY <2>2, <2>5 DEF DataOK
  <2> QED
    BY <1>1, <2>2, <2>6
<1>6. CASE \E unit \in Units : UpdateUnit(unit)
  <2>1. PICK unit \in Units : UpdateUnit(unit)
    BY <1>6
  <2>2. /\ provider # None /\ provider' = [provider EXCEPT !.unit = unit]
        /\ UNCHANGED <<slot, rows>>
    BY <2>1 DEF UpdateUnit
  <2>3. IsProvider(provider)
    BY <2>2 DEF DataOK
  <2>4. /\ provider' = [enabled |-> provider.enabled, interval |-> provider.interval, unit |-> unit]
        /\ provider.interval # None => provider.interval \in Int /\ provider.interval < MaxAge
        /\ provider.enabled \in BOOLEAN
    BY <2>2, <2>3 DEF IsProvider
  <2>5. IsProvider(provider')
    BY <2>4 DEF IsProvider
  <2>6. DataOK'
    BY <2>2, <2>5 DEF DataOK
  <2> QED
    BY <1>1, <2>2, <2>6
<1>7. CASE \E r \in NewRows : SaveMeasurement(r)
  <2>1. PICK r \in NewRows : SaveMeasurement(r)
    BY <1>7
  <2>2. provider # None /\ rows' = rows \cup {r} /\ UNCHANGED <<slot, provider>>
    BY <2>1 DEF SaveMeasurement
  <2>3. IsFiniteSet(rows')
    BY <2>2, FS_AddElement DEF DataOK
  <2>4. \A q \in rows' : IsRow(q) /\ q \in RowsOverTime
    BY <2>2, RowsAssumption, TimeKeepsRows DEF DataOK
  <2>5. DataOK'
    BY <2>2, <2>3, <2>4 DEF DataOK
  <2> QED
    BY <1>1, <2>2, <2>5
<1>8. CASE Tick
  <2>1. rows' = {Older(r) : r \in rows} /\ UNCHANGED <<slot, provider>>
    BY <1>8 DEF Tick
  <2>2. IsFiniteSet(rows')
    BY <2>1, AgedRows DEF DataOK
  <2>3. \A q \in rows' : IsRow(q) /\ q \in RowsOverTime
    BY <2>1, OlderIsRow, TimeKeepsRows DEF DataOK
  <2>4. DataOK'
    BY <2>1, <2>2, <2>3 DEF DataOK
  <2> QED
    BY <1>1, <2>1, <2>4
<1>9. CASE UNCHANGED vars
  BY <1>1, <1>2, <1>9 DEF vars
<1> QED
  BY <1>3, <1>4, <1>5, <1>6, <1>7, <1>8, <1>9 DEF Next

\* The state decide reads is always of the kind its proofs need.
THEOREM Invariance == Spec => []IInv
BY StartsOK, StaysOK, PTL DEF Spec

-----------------------------------------------------------------------------
(* What a condition reads, and what may be read for it.                      *)

LEMMA LatestRows ==
  ASSUME DataOK, NEW m \in LatestMeasurements, NEW s \in LatestSamples
  PROVE  /\ m # None => m \in rows /\ IsRow(m) /\ m.age \in Int
         /\ s # None => s.age \in Int /\ s.value \in Int
         /\ Typed(m, s)
<1> DEFINE S == {[age |-> r.age, value |-> r.soc, unit |-> r.socUnit] :
                   r \in {q \in rows : q.soc # None}}
<1>1. m # None => m \in rows
  BY DEF LatestMeasurements, Newest
<1>2. \A x \in S : x.age \in Int /\ x.value \in Int
  BY DEF DataOK, IsRow
<1>3. s \in Newest(S)
  BY DEF LatestSamples, Sample
<1> HIDE DEF S
<1>4. s # None => s \in S
  BY <1>3 DEF Newest
<1> QED
  BY <1>1, <1>2, <1>4 DEF Typed, DataOK, IsRow

LEMMA LatestTyped ==
  DataOK => \A m \in LatestMeasurements, s \in LatestSamples : Typed(m, s)
BY LatestRows

LEMMA LatestStayTyped ==
  (DataOK => \A m \in LatestMeasurements, s \in LatestSamples : Typed(m, s))'
BY LatestTyped, PTL

\* A condition has data exactly when there is one value its source can have, and
\* that is the value it is evaluated on.
LEMMA ReadsAreEvaluated ==
  ASSUME DataOK, NEW m \in LatestMeasurements, NEW s \in LatestSamples, UnitKnown(m),
         NEW c \in Items, IsCondition(c)
  PROVE  /\ Gap(c, provider, m, s) = None =>
              Reads(c, m, s) = {Reading(c, provider, m, s)}
         /\ Gap(c, provider, m, s) # None =>
              Reads(c, m, s) = IF OnPower(c) THEN PowerLevels ELSE SocLevels
         /\ Threshold(c) = Wanted(c)
<1>1. c.unit \in PowerUnits <=> OnPower(c)
  BY ItemsAssumption DEF IsStoredCondition, PowerUnits
<1>2. ~OnPower(c) => c.unit = "%"
  BY ItemsAssumption DEF IsStoredCondition
<1>3. Threshold(c) = Wanted(c)
  BY <1>1, <1>2 DEF Threshold, Wanted, PowerUnits
<1>4. provider # None => /\ provider.enabled \in BOOLEAN
                         /\ provider.interval # None => provider.interval \in Int
  BY DEF DataOK, IsProvider
<1>5. /\ m # None => m.age \in Int
      /\ s # None => s.age \in Int
  BY LatestRows
<1>6. ProviderGap(provider) = None <=>
        /\ provider # None /\ provider.enabled /\ provider.interval # None
        /\ provider.interval > 0
  <2>1. {"POWER_PROVIDER_UNAVAILABLE", "POWER_INTERVAL_MISSING"} \subseteq Gaps
    BY DEF Gaps
  <2> QED
    BY <1>4, <2>1, NoneAssumption DEF ProviderGap
<1>7. ASSUME NEW row, row # None => row.age \in Int
      PROVE  Fresh(row) <=> ProviderGap(provider) = None /\ row # None /\ ~Stale(provider, row)
  BY <1>4, <1>6, <1>7 DEF Fresh, Stale
<1>8. CASE OnPower(c)
  <2>1. Gap(c, provider, m, s) = None <=>
          /\ ProviderGap(provider) = None
          /\ m # None /\ ~Stale(provider, m) /\ m.value # None
          /\ UnitOf(c, provider, m) \in PowerUnits
    <3>1. Gap(c, provider, m, s) = None <=>
            ProviderGap(provider) = None /\ PowerGap(c, provider, m) = None
      BY <1>8 DEF Gap
    <3>2. PowerGap(c, provider, m) = None <=>
            /\ m # None /\ ~Stale(provider, m) /\ m.value # None
            /\ UnitOf(c, provider, m) \in PowerUnits
      BY NoneAssumption DEF PowerGap, Gaps
    <3> QED
      BY <3>1, <3>2
  <2>2. m # None => PowerUnit(m) = UnitOf(c, provider, m)
    BY DEF UnitKnown, PowerUnit, UnitOf
  <2>3. Gap(c, provider, m, s) = None <=>
          Fresh(m) /\ m.value # None /\ PowerUnit(m) \in PowerUnits
    BY <1>5, <1>7, <2>1, <2>2
  <2>4. Reads(c, m, s) = PossiblePower(m)
    BY <1>8 DEF Reads
  <2>5. Gap(c, provider, m, s) = None =>
          Reading(c, provider, m, s) = m.value * Watts(PowerUnit(m))
    BY <1>8, <2>1, <2>2 DEF Reading
  <2> QED
    BY <1>3, <1>8, <2>3, <2>4, <2>5 DEF PossiblePower
<1>9. CASE ~OnPower(c)
  <2>1. Gap(c, provider, m, s) = None <=>
          ProviderGap(provider) = None /\ SocGap(c, provider, s) = None
    BY <1>9 DEF Gap
  <2>2. SocGap(c, provider, s) = None <=>
          s # None /\ ~Stale(provider, s) /\ s.unit \in {None, "%"}
    BY <1>2, <1>9, NoneAssumption DEF SocGap, Gaps
  <2>3. Gap(c, provider, m, s) = None <=> Fresh(s) /\ s.unit \in {None, "%"}
    BY <1>5, <1>7, <2>1, <2>2
  <2>4. Reads(c, m, s) = PossibleSoc(s) /\ Reading(c, provider, m, s) = s.value
    BY <1>9 DEF Reads, Reading
  <2> QED
    BY <1>3, <1>9, <2>3, <2>4 DEF PossibleSoc
<1> QED
  BY <1>8, <1>9

\* The number of values a condition may read tells whether it has data.
LEMMA OneReading ==
  ASSUME DataOK, NEW m \in LatestMeasurements, NEW s \in LatestSamples, UnitKnown(m),
         NEW c \in Items, IsCondition(c)
  PROVE  Cardinality(Reads(c, m, s)) = 1 <=> Gap(c, provider, m, s) = None
<1> DEFINE R == Reads(c, m, s)
           L == IF OnPower(c) THEN PowerLevels ELSE SocLevels
<1>1. CASE Gap(c, provider, m, s) = None
  <2>1. R = {Reading(c, provider, m, s)}
    BY <1>1, ReadsAreEvaluated
  <2> HIDE DEF R
  <2>2. Cardinality(R) = 1
    BY <2>1, FS_Singleton
  <2> QED
    BY <1>1, <2>2 DEF R
<1>2. CASE Gap(c, provider, m, s) # None
  <2>1. R = L
    BY <1>2, ReadsAreEvaluated
  <2>2. IsFiniteSet(L) /\ \E x, y \in L : x # y
    BY LevelsAssumption
  <2> HIDE DEF R, L
  <2>3. Cardinality(L) # 1
    BY <2>2, FS_Singleton
  <2> QED
    BY <1>2, <2>1, <2>3 DEF R
<1> QED
  BY <1>1, <1>2

LEMMA DecideByRule ==
  ASSUME NEW m, NEW s, Typed(m, s), RuleOf(slot) # None, IsRule(RuleOf(slot))
  PROVE  LET e == Evaluation(provider, m, s)[RuleOf(slot)]
             d == Decide(m, s) IN
         /\ RuleOf(slot) \in Items /\ ~IsCondition(RuleOf(slot))
         /\ e \in Outcomes
         /\ d.kind = "ALLOW_ON" <=> e.met = "met"
         /\ d.kind = "SKIP_THRESHOLD_NOT_MET" <=> e.met = "unmet"
         /\ d.kind = "SKIP_NO_POWER_DATA" <=> e.met = "unknown"
         /\ e.met # "met" => d.reason = e.reason
         /\ d.value = e.value
<1> DEFINE rule == RuleOf(slot)
           e == Evaluation(provider, m, s)[rule]
<1>1. rule \in Items /\ ~IsCondition(rule)
  BY DEF IsRule
<1>2. Evaluation(provider, m, s) \in [Items -> Outcomes]
  BY EvaluationExact
<1> HIDE DEF rule
<1>3. e \in Outcomes
  BY <1>1, <1>2
<1>4. Decide(m, s) = Decision(e)
  BY DEF Decide, EvaluateItem, rule
<1> HIDE DEF e
<1>5. e.met \in {"met", "unmet", "unknown"}
  BY <1>3 DEF Outcomes, MetValues
<1> QED
  BY <1>1, <1>3, <1>4, <1>5 DEF Decision, e, rule

-----------------------------------------------------------------------------
\* The readings of a condition with data are what the world may be.
LEMMA HoldsInIsTruth ==
  ASSUME DataOK, NEW m \in LatestMeasurements, NEW s \in LatestSamples, UnitKnown(m),
         NEW power \in PossiblePower(m), NEW soc \in PossibleSoc(s)
  PROVE  \E truth \in [Items -> BOOLEAN] :
           /\ Truth(Items, truth, provider, m, s)
           /\ \A item \in Items : truth[item] = HoldsIn(item, power, soc)
<1> DEFINE C == {c \in Items : IsCondition(c) /\
                   Matches(c.comparator, IF OnPower(c) THEN power ELSE soc, Wanted(c))}
           truth == Holding(C)
<1>1. truth \in [Items -> BOOLEAN]
  BY HoldingExact
<1>2. \A item \in Items : truth[item] = HoldsIn(item, power, soc)
  BY DEF HoldsIn
<1>3. ASSUME NEW c \in Items, IsCondition(c), Gap(c, provider, m, s) = None
      PROVE  truth[c] <=> Matches(c.comparator, Reading(c, provider, m, s), Threshold(c))
  <2>1. Reads(c, m, s) = {Reading(c, provider, m, s)} /\ Threshold(c) = Wanted(c)
    BY <1>3, ReadsAreEvaluated
  <2>2. (IF OnPower(c) THEN power ELSE soc) = Reading(c, provider, m, s)
    BY <2>1 DEF Reads
  <2>3. truth[c] <=> c \in C
    BY <1>3, HoldingExact
  <2> HIDE DEF truth
  <2>4. c \in C <=> Matches(c.comparator, Reading(c, provider, m, s), Threshold(c))
    BY <1>3, <2>1, <2>2
  <2> QED
    BY <2>3, <2>4
<1>4. Truth(Items, truth, provider, m, s)
  <2>1. \A item \in Items : ~IsCondition(item) =>
          (truth[item] <=>
             IF item.operator = "ALL"
             THEN \A i \in DOMAIN item.items : truth[item.items[i]]
             ELSE \E i \in DOMAIN item.items : truth[item.items[i]])
    BY HoldingExact
  <2> HIDE DEF truth
  <2> QED
    BY <1>3, <2>1 DEF Truth
<1> HIDE DEF truth
<1> QED
  BY <1>1, <1>2, <1>4

\* A device with a rule is switched on only on evidence: whatever the power and
\* the charge may be, given the newest fresh rows, the rule holds
\* (SchedulerDecisionService.decide).
THEOREM OnlyOnEvidence == Spec => []OnNeedsEvidence
<1>1. IInv => OnNeedsEvidence
  <2> SUFFICES ASSUME IInv, NEW m \in LatestMeasurements, NEW s \in LatestSamples,
                      UnitKnown(m), RuleOf(slot) # None, Decide(m, s).kind = "ALLOW_ON",
                      NEW power \in PossiblePower(m), NEW soc \in PossibleSoc(s)
               PROVE  HoldsIn(RuleOf(slot), power, soc)
    BY DEF OnNeedsEvidence
  <2>1. DataOK /\ IsRule(RuleOf(slot)) /\ Typed(m, s)
    BY LatestRows DEF IInv, SlotOK, ColumnsOK
  <2> DEFINE rule == RuleOf(slot)
             e == Evaluation(provider, m, s)
  <2>2. rule \in Items /\ e[rule].met = "met"
    BY <2>1, DecideByRule
  <2>3. e \in [Items -> Outcomes] /\ Evaluated(Items, e, provider, m, s)
    BY <2>1, EvaluationExact
  <2>4. PICK truth \in [Items -> BOOLEAN] :
          /\ Truth(Items, truth, provider, m, s)
          /\ \A item \in Items : truth[item] = HoldsIn(item, power, soc)
    BY <2>1, HoldsInIsTruth
  <2> HIDE DEF rule, e
  <2>5. \A item \in Items : e[item].met = "met" => truth[item]
    BY <2>3, <2>4, RulesAreRules, MetNeedsEvidence
  <2>6. truth[rule]
    BY <2>2, <2>5
  <2> QED
    BY <2>2, <2>4, <2>6 DEF rule
<1> QED
  BY <1>1, Invariance, PTL

LEMMA ConditionsAreConditions ==
  ASSUME NEW item \in Items, NEW c \in Conditions[item]
  PROVE  c \in Items /\ IsCondition(c)
<1> DEFINE Good == {x \in Items : \A d \in Conditions[x] : IsCondition(d)}
<1>1. \A x \in Items :
        (IsCondition(x) \/ \A i \in DOMAIN x.items : x.items[i] \in Good) => x \in Good
  BY ConditionsExact
<1>2. Good \in SUBSET Items
  OBVIOUS
<1> HIDE DEF Good
<1>3. Good = Items
  BY <1>1, <1>2, RulesAreRules, RuleInduction
<1> QED
  BY <1>3, ConditionsExact DEF Good

\* What holds of rules with data for every condition holds of a rule with data
\* for its own.
LEMMA OwnDataDecides ==
  ASSUME NEW p, NEW m, NEW s, Typed(m, s),
         NEW truth \in [Items -> BOOLEAN], Truth(Items, truth, p, m, s),
         NEW rule \in Items, \A c \in Conditions[rule] : Gap(c, p, m, s) = None
  PROVE  Evaluation(p, m, s)[rule].met = IF truth[rule] THEN "met" ELSE "unmet"
<1> DEFINE S == {item \in Items : \A c \in Conditions[item] : Gap(c, p, m, s) = None}
           e == Evaluation(p, m, s)
           depth == [item \in S |-> Depth[item]]
           eS == [item \in S |-> e[item]]
           tS == [item \in S |-> truth[item]]
<1>1. e \in [Items -> Outcomes] /\ Evaluated(Items, e, p, m, s)
  BY EvaluationExact
<1>2. S \subseteq Items /\ rule \in S
  OBVIOUS
<1>3. \A item \in S : ~IsCondition(item) => \A i \in DOMAIN item.items : item.items[i] \in S
  <2> SUFFICES ASSUME NEW item \in S, ~IsCondition(item), NEW i \in DOMAIN item.items
               PROVE  item.items[i] \in S
    OBVIOUS
  <2>1. item.items[i] \in Items
    BY RulesAreRules DEF Rule
  <2>2. Conditions[item.items[i]] \subseteq Conditions[item]
    BY ConditionsExact
  <2> QED
    BY <2>1, <2>2
<1>4. \A c \in S : IsCondition(c) => Gap(c, p, m, s) = None
  BY ConditionsExact
<1> HIDE DEF S, e
<1>5. /\ depth \in [S -> Nat] /\ eS \in [S -> Outcomes] /\ tS \in [S -> BOOLEAN]
      /\ \A item \in S : depth[item] = Depth[item] /\ eS[item] = e[item] /\ tS[item] = truth[item]
  BY <1>1, <1>2, RulesAreRules
<1> HIDE DEF depth, eS, tS
<1>6. Rule(S, depth)
  <2> SUFFICES ASSUME NEW item \in S, ~IsCondition(item)
               PROVE  /\ item.operator \in Operators
                      /\ item.items \in Seq(S) /\ item.items # <<>>
                      /\ \A i \in DOMAIN item.items : depth[item.items[i]] < depth[item]
    BY DEF Rule
  <2>1. /\ item.operator \in Operators /\ item.items \in Seq(Items) /\ item.items # <<>>
        /\ \A i \in DOMAIN item.items : Depth[item.items[i]] < Depth[item]
    BY <1>2, RulesAreRules DEF Rule
  <2>2. \A i \in DOMAIN item.items : item.items[i] \in S
    BY <1>3
  <2>3. item.items \in Seq(S)
    <3> DEFINE n == Len(item.items)
    <3>1. n \in Nat /\ DOMAIN item.items = 1..n /\ item.items \in [1..n -> Items]
      BY <2>1
    <3> HIDE DEF n
    <3>2. item.items \in [1..n -> S]
      BY <2>2, <3>1
    <3> QED
      BY <3>1, <3>2
  <2> QED
    BY <1>5, <2>1, <2>2, <2>3
<1>7. Evaluated(S, eS, p, m, s)
  <2> SUFFICES ASSUME NEW item \in S
               PROVE  eS[item] = IF IsCondition(item) THEN EvaluateCondition(item, p, m, s)
                                 ELSE Combine(item.operator, OutcomesOf(item, eS))
    BY DEF Evaluated
  <2>1. e[item] = IF IsCondition(item) THEN EvaluateCondition(item, p, m, s)
                  ELSE Combine(item.operator, OutcomesOf(item, e))
    BY <1>1, <1>2 DEF Evaluated
  <2>2. ~IsCondition(item) => OutcomesOf(item, eS) = OutcomesOf(item, e)
    BY <1>3, <1>5 DEF OutcomesOf
  <2> QED
    BY <1>5, <2>1, <2>2
<1>8. Truth(S, tS, p, m, s)
  BY <1>2, <1>3, <1>5 DEF Truth
<1>9. \A item \in S : eS[item].met = IF tS[item] THEN "met" ELSE "unmet"
  BY <1>4, <1>5, <1>6, <1>7, <1>8, DataDecides
<1> QED
  BY <1>2, <1>5, <1>9 DEF e

LEMMA SomethingIsPossible ==
  ASSUME NEW m, NEW s
  PROVE  PossiblePower(m) # {} /\ PossibleSoc(s) # {}
BY LevelsAssumption DEF PossiblePower, PossibleSoc

\* With data for every source of the rule the decision is the truth of the rule
\* (SchedulerDecisionService.decide).
THEOREM DataIsDecisive == Spec => []CompleteDataDecides
<1>1. IInv => CompleteDataDecides
  <2> DEFINE rule == RuleOf(slot)
             sources == {c.source : c \in Conditions[rule]}
  <2> SUFFICES ASSUME IInv, NEW m \in LatestMeasurements, NEW s \in LatestSamples,
                      rule # None, UnitKnown(m),
                      "provider_primary_power" \in sources => Cardinality(PossiblePower(m)) = 1,
                      "provider_battery_soc" \in sources => Cardinality(PossibleSoc(s)) = 1
               PROVE  Decide(m, s).kind =
                        IF \E w \in PossiblePower(m), c \in PossibleSoc(s) : HoldsIn(rule, w, c)
                        THEN "ALLOW_ON" ELSE "SKIP_THRESHOLD_NOT_MET"
    BY DEF CompleteDataDecides
  <2>1. DataOK /\ IsRule(rule) /\ Typed(m, s)
    BY LatestRows DEF IInv, SlotOK, ColumnsOK
  <2> DEFINE e == Evaluation(provider, m, s)
  <2>2. /\ rule \in Items
        /\ Decide(m, s).kind = "ALLOW_ON" <=> e[rule].met = "met"
        /\ Decide(m, s).kind = "SKIP_THRESHOLD_NOT_MET" <=> e[rule].met = "unmet"
    BY <2>1, DecideByRule
  <2>3. \A c \in Conditions[rule] : Gap(c, provider, m, s) = None
    <3> SUFFICES ASSUME NEW c \in Conditions[rule] PROVE Gap(c, provider, m, s) = None
      OBVIOUS
    <3>1. c \in Items /\ IsCondition(c)
      BY <2>2, ConditionsAreConditions
    <3>2. c.source \in sources /\ c.source \in Sources
      BY <3>1, ItemsAssumption DEF IsStoredCondition
    <3>3. Cardinality(Reads(c, m, s)) = 1
      BY <3>2 DEF Reads, OnPower, Sources
    <3> QED
      BY <2>1, <3>1, <3>3, OneReading
  <2> HIDE DEF rule, sources, e
  <2>4. ASSUME NEW w \in PossiblePower(m), NEW c \in PossibleSoc(s)
        PROVE  e[rule].met = IF HoldsIn(rule, w, c) THEN "met" ELSE "unmet"
    <3>1. PICK truth \in [Items -> BOOLEAN] :
            /\ Truth(Items, truth, provider, m, s)
            /\ \A item \in Items : truth[item] = HoldsIn(item, w, c)
      BY <2>1, HoldsInIsTruth
    <3>2. e[rule].met = IF truth[rule] THEN "met" ELSE "unmet"
      BY <2>1, <2>2, <2>3, <3>1, OwnDataDecides DEF e
    <3> QED
      BY <2>2, <3>1, <3>2
  <2>5. PossiblePower(m) # {} /\ PossibleSoc(s) # {}
    BY SomethingIsPossible
  <2>6. CASE \E w \in PossiblePower(m), c \in PossibleSoc(s) : HoldsIn(rule, w, c)
    BY <2>2, <2>4, <2>6
  <2>7. CASE ~ \E w \in PossiblePower(m), c \in PossibleSoc(s) : HoldsIn(rule, w, c)
    <3>1. PICK w \in PossiblePower(m), c \in PossibleSoc(s) : TRUE
      BY <2>5
    <3>2. e[rule].met = "unmet"
      BY <2>4, <2>7, <3>1
    <3> QED
      BY <2>2, <2>7, <3>2
  <2> QED
    BY <2>6, <2>7
<1> QED
  BY <1>1, Invariance, PTL

\* The threshold columns of a stored slot follow its rule: set exactly when the
\* rule is a plain threshold, they state it within half of the last digit the
\* column keeps; and a slot sent back as the API returned it keeps its rule
\* (SchedulerSlotIn.normalize_and_validate, SchedulerSlot.power_threshold_value).
THEOREM ColumnsAgree == Spec => []ColumnsFollowRule
<1>1. IInv => ColumnsFollowRule
  <2> SUFFICES ASSUME IInv PROVE ColumnsFollowRule
    OBVIOUS
  <2> DEFINE rule == slot.rule
             c == rule.items[1]
             Stated == /\ rule = LegacyRule(c.value, slot.unit)
                       /\ 2 * (slot.value - c.value) <= ColumnUnit
                       /\ 2 * (c.value - slot.value) <= ColumnUnit
             Unset == /\ slot.value = None /\ slot.unit = None
                      /\ \A d \in Items : IsCondition(d) => rule # LegacyRule(d.value, d.unit)
  <2>1. ASSUME rule # None
        PROVE  /\ rule \in Items /\ ~IsCondition(rule)
               /\ slot.use_power_threshold = IsLegacy(rule)
               /\ slot.value = IF IsLegacy(rule) THEN Column(c.value) ELSE None
               /\ slot.unit = IF IsLegacy(rule) THEN c.unit ELSE None
    BY <2>1 DEF IInv, SlotOK, ColumnsOK
  <2>2. ASSUME rule # None
        PROVE  rule = Group(rule.operator, rule.items) /\ rule.items \in Seq(Items)
    BY <2>1, <2>2, ItemsAssumption DEF IsStoredGroup
  <2>3. ASSUME rule # None, IsLegacy(rule) PROVE Stated
    <3>1. /\ rule.operator = "ANY" /\ Len(rule.items) = 1 /\ IsCondition(c)
          /\ OnPower(c) /\ c.comparator = "gte"
      BY <2>3 DEF IsLegacy
    <3>2. c \in Items
      BY <2>2, <2>3, <3>1
    <3>3. c = Condition("provider_primary_power", "gte", c.value, c.unit) /\ c.value \in Int
      <4>1. c = Condition(c.source, c.comparator, c.value, c.unit) /\ c.value \in Nat
        BY <3>1, <3>2, ItemsAssumption DEF IsStoredCondition
      <4>2. c.source = "provider_primary_power" /\ c.comparator = "gte"
        BY <3>1 DEF OnPower
      <4> HIDE DEF c
      <4> QED
        BY <4>1, <4>2
    <3>4. rule.items = <<c>>
      BY <2>2, <2>3, <3>1
    <3>5. rule = Group("ANY", <<c>>)
      BY <2>2, <2>3, <3>1, <3>4
    <3>6. slot.value = Column(c.value) /\ slot.unit = c.unit
      BY <2>1, <2>3
    <3>7. /\ 2 * (Column(c.value) - c.value) <= ColumnUnit
          /\ 2 * (c.value - Column(c.value)) <= ColumnUnit
      BY <3>3, ColumnIsNear
    <3> HIDE DEF rule, c
    <3> QED
      BY <3>3, <3>5, <3>6, <3>7 DEF LegacyRule
  <2>4. ASSUME NEW v, NEW u, LegacyRule(v, u) = rule, rule # None PROVE IsLegacy(rule)
    <3> DEFINE d == Condition("provider_primary_power", "gte", v, u)
    <3>1. rule.operator = "ANY" /\ rule.items = <<d>>
      BY <2>4 DEF LegacyRule, Group
    <3>2. Len(rule.items) = 1 /\ rule.items[1] = d
      BY <3>1
    <3>3. IsCondition(d) /\ OnPower(d) /\ d.comparator = "gte"
      BY DEF Condition, IsCondition, OnPower
    <3> HIDE DEF d
    <3> QED
      BY <2>4, <3>1, <3>2, <3>3 DEF IsLegacy
  <2>5. ASSUME rule # None, ~IsLegacy(rule) PROVE Unset
    BY <2>1, <2>4, <2>5
  <2>6. rule # None => IF slot.use_power_threshold THEN Stated ELSE Unset
    <3> HIDE DEF Stated, Unset
    <3> QED
      BY <2>1, <2>3, <2>5
  <2>7. ASSUME slot.use_power_threshold, ValidPayload(ColumnsOnly)
        PROVE  LET again == StoredSlot(ColumnsOnly) IN
               /\ again.use_power_threshold
               /\ again.value = slot.value /\ again.unit = slot.unit
    <3> DEFINE sent == ColumnsOnly
               paid == PayloadRule(sent)
    <3>1. /\ sent.rule = None /\ sent.use_power_threshold
          /\ sent.value = slot.value /\ sent.unit = slot.unit
      BY <2>7 DEF IInv, SlotOK, ColumnsOK, ColumnsOnly
    <3>2. /\ slot.value # None /\ slot.value = Column(slot.value)
          /\ LegacyRule(slot.value, slot.unit) # None
      BY <2>7, <3>1 DEF IInv, SlotOK, ColumnsOK, ValidPayload
    <3> HIDE DEF sent
    <3>3. paid = LegacyRule(slot.value, slot.unit)
      BY <3>1 DEF PayloadRule
    <3>4. /\ paid # None => IsLegacy(paid)
          /\ paid.items[1].value = slot.value /\ paid.items[1].unit = slot.unit
      <4> DEFINE d == Condition("provider_primary_power", "gte", slot.value, slot.unit)
      <4>1. /\ IsCondition(d) /\ OnPower(d) /\ d.comparator = "gte"
            /\ d.value = slot.value /\ d.unit = slot.unit
        BY DEF Condition, IsCondition, OnPower
      <4>2. paid.operator = "ANY" /\ paid.items = <<d>>
        BY <3>3 DEF LegacyRule, Group
      <4> HIDE DEF d, paid
      <4>3. Len(paid.items) = 1 /\ paid.items[1] = d
        BY <4>2
      <4> QED
        BY <4>1, <4>2, <4>3 DEF IsLegacy
    <3>5. paid # None
      BY <3>2, <3>3
    <3> HIDE DEF paid
    <3>6. /\ StoredSlot(sent).use_power_threshold = IsLegacy(paid)
          /\ StoredSlot(sent).value = IF IsLegacy(paid) THEN Column(paid.items[1].value) ELSE None
          /\ StoredSlot(sent).unit = IF IsLegacy(paid) THEN paid.items[1].unit ELSE None
      BY DEF StoredSlot, paid
    <3> QED
      BY <3>2, <3>4, <3>5, <3>6 DEF sent
  <2> QED
    BY <2>6, <2>7 DEF ColumnsFollowRule
<1> QED
  BY <1>1, Invariance, PTL

\* The outcome of an item is that of one of its conditions.
LEMMA DecidedByCondition ==
  ASSUME NEW p, NEW m, NEW s, Typed(m, s), NEW rule \in Items
  PROVE  \E c \in Conditions[rule] :
           Evaluation(p, m, s)[rule] = EvaluateCondition(c, p, m, s)
<1> DEFINE e == Evaluation(p, m, s)
           Good == {item \in Items : \E c \in Conditions[item] : e[item] = EvaluateCondition(c, p, m, s)}
<1>1. e \in [Items -> Outcomes] /\ Evaluated(Items, e, p, m, s)
  BY EvaluationExact
<1> HIDE DEF e
<1>2. \A item \in Items : IsCondition(item) => item \in Good
  BY <1>1, ConditionsExact DEF Evaluated
<1>3. ASSUME NEW item \in Items, ~IsCondition(item), \A i \in DOMAIN item.items : item.items[i] \in Good
      PROVE  item \in Good
  <2> DEFINE es == OutcomesOf(item, e)
  <2>1. /\ e[item] = Combine(item.operator, es) /\ item.operator \in Operators
        /\ item.items \in Seq(Items) /\ item.items # <<>>
    BY <1>1, <1>3, RulesAreRules DEF Evaluated, Rule
  <2>2. /\ es \in Seq(Outcomes) /\ es # <<>> /\ DOMAIN es = DOMAIN item.items
        /\ \A i \in DOMAIN item.items : es[i] = e[item.items[i]]
    <3>1. item.items \in Seq(Items) /\ item.items # <<>>
      BY <2>1
    <3> HIDE DEF Good
    <3> QED
      BY <1>1, <3>1, ItemsOutcomes
  <2> HIDE DEF es
  <2>3. PICK i \in DOMAIN es : e[item] = es[i]
    BY <2>1, <2>2, DecidingItem
  <2>4. PICK c \in Conditions[item.items[i]] : e[item.items[i]] = EvaluateCondition(c, p, m, s)
    BY <1>3, <2>2, <2>3
  <2>5. c \in Conditions[item]
    BY <1>3, <2>2, <2>3, <2>4, ConditionsExact
  <2> QED
    BY <2>2, <2>3, <2>4, <2>5
<1>4. Good \in SUBSET Items
  OBVIOUS
<1> HIDE DEF Good
<1>5. Good = Items
  BY <1>2, <1>3, <1>4, RulesAreRules, RuleInduction
<1> QED
  BY <1>5 DEF Good, e

\* The rule with every condition without data counted as g.
Guess(truth, g, p, m, s) ==
  \A item \in Items :
    /\ IsCondition(item) =>
         (truth[item] <=> IF Gap(item, p, m, s) = None
                          THEN Matches(item.comparator, Reading(item, p, m, s), Threshold(item))
                          ELSE g)
    /\ ~IsCondition(item) =>
         (truth[item] <=> IF item.operator = "ALL"
                          THEN \A i \in DOMAIN item.items : truth[item.items[i]]
                          ELSE \E i \in DOMAIN item.items : truth[item.items[i]])

\* An outcome that is unknown would be decided by the data that is missing.
LEMMA UnknownIsOpen ==
  ASSUME NEW p, NEW m, NEW s, Typed(m, s),
         NEW rule \in Items, Evaluation(p, m, s)[rule].met = "unknown"
  PROVE  \A yes, no \in [Items -> BOOLEAN] :
           Guess(yes, TRUE, p, m, s) /\ Guess(no, FALSE, p, m, s) => yes[rule] /\ ~no[rule]
<1> SUFFICES ASSUME NEW yes \in [Items -> BOOLEAN], Guess(yes, TRUE, p, m, s),
                    NEW no \in [Items -> BOOLEAN], Guess(no, FALSE, p, m, s)
             PROVE  yes[rule] /\ ~no[rule]
  OBVIOUS
<1> DEFINE e == Evaluation(p, m, s)
           Good == {item \in Items : /\ e[item].met = "met" => yes[item] /\ no[item]
                                     /\ e[item].met = "unmet" => ~no[item]
                                     /\ e[item].met = "unknown" => yes[item] /\ ~no[item]}
<1>1. e \in [Items -> Outcomes] /\ Evaluated(Items, e, p, m, s)
  BY EvaluationExact
<1> HIDE DEF e
<1>2. ASSUME NEW item \in Items, IsCondition(item) PROVE item \in Good
  <2>1. e[item] = EvaluateCondition(item, p, m, s)
    BY <1>1, <1>2 DEF Evaluated
  <2> DEFINE gap == Gap(item, p, m, s)
             match == Matches(item.comparator, Reading(item, p, m, s), Threshold(item))
  <2>2. /\ e[item].met = "met" => gap = None /\ match
        /\ e[item].met = "unmet" => gap = None /\ ~match
        /\ e[item].met = "unknown" => gap # None
    BY <2>1 DEF EvaluateCondition
  <2>3. /\ yes[item] <=> IF gap = None THEN match ELSE TRUE
        /\ no[item] <=> IF gap = None THEN match ELSE FALSE
    BY <1>2 DEF Guess
  <2> HIDE DEF gap, match
  <2> QED
    BY <2>2, <2>3
<1>3. ASSUME NEW item \in Items, ~IsCondition(item), \A i \in DOMAIN item.items : item.items[i] \in Good
      PROVE  item \in Good
  <2> DEFINE es == OutcomesOf(item, e)
  <2>1. /\ e[item] = Combine(item.operator, es) /\ item.operator \in Operators
        /\ item.items \in Seq(Items) /\ item.items # <<>>
    BY <1>1, <1>3, RulesAreRules DEF Evaluated, Rule
  <2>2. /\ es \in Seq(Outcomes) /\ es # <<>> /\ DOMAIN es = DOMAIN item.items
        /\ \A i \in DOMAIN item.items : es[i] = e[item.items[i]]
    <3>1. item.items \in Seq(Items) /\ item.items # <<>>
      BY <2>1
    <3> HIDE DEF Good
    <3> QED
      BY <1>1, <3>1, ItemsOutcomes
  <2> HIDE DEF es
  <2>3. /\ 1 \in DOMAIN es
        /\ \A i \in DOMAIN es : es[i].met \in MetValues
    BY <2>2, GroupIsTyped
  <2>4. \A i \in DOMAIN es :
          /\ es[i].met = "met" => yes[item.items[i]] /\ no[item.items[i]]
          /\ es[i].met = "unmet" => ~no[item.items[i]]
          /\ es[i].met = "unknown" => yes[item.items[i]] /\ ~no[item.items[i]]
    BY <1>3, <2>2
  <2>5. CASE item.operator = "ALL"
    <3>1. /\ e[item].met = "met" <=> \A i \in DOMAIN es : es[i].met = "met"
          /\ e[item].met = "unmet" <=> \E i \in DOMAIN es : es[i].met = "unmet"
      BY <2>1, <2>2, <2>5, AllGroup DEF Has
    <3>2. /\ yes[item] <=> \A i \in DOMAIN es : yes[item.items[i]]
          /\ no[item] <=> \A i \in DOMAIN es : no[item.items[i]]
      BY <1>3, <2>2, <2>5 DEF Guess
    <3>3. e[item].met = "met" => yes[item] /\ no[item]
      BY <2>4, <3>1, <3>2
    <3>4. e[item].met = "unmet" => ~no[item]
      BY <2>4, <3>1, <3>2
    <3>5. ASSUME e[item].met = "unknown" PROVE yes[item] /\ ~no[item]
      <4>1. \A i \in DOMAIN es : es[i].met \in {"met", "unknown"}
        BY <2>3, <3>1, <3>5 DEF MetValues
      <4>2. PICK i \in DOMAIN es : es[i].met = "unknown"
        BY <2>3, <3>1, <3>5, <4>1
      <4> QED
        BY <2>4, <3>2, <4>1, <4>2
    <3> QED
      BY <3>3, <3>4, <3>5
  <2>6. CASE item.operator = "ANY"
    <3>1. /\ e[item].met = "met" <=> \E i \in DOMAIN es : es[i].met = "met"
          /\ e[item].met = "unknown" <=> \A i \in DOMAIN es : es[i].met = "unknown"
      BY <2>1, <2>2, <2>6, AnyGroup DEF Has
    <3>2. /\ yes[item] <=> \E i \in DOMAIN es : yes[item.items[i]]
          /\ no[item] <=> \E i \in DOMAIN es : no[item.items[i]]
      BY <1>3, <2>2, <2>6 DEF Guess
    <3>3. e[item].met = "met" => yes[item] /\ no[item]
      BY <2>4, <3>1, <3>2
    <3>4. ASSUME e[item].met = "unmet" PROVE ~no[item]
      <4>1. \A i \in DOMAIN es : es[i].met \in {"unmet", "unknown"}
        BY <2>3, <3>1, <3>4 DEF MetValues
      <4> QED
        BY <2>4, <3>2, <4>1
    <3>5. ASSUME e[item].met = "unknown" PROVE yes[item] /\ ~no[item]
      BY <2>3, <2>4, <3>1, <3>2, <3>5
    <3> QED
      BY <3>3, <3>4, <3>5
  <2> QED
    BY <2>1, <2>5, <2>6 DEF Operators
<1>4. Good \in SUBSET Items
  OBVIOUS
<1> HIDE DEF Good
<1>5. Good = Items
  BY <1>2, <1>3, <1>4, RulesAreRules, RuleInduction
<1> QED
  BY <1>5 DEF Good, e

LEMMA GuessedRule ==
  ASSUME DataOK, NEW m \in LatestMeasurements, NEW s \in LatestSamples, UnitKnown(m),
         NEW g \in BOOLEAN
  PROVE  \E truth \in [Items -> BOOLEAN] :
           /\ Guess(truth, g, provider, m, s)
           /\ \A item \in Items : truth[item] = HoldsIfUnknown(item, m, s, g)
<1> DEFINE C == {c \in Items : IsCondition(c) /\
                   IF Cardinality(Reads(c, m, s)) = 1
                   THEN \A x \in Reads(c, m, s) : Matches(c.comparator, x, Wanted(c))
                   ELSE g}
           truth == Holding(C)
<1>1. truth \in [Items -> BOOLEAN]
  BY HoldingExact
<1>2. \A item \in Items : truth[item] = HoldsIfUnknown(item, m, s, g)
  BY DEF HoldsIfUnknown
<1>3. ASSUME NEW c \in Items, IsCondition(c)
      PROVE  truth[c] <=> IF Gap(c, provider, m, s) = None
                          THEN Matches(c.comparator, Reading(c, provider, m, s), Threshold(c))
                          ELSE g
  <2>1. Cardinality(Reads(c, m, s)) = 1 <=> Gap(c, provider, m, s) = None
    BY <1>3, OneReading
  <2>2. /\ Gap(c, provider, m, s) = None => Reads(c, m, s) = {Reading(c, provider, m, s)}
        /\ Threshold(c) = Wanted(c)
    BY <1>3, ReadsAreEvaluated
  <2>3. truth[c] <=> c \in C
    BY <1>3, HoldingExact
  <2> HIDE DEF truth
  <2>4. c \in C <=> IF Gap(c, provider, m, s) = None
                    THEN Matches(c.comparator, Reading(c, provider, m, s), Threshold(c))
                    ELSE g
    BY <1>3, <2>1, <2>2
  <2> QED
    BY <2>3, <2>4
<1>4. Guess(truth, g, provider, m, s)
  <2>1. \A item \in Items : ~IsCondition(item) =>
          (truth[item] <=>
             IF item.operator = "ALL"
             THEN \A i \in DOMAIN item.items : truth[item.items[i]]
             ELSE \E i \in DOMAIN item.items : truth[item.items[i]])
    BY HoldingExact
  <2> HIDE DEF truth
  <2> QED
    BY <1>3, <2>1 DEF Guess
<1> HIDE DEF truth
<1> QED
  BY <1>1, <1>2, <1>4

\* What a skip is put down to is true: THRESHOLD_NOT_MET comes with the fresh
\* reading of a condition that fails on it, SKIP_NO_POWER_DATA only when the
\* missing data would decide (SchedulerDecisionService.decide, and what the loop
\* writes to the audit log from it).
THEOREM SkipsAreExplained == Spec => []SkipIsExplained
<1>1. IInv => SkipIsExplained
  <2> DEFINE rule == RuleOf(slot)
  <2> SUFFICES ASSUME IInv, NEW m \in LatestMeasurements, NEW s \in LatestSamples, UnitKnown(m)
               PROVE  /\ Decide(m, s).kind = "SKIP_THRESHOLD_NOT_MET" =>
                           \E c \in Conditions[rule] :
                             /\ Reads(c, m, s) = {Decide(m, s).value}
                             /\ ~Matches(c.comparator, Decide(m, s).value, Wanted(c))
                      /\ Decide(m, s).kind = "SKIP_NO_POWER_DATA" =>
                           /\ Decide(m, s).reason \notin {"THRESHOLD_NOT_MET", "SCHEDULER_MATCH"}
                           /\ HoldsIfUnknown(rule, m, s, TRUE)
                           /\ ~HoldsIfUnknown(rule, m, s, FALSE)
    BY DEF SkipIsExplained
  <2>1. DataOK /\ IsRule(rule) /\ Typed(m, s)
    BY LatestRows DEF IInv, SlotOK, ColumnsOK
  <2>2. CASE rule = None
    <3>1. Decide(m, s).kind = "ALLOW_ON"
      BY <2>2 DEF Decide, Unguarded
    <3> QED
      BY <3>1
  <2>3. CASE rule # None
    <3> DEFINE e == Evaluation(provider, m, s)
               d == Decide(m, s)
    <3>1. /\ rule \in Items
          /\ d.kind = "SKIP_THRESHOLD_NOT_MET" <=> e[rule].met = "unmet"
          /\ d.kind = "SKIP_NO_POWER_DATA" <=> e[rule].met = "unknown"
          /\ e[rule].met # "met" => d.reason = e[rule].reason
          /\ d.value = e[rule].value
      BY <2>1, <2>3, DecideByRule
    <3>2. PICK c \in Conditions[rule] : e[rule] = EvaluateCondition(c, provider, m, s)
      BY <2>1, <3>1, DecidedByCondition
    <3>3. c \in Items /\ IsCondition(c)
      BY <3>1, ConditionsAreConditions
    <3> HIDE DEF d, e, rule
    <3>4. ASSUME d.kind = "SKIP_THRESHOLD_NOT_MET"
          PROVE  Reads(c, m, s) = {d.value} /\ ~Matches(c.comparator, d.value, Wanted(c))
      <4>1. EvaluateCondition(c, provider, m, s).met = "unmet"
        BY <3>1, <3>2, <3>4
      <4>2. /\ Gap(c, provider, m, s) = None
            /\ EvaluateCondition(c, provider, m, s).value = Reading(c, provider, m, s)
            /\ ~Matches(c.comparator, Reading(c, provider, m, s), Threshold(c))
        BY <4>1 DEF EvaluateCondition
      <4>3. Reads(c, m, s) = {Reading(c, provider, m, s)} /\ Threshold(c) = Wanted(c)
        BY <2>1, <3>3, <4>2, ReadsAreEvaluated
      <4>4. d.value = Reading(c, provider, m, s)
        BY <3>1, <3>2, <4>2
      <4> QED
        BY <4>2, <4>3, <4>4
    <3>5. ASSUME d.kind = "SKIP_NO_POWER_DATA"
          PROVE  /\ d.reason \notin {"THRESHOLD_NOT_MET", "SCHEDULER_MATCH"}
                 /\ HoldsIfUnknown(rule, m, s, TRUE) /\ ~HoldsIfUnknown(rule, m, s, FALSE)
      <4>1. e[rule].met = "unknown" /\ d.reason = e[rule].reason
        BY <3>1, <3>5
      <4>2. d.reason \in Gaps
        <5>1. /\ Gap(c, provider, m, s) # None
              /\ EvaluateCondition(c, provider, m, s).reason = Gap(c, provider, m, s)
          BY <3>2, <4>1 DEF EvaluateCondition
        <5>2. Gap(c, provider, m, s) \in Gaps \cup {None}
          BY DEF Gap, ProviderGap, PowerGap, SocGap, Gaps
        <5> QED
          BY <3>2, <4>1, <5>1, <5>2
      <4>3. PICK yes \in [Items -> BOOLEAN] :
              /\ Guess(yes, TRUE, provider, m, s)
              /\ \A item \in Items : yes[item] = HoldsIfUnknown(item, m, s, TRUE)
        BY <2>1, GuessedRule
      <4>4. PICK no \in [Items -> BOOLEAN] :
              /\ Guess(no, FALSE, provider, m, s)
              /\ \A item \in Items : no[item] = HoldsIfUnknown(item, m, s, FALSE)
        BY <2>1, GuessedRule
      <4>5. yes[rule] /\ ~no[rule]
        <5>1. Evaluation(provider, m, s)[rule].met = "unknown"
          BY <4>1 DEF e
        <5> QED
          BY <2>1, <3>1, <4>3, <4>4, <5>1, UnknownIsOpen
      <4>6. HoldsIfUnknown(rule, m, s, TRUE) /\ ~HoldsIfUnknown(rule, m, s, FALSE)
        BY <3>1, <4>3, <4>4, <4>5
      <4>7. d.reason \notin {"THRESHOLD_NOT_MET", "SCHEDULER_MATCH"}
        BY <4>2 DEF Gaps
      <4> QED
        BY <4>6, <4>7
    <3> QED
      BY <3>4, <3>5 DEF d
  <2> QED
    BY <2>2, <2>3
<1> QED
  BY <1>1, Invariance, PTL

-----------------------------------------------------------------------------
(* Time and late rows. *)

Aged(age) == IF age < MaxAge THEN age + 1 ELSE MaxAge

AgedBy(g, S) == {g[x] : x \in S}

\* A row that time leaves, or makes, the newest was the newest or is stale.
LEMMA NewestAged ==
  ASSUME NEW S, IsFiniteSet(S), \A x \in S : x.age \in Int,
         NEW g, \A x \in S : g[x].age = Aged(x.age),
         NEW y \in Newest(AgedBy(g, S))
  PROVE  \E x \in Newest(S) :
           \/ y = None
           \/ x \in S /\ (y = g[x] \/ y.age = MaxAge)
<1>1. CASE S = {}
  <2>1. Newest(S) = {None} /\ AgedBy(g, S) = {}
    BY <1>1 DEF Newest, AgedBy
  <2> QED
    BY <2>1 DEF Newest
<1>2. CASE S # {}
  <2>1. AgedBy(g, S) # {} /\ Newest(S) = {r \in S : \A q \in S : r.age <= q.age}
    BY <1>2 DEF Newest, AgedBy
  <2>2. \A z \in AgedBy(g, S) : y.age <= z.age
    BY <2>1 DEF Newest
  <2>3. y \in AgedBy(g, S)
    BY <2>1 DEF Newest
  <2>4. PICK x \in S : y = g[x]
    BY <2>3 DEF AgedBy
  <2>5. CASE y.age = MaxAge
    <3> DEFINE f == [r \in S |-> r.age]
    <3>1. f \in [S -> Int] /\ \A r \in S : f[r] = r.age
      OBVIOUS
    <3> HIDE DEF f
    <3>2. PICK r \in S : \A q \in S : f[r] <= f[q]
      BY <1>2, <3>1, LeastValue
    <3>3. r \in Newest(S)
      BY <2>1, <3>1, <3>2
    <3> QED
      BY <2>5, <3>3
  <2>6. CASE y.age # MaxAge
    <3>1. x.age < MaxAge /\ y.age = x.age + 1 /\ x.age + 1 # MaxAge
      BY <2>4, <2>6, RowsAssumption DEF Aged
    <3>2. ASSUME NEW q \in S PROVE x.age <= q.age
      <4>1. x.age + 1 <= Aged(q.age)
        BY <2>2, <3>1 DEF AgedBy
      <4> QED
        BY <3>1, <4>1, RowsAssumption DEF Aged
    <3>3. x \in Newest(S)
      BY <2>1, <3>2
    <3> QED
      BY <2>4, <3>3
  <2> QED
    BY <2>5, <2>6
<1> QED
  BY <1>1, <1>2

\* What time may make of the row a condition is evaluated on.
AgedRow(new, old) ==
  \/ new = None
  \/ new.age = MaxAge
  \/ /\ old # None /\ new.age = Aged(old.age)
     /\ new.value = old.value /\ new.unit = old.unit

LEMMA AgeingLosesOnly ==
  ASSUME NEW c, NEW p, p # None => IsProvider(p),
         NEW m, m # None => m.age \in Int, NEW m2, AgedRow(m2, m),
         NEW s, s # None => s.age \in Int, NEW s2, AgedRow(s2, s)
  PROVE  EvaluateCondition(c, p, m2, s2).met \in {EvaluateCondition(c, p, m, s).met, "unknown"}
<1> SUFFICES ASSUME Gap(c, p, m2, s2) = None
             PROVE  EvaluateCondition(c, p, m2, s2).met = EvaluateCondition(c, p, m, s).met
  BY DEF EvaluateCondition
<1>1. /\ ProviderGap(p) = None
      /\ p # None /\ p.interval # None
  <2>1. ProviderGap(p) = None
    BY DEF Gap
  <2> QED
    BY <2>1, NoneAssumption DEF ProviderGap, Gaps
<1>2. p.interval \in Int /\ p.interval < MaxAge
  BY <1>1 DEF IsProvider
<1>3. ASSUME NEW new, NEW old, AgedRow(new, old), old # None => old.age \in Int,
             new # None, ~Stale(p, new)
      PROVE  old # None /\ ~Stale(p, old) /\ new.value = old.value /\ new.unit = old.unit
  BY <1>2, <1>3, RowsAssumption DEF AgedRow, Aged, Stale
<1>4. Gap(c, p, m, s) = None /\ Reading(c, p, m2, s2) = Reading(c, p, m, s)
  <2>1. CASE OnPower(c)
    <3>1. PowerGap(c, p, m2) = None
      BY <1>1, <2>1 DEF Gap
    <3>2. m2 # None /\ ~Stale(p, m2) /\ m2.value # None /\ UnitOf(c, p, m2) \in PowerUnits
      BY <3>1, NoneAssumption DEF PowerGap, Gaps
    <3>3. m # None /\ ~Stale(p, m) /\ m2.value = m.value /\ m2.unit = m.unit
      BY <1>3, <3>2
    <3>4. UnitOf(c, p, m2) = UnitOf(c, p, m)
      BY <3>3 DEF UnitOf
    <3>5. PowerGap(c, p, m) = None
      BY <3>2, <3>3, <3>4 DEF PowerGap
    <3> QED
      BY <1>1, <2>1, <3>3, <3>4, <3>5 DEF Gap, Reading
  <2>2. CASE ~OnPower(c)
    <3>1. SocGap(c, p, s2) = None
      BY <1>1, <2>2 DEF Gap
    <3>2. s2 # None /\ ~Stale(p, s2) /\ s2.unit \in {None, c.unit}
      BY <3>1, NoneAssumption DEF SocGap, Gaps
    <3>3. s # None /\ ~Stale(p, s) /\ s2.value = s.value /\ s2.unit = s.unit
      BY <1>3, <3>2
    <3>4. SocGap(c, p, s) = None
      BY <3>2, <3>3 DEF SocGap
    <3> QED
      BY <1>1, <2>2, <3>3, <3>4 DEF Gap, Reading
  <2> QED
    BY <2>1, <2>2
<1> QED
  BY <1>4 DEF EvaluateCondition

Samples == {Sample(r) : r \in {q \in rows : q.soc # None}}

LEMMA SamplesAre ==
  /\ LatestSamples = Newest(Samples)
  /\ DataOK => IsFiniteSet(Samples) /\ \A x \in Samples : x.age \in Int /\ x # None
<1>1. LatestSamples = Newest(Samples)
  BY DEF LatestSamples, Samples
<1>2. ASSUME DataOK PROVE IsFiniteSet(Samples) /\ \A x \in Samples : x.age \in Int /\ x # None
  <2> DEFINE R == {q \in rows : q.soc # None}
             f == [r \in R |-> Sample(r)]
  <2>1. IsFiniteSet(R)
    BY <1>2, FS_Subset DEF DataOK
  <2>2. f \in Surjection(R, Samples)
    BY DEF Surjection, Samples
  <2>3. IsFiniteSet(Samples)
    <3> HIDE DEF R, f
    <3> QED
      BY <2>1, <2>2, FS_Surjection
  <2>4. \A x \in Samples : x.age \in Int /\ x # None
    <3>1. \A r \in rows : Sample(r).age \in Int
      BY <1>2 DEF Sample, DataOK, IsRow
    <3>2. \A r \in rows : Sample(r) # None
      BY <1>2, RowsAssumption DEF DataOK
    <3> QED
      BY <3>1, <3>2 DEF Samples
  <2> QED
    BY <2>3, <2>4
<1> QED
  BY <1>1, <1>2

\* The newest rows after a tick, and the ones they come from.
LEMMA TickAges ==
  ASSUME DataOK, Tick, NEW m2 \in LatestMeasurements', NEW s2 \in LatestSamples'
  PROVE  \E m \in LatestMeasurements, s \in LatestSamples : AgedRow(m2, m) /\ AgedRow(s2, s)
<1>1. rows' = {Older(r) : r \in rows}
  BY DEF Tick
<1>2. \A r \in rows : /\ IsRow(r) /\ r.age \in Int
                      /\ Older(r).age = Aged(r.age)
                      /\ Older(r).value = r.value /\ Older(r).unit = r.unit
                      /\ Older(r).soc = r.soc /\ Older(r).socUnit = r.socUnit
  BY OlderIsRow DEF DataOK, IsRow, Aged
<1>3. \E m \in LatestMeasurements : AgedRow(m2, m)
  <2> DEFINE g == [r \in rows |-> Older(r)]
  <2>1. rows' = AgedBy(g, rows)
    BY <1>1 DEF AgedBy
  <2>2. m2 \in Newest(AgedBy(g, rows))
    BY <2>1 DEF LatestMeasurements, Newest
  <2>3. \A r \in rows : g[r] = Older(r) /\ g[r].age = Aged(r.age)
    BY <1>2
  <2> HIDE DEF g
  <2>4. PICK m \in Newest(rows) : m2 = None \/ (m \in rows /\ (m2 = g[m] \/ m2.age = MaxAge))
    BY <1>2, <2>2, <2>3, NewestAged DEF DataOK
  <2>5. \A r \in rows : r # None
    BY RowsAssumption DEF DataOK
  <2> QED
    BY <1>2, <2>3, <2>4, <2>5 DEF LatestMeasurements, AgedRow
<1>4. \E s \in LatestSamples : AgedRow(s2, s)
  <2> DEFINE h(x) == [age |-> Aged(x.age), value |-> x.value, unit |-> x.unit]
             g == [x \in Samples |-> h(x)]
  <2>1. \A r \in rows : Sample(Older(r)) = h(Sample(r))
    BY <1>2 DEF Sample
  <2>2. {q \in rows' : q.soc # None} = {Older(r) : r \in {q \in rows : q.soc # None}}
    BY <1>1, <1>2
  <2>3. Samples' = {h(x) : x \in Samples}
    <3>1. Samples' = {Sample(q) : q \in {q \in rows' : q.soc # None}}
      BY DEF Samples, Sample
    <3> HIDE DEF h
    <3> QED
      BY <2>1, <2>2, <3>1 DEF Samples
  <2>4. Samples' = AgedBy(g, Samples)
    BY <2>3 DEF AgedBy
  <2>5. s2 \in Newest(AgedBy(g, Samples))
    <3>1. LatestSamples' = Newest(Samples')
      BY SamplesAre DEF Newest, LatestSamples, Samples, Sample
    <3> QED
      BY <2>4, <3>1
  <2>6. \A x \in Samples : /\ g[x].age = Aged(x.age)
                            /\ g[x].value = x.value /\ g[x].unit = x.unit
    OBVIOUS
  <2>7. /\ IsFiniteSet(Samples) /\ \A x \in Samples : x.age \in Int
        /\ \A x \in Samples : x # None
    BY SamplesAre
  <2> HIDE DEF g, h
  <2>8. PICK s \in Newest(Samples) : s2 = None \/ (s \in Samples /\ (s2 = g[s] \/ s2.age = MaxAge))
    BY <2>5, <2>6, <2>7, NewestAged
  <2>9. AgedRow(s2, s)
    BY <2>6, <2>7, <2>8 DEF AgedRow
  <2> QED
    BY <2>8, <2>9, SamplesAre
<1> QED
  BY <1>3, <1>4

\* Time alone, without a new measurement, never switches a device on
\* (SchedulerDecisionService.decide as now_utc moves on).
THEOREM TimeNeverAdmits == Spec => AgeingNeverSwitchesOn
<1>1. IInv /\ [Next]_vars => [Tick => (MayAllow' => MayAllow)]_vars
  <2> SUFFICES ASSUME IInv, Tick, MayAllow' PROVE MayAllow
    OBVIOUS
  <2> DEFINE rule == RuleOf(slot)
  <2>1. DataOK /\ IsRule(rule) /\ UNCHANGED <<slot, provider>>
    BY DEF IInv, SlotOK, ColumnsOK, Tick
  <2>2. DataOK'
    BY StaysOK DEF IInv, Next
  <2>3. PICK m2 \in LatestMeasurements', s2 \in LatestSamples' : Decide(m2, s2)'.kind = "ALLOW_ON"
    <3>1. PICK d \in Decisions' : d.kind = "ALLOW_ON"
      BY DEF MayAllow
    <3>2. PICK e \in Evidence' : d = Decide(e[1], e[2])'
      BY <3>1 DEF Decisions
    <3>3. e[1] \in LatestMeasurements' /\ e[2] \in LatestSamples'
      BY <3>2 DEF Evidence
    <3> QED
      BY <3>1, <3>2, <3>3
  <2>4. Decide(m2, s2)' = Decide(m2, s2)
    BY <2>1 DEF Decide
  <2>5. PICK m \in LatestMeasurements, s \in LatestSamples : AgedRow(m2, m) /\ AgedRow(s2, s)
    BY <2>1, TickAges
  <2>6. Decide(m, s).kind = "ALLOW_ON"
    <3>1. CASE rule = None
      BY <3>1 DEF Decide, Unguarded
    <3>2. CASE rule # None
      <4> DEFINE e == Evaluation(provider, m, s)
                 later == Evaluation(provider, m2, s2)
      <4>1. Typed(m, s) /\ (m # None => m.age \in Int) /\ (s # None => s.age \in Int)
        BY <2>1, LatestRows
      <4>2. Typed(m2, s2)
        BY <2>2, LatestStayTyped DEF Typed
      <4>3. \A c \in Items : EvaluateCondition(c, provider, m2, s2).met
                               \in {EvaluateCondition(c, provider, m, s).met, "unknown"}
        BY <2>1, <2>5, <4>1, AgeingLosesOnly DEF DataOK
      <4>4. /\ e \in [Items -> Outcomes] /\ Evaluated(Items, e, provider, m, s)
            /\ later \in [Items -> Outcomes] /\ Evaluated(Items, later, provider, m2, s2)
        BY <4>1, <4>2, EvaluationExact
      <4>5. rule \in Items /\ later[rule].met = "met"
        BY <2>1, <2>3, <2>4, <3>2, <4>2, DecideByRule
      <4>6. e[rule].met = "met" => Decide(m, s).kind = "ALLOW_ON"
        BY <2>1, <3>2, <4>1, DecideByRule
      <4> HIDE DEF e, later, rule
      <4>7. \A c \in Items : IsCondition(c) => later[c].met \in {e[c].met, "unknown"}
        BY <4>3, <4>4 DEF Evaluated
      <4>8. \A item \in Items : later[item].met = "met" => e[item].met = "met"
        BY <4>4, <4>7, RulesAreRules, RuleLossNeverAdmits
      <4> QED
        BY <4>5, <4>6, <4>8
    <3> QED
      BY <3>1, <3>2
  <2>7. <<m, s>> \in Evidence /\ <<m, s>>[1] = m /\ <<m, s>>[2] = s
    BY DEF Evidence
  <2> QED
    BY <2>6, <2>7 DEF MayAllow, Decisions
<1> QED
  BY <1>1, Invariance, PTL DEF Spec, AgeingNeverSwitchesOn

LEMMA LateIsNotNewest ==
  ASSUME NEW S, \A x \in S : x.age \in Int, NEW r, r.age \in Int,
         NEW q \in S, q.age < r.age
  PROVE  Newest(S \cup {r}) = Newest(S)
<1>1. /\ Newest(S) = {x \in S : \A y \in S : x.age <= y.age}
      /\ Newest(S \cup {r}) = {x \in S \cup {r} : \A y \in S \cup {r} : x.age <= y.age}
  BY DEF Newest
<1>2. ASSUME NEW x \in S \cup {r}
      PROVE  (\A y \in S \cup {r} : x.age <= y.age) <=> (x \in S /\ \A y \in S : x.age <= y.age)
  <2>1. ASSUME \A y \in S \cup {r} : x.age <= y.age PROVE x \in S
    <3>1. x.age <= q.age
      BY <2>1
    <3>2. x # r
      BY <3>1
    <3> QED
      BY <3>2
  <2>2. ASSUME x \in S, \A y \in S : x.age <= y.age PROVE x.age <= r.age
    <3>1. x.age <= q.age
      BY <2>2
    <3> QED
      BY <2>2, <3>1
  <2> QED
    BY <2>1, <2>2
<1> QED
  BY <1>1, <1>2

\* A measurement that arrives late, with newer ones already stored, changes no
\* decision (save_measurement, get_latest_measurement).
THEOREM LateIsIgnored == Spec => LateRowsChangeNothing
<1>1. IInv /\ [Next]_vars =>
        [(\E r \in NewRows :
            /\ SaveMeasurement(r)
            /\ \E q \in rows : q.age < r.age
            /\ r.soc # None => \E q \in rows : q.soc # None /\ q.age < r.age)
         => Decisions' = Decisions]_vars
  <2> SUFFICES ASSUME IInv, NEW r \in NewRows, SaveMeasurement(r),
                      \E q \in rows : q.age < r.age,
                      r.soc # None => \E q \in rows : q.soc # None /\ q.age < r.age
               PROVE  Decisions' = Decisions
    OBVIOUS
  <2>1. /\ rows' = rows \cup {r} /\ UNCHANGED <<slot, provider>>
        /\ r.age \in Int /\ \A q \in rows : q.age \in Int
    BY RowsAssumption DEF SaveMeasurement, IInv, DataOK, IsRow
  <2>2. LatestMeasurements' = LatestMeasurements
    <3>1. PICK q \in rows : q.age < r.age
      OBVIOUS
    <3>2. Newest(rows \cup {r}) = Newest(rows)
      BY <2>1, <3>1, LateIsNotNewest
    <3>3. LatestMeasurements' = Newest(rows')
      BY DEF LatestMeasurements, Newest
    <3> QED
      BY <2>1, <3>2, <3>3 DEF LatestMeasurements
  <2>3. LatestSamples' = LatestSamples
    <3>1. LatestSamples' = Newest(Samples')
      BY DEF LatestSamples, Newest, Samples, Sample
    <3>2. LatestSamples = Newest(Samples)
      BY SamplesAre
    <3>3. Newest(Samples') = Newest(Samples)
      <4>1. CASE r.soc = None
        <5>1. Samples' = Samples
          BY <2>1, <4>1 DEF Samples, Sample
        <5> QED
          BY <5>1
      <4>2. CASE r.soc # None
        <5>1. Samples' = Samples \cup {Sample(r)}
          BY <2>1, <4>2 DEF Samples, Sample
        <5>2. PICK q \in rows : q.soc # None /\ q.age < r.age
          BY <4>2
        <5>3. Sample(q) \in Samples /\ Sample(q).age = q.age /\ Sample(r).age = r.age
          BY <5>2 DEF Samples, Sample
        <5>4. \A x \in Samples : x.age \in Int
          BY SamplesAre DEF IInv
        <5>5. Newest(Samples \cup {Sample(r)}) = Newest(Samples)
          BY <2>1, <5>2, <5>3, <5>4, LateIsNotNewest
        <5> QED
          BY <5>1, <5>5
      <4> QED
        BY <4>1, <4>2
    <3> QED
      BY <3>1, <3>2, <3>3
  <2>4. Evidence' = Evidence
    BY <2>2, <2>3 DEF Evidence
  <2>5. \A e \in Evidence : Decide(e[1], e[2])' = Decide(e[1], e[2])
    BY <2>1 DEF Decide
  <2> QED
    BY <2>4, <2>5 DEF Decisions
<1> QED
  BY <1>1, Invariance, PTL DEF Spec, LateRowsChangeNothing
=============================================================================
