---------------------------- MODULE HistoryClock ----------------------------
(* The clock that measurements and events share, and the bound on both.       *)
EXTENDS Naturals, FiniteSets

CONSTANTS
  Horizon,        \* bound: last tick
  MaxHappenings,  \* bound: measurements begun, changes of users, switches and decisions
  Absent

ASSUME ClockAssumption == Horizon \in Nat /\ MaxHappenings \in Nat

VARIABLES
  now,
  happened  \* how many of those there were

Happens == happened < MaxHappenings /\ happened' = happened + 1

\* What takes time: no two of these have the same.
Passes == now < Horizon /\ now' = now + 1

\* ORDER BY a column of times, all different.
ByTime(found, column) ==
  [n \in 1 .. Cardinality(found) |->
     CHOOSE r \in found : Cardinality({q \in found : q[column] < r[column]}) = n - 1]
=============================================================================
