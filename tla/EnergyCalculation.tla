-------------------------- MODULE EnergyCalculation --------------------------
(***************************************************************************)
(* services/energy_calculation_service.py: the energy of a series of power *)
(* samples, which hold until the next one but no longer than a cap.  Time  *)
(* is in ticks and energy in power times ticks, both integers; the service *)
(* works with datetimes and floating point, which is not modelled.         *)
(***************************************************************************)
EXTENDS Integers, Sequences, SequencesExt, FiniteSetsExt

CONSTANT HourTicks  \* ticks of an hour

ASSUME EnergyAssumption == HourTicks \in Nat \ {0}

\* How long a PowerSample, [ts, value], holds; samples come in the order of ts.  A cap of zero is none.
HoldsUntil(samples, i, cap) ==
  LET capped == samples[i].ts + cap
  IN  IF cap > 0 /\ capped < samples[i + 1].ts THEN capped ELSE samples[i + 1].ts

\* Unless the next sample has the same time.
Holds(samples, i, cap) == HoldsUntil(samples, i, cap) > samples[i].ts

IntervalEnergy(samples, i, cap) ==
  samples[i].value * (HoldsUntil(samples, i, cap) - samples[i].ts)

\* The loop over all samples but the last.
IntegrateIntervals(samples, cap) ==
  LET interval(i) == [ts |-> samples[i].ts, energy |-> IntervalEnergy(samples, i, cap)]
      intervals[i \in 0 .. Len(samples) - 1] ==
        IF i = 0 THEN << >>
        ELSE IF Holds(samples, i, cap) THEN Append(intervals[i - 1], interval(i))
             ELSE intervals[i - 1]
  IN  IF Len(samples) < 2 THEN << >> ELSE intervals[Len(samples) - 1]

HourOf(t) == t \div HourTicks

NextHour(t) == (HourOf(t) + 1) * HourTicks

\* energy_by_hour, a dictionary that says zero of the hours it does not have.
EnergyOf(byHour, h) == IF h \in DOMAIN byHour THEN byHour[h] ELSE 0

AddHours(byHour, shares) ==
  [h \in DOMAIN byHour \cup DOMAIN shares |-> EnergyOf(byHour, h) + EnergyOf(shares, h)]

SegmentEnd(cursor, to) == Min({to, NextHour(cursor)})

\* The loop over the hours of one interval: each gets its share of the energy.
HourShares(from, to, energy) ==
  LET segment(cursor) == [h \in {HourOf(cursor)} |->
                            (energy * (SegmentEnd(cursor, to) - cursor)) \div (to - from)]
      remaining[cursor \in from .. to] ==
        IF cursor = to THEN << >>
        ELSE AddHours(segment(cursor), remaining[SegmentEnd(cursor, to)])
  IN  remaining[from]

\* The loop over all samples but the last.
IntegrateHourly(samples, cap) ==
  LET counts(i) == Holds(samples, i, cap) /\ IntervalEnergy(samples, i, cap) # 0
      shares(i) == HourShares(samples[i].ts, HoldsUntil(samples, i, cap),
                              IntervalEnergy(samples, i, cap))
      byHour[i \in 0 .. Len(samples) - 1] ==
        IF i = 0 THEN << >>
        ELSE IF counts(i) THEN AddHours(byHour[i - 1], shares(i)) ELSE byHour[i - 1]
  IN  IF Len(samples) < 2 THEN << >> ELSE byHour[Len(samples) - 1]

\* f[from] + ... + f[to]: zero when to is from - 1.
SumOf(f, from, to) ==
  LET sum[i \in from - 1 .. to] == IF i < from THEN 0 ELSE sum[i - 1] + f[i]
  IN  sum[to]
=============================================================================
