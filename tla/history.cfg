CONSTANTS
  Pollers = {p1, p2}
  KpiAnswers <- MCKpiAnswers
  FlowAnswers <- MCFlowAnswers
  HourTicks = 2
  DayTicks = 4
  RatedPower = 2
  Horizon = 4
  MaxHappenings = 3
  Shapes <- MCShapes
  Absent = Absent
SPECIFICATION PastSpec
INVARIANTS PastTypeOK EnergyIsExact OnTimeIsExact
PROPERTY ClearedStaysCleared
SYMMETRY Symmetry
CHECK_DEADLOCK FALSE
