SPECIFICATION Spec
CONSTANTS
  None = None
  Items <- RuleItems
  Depth <- Nesting
  Payloads <- SlotPayloads
  OldSlots <- ThresholdOnly
  Providers <- Attached
  Units <- UserUnits
  NewRows <- Arrivals
  PowerLevels <- Levels
  SocLevels = {0, 50, 51, 60}
  ColumnUnit = 4
  ColumnLimit = 2000
  MaxAge = 2
  MaxRows = 2
INVARIANTS
  OnNeedsEvidence
  CompleteDataDecides
  SkipIsExplained
  ColumnsFollowRule
PROPERTIES
  AgeingNeverSwitchesOn
  LateRowsChangeNothing
