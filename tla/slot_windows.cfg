CONSTANTS
  Devices = {1, 2}
  SlotChoices <- MCSlotChoices
  PageSize = 1
  MaxRetry = 1
  Horizon = 4
  MaxChanges = 2
  None = None
SPECIFICATION Spec
INVARIANTS FollowsWindow HealsWithinMinute
CHECK_DEADLOCK FALSE
