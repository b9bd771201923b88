CONSTANTS
  p1 = p1
  p2 = p2
  p3 = p3
  c1 = c1
  c2 = c2
  Providers = {p1, p2}
  Inherited = {}
  Devices = {}
  Calls = {c1}
  Units = {"W"}
  MaxEdits = 2
  MaxCalls = 2
  None = None
SPECIFICATION PersistentSpec
PROPERTY CanBeEnabled
CHECK_DEADLOCK FALSE
