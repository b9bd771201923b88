CONSTANTS
  p1 = p1
  p2 = p2
  p3 = p3
  c1 = c1
  c2 = c2
  Providers = {p1, p2, p3}
  Inherited = {p1, p2}
  Devices = {d1}
  Calls = {c1, c2}
  Units = {"W"}
  MaxEdits = 2
  MaxCalls = 3
  None = None
SPECIFICATION Spec
SYMMETRY Symmetry
INVARIANT TypeOK
PROPERTIES RulesKeepProvider AttachAgrees
CHECK_DEADLOCK FALSE
