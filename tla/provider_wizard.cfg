CONSTANTS
  Threads = {t1, t2}
  Users = {u1}
  p1 = p1
  p2 = p2
  Passwords = {p1, p2}
  Accepts <- MCAccepts
  Objects = {o1, o2}
  Sessions = {1, 2}
  Stations = {s1, s2}
  MaxCalls = 5
  None = None
SPECIFICATION Spec
INVARIANTS TypeOK AuthVerifies ConsumedOnce SpeaksToApi
SYMMETRY Symmetry
CHECK_DEADLOCK FALSE
