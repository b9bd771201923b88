SPECIFICATION Spec
CONSTANTS
  d1 = d1
  d2 = d2
  m1 = m1
  m2 = m2
  s1 = s1
  s2 = s2
  p1 = p1
  p2 = p2
  None = None
  Outcomes <- TwoReplies
  Dispatchers = {p1, p2}
  Devices = {d1}
  Microcontrollers = {m1}
  MicroOf <- OneDevice
  Slots = {s1, s2}
  FirstSlots = {s1}
  Actions = {"ON"}
  MaxRetry = 1
  Backoff = 1
  Jitter = 0
  AckTimeout = 1
  Inflight = 2
  Limit = 1
  TimeoutLimit = 1
  MaxCmds = 2
  MaxMinute = 1
  MaxAcks = 1
  MaxCrashes = 1
INVARIANTS
  TypeOK
  TimersMatchStatus
  OneCommandPerKey
  ExclusiveDispatch
  SendsBounded
  NoFalseSuccess
PROPERTIES
  SettledIsFinal
  LifecycleSpec
SYMMETRY Symmetry
CHECK_DEADLOCK FALSE
