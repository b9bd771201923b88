SPECIFICATION Spec
CONSTANTS
  d1 = d1
  d2 = d2
  m1 = m1
  m2 = m2
  s1 = s1
  s2 = s2
  p1 = p1
  p2 = p2
  None = None
  Outcomes <- PolicyReplies
  Dispatchers = {p1, p2}
  Devices = {d1, d2}
  Microcontrollers = {m1}
  MicroOf <- OneMicro
  Slots = {s1}
  FirstSlots = {s1}
  Actions = {"DISABLE_POLICY"}
  MaxRetry = 1
  Backoff = 1
  Jitter = 0
  AckTimeout = 1
  Inflight = 1
  Limit = 2
  TimeoutLimit = 1
  MaxCmds = 2
  MaxMinute = 0
  MaxAcks = 1
  MaxCrashes = 1
INVARIANTS
  InflightBounded
CHECK_DEADLOCK FALSE
