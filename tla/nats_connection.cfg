CONSTANTS
  Publishers = {p1, p2}
  Askers = {a1}
  Closers = {x1}
  Connections = {1, 2}
  Retries = 2
  MaxLosses = 1
  None = None
SPECIFICATION FairSpec
INVARIANTS TypeOK QuietClose NoStrayConnection
PROPERTIES AnswerIsHeard CallsEnd
CHECK_DEADLOCK FALSE
