SPECIFICATION Spec
CONSTANTS
  None = None
  Gone = Gone
  s1 = s1
  s2 = s2
  u1 = u1
  u2 = u2
  r1 = r1
  r2 = r2
  r3 = r3
  v1 = v1
  v2 = v2
  Limits = {1, 2}
  Sensors <- MCSensors
  Users <- MCUsers
  Requests <- MCRequests
  Versions <- MCVersions
  Jobs <- MCJobs
INVARIANTS
  CopiesAgree
  SyncIsExact
  OkWasCarriedOut
CHECK_DEADLOCK FALSE
