CONSTANTS
  Devices = {1, 2}
  Existing = {1}
  Requests = {1, 2, 3}
  ProcessOf <- MCProcessOf
  Jobs <- MCJobs
  Numbers = {1, 2}
  MaxDevices = 1
  MaxSwitches = 1
  None = None
SPECIFICATION FairSpec
PROPERTIES AloneIsExact AloneDisables RequestsEnd
CHECK_DEADLOCK FALSE
