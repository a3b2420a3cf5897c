SPECIFICATION Spec
CONSTANTS
  None = None
  Pools = {p1, p2}
  MaxOrders = 0
  MaxLocals = 1
  MaxJobs = 2
  MaxFaults = 0
  MaxBreaks = 0
  MaxCrashes = 1
  MaxOutages = 0
CHECK_DEADLOCK FALSE
PROPERTIES
  CleanupSparesServer
