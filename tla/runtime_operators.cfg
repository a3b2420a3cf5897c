SPECIFICATION Spec
CONSTANTS
  None = None
  Pools = {p1, p2}
  MaxOrders = 0
  MaxLocals = 1
  MaxJobs = 1
  MaxFaults = 1
  MaxBreaks = 1
  MaxCrashes = 1
  MaxOutages = 0
CHECK_DEADLOCK FALSE
INVARIANTS
  StoppedWhileAwaited
PROPERTIES
  Converges
