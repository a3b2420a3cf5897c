SPECIFICATION Spec
CONSTANTS
  None = None
  Pools = {p1, p2, p3}
  MaxOrders = 1
  MaxLocals = 0
  MaxJobs = 2
  MaxFaults = 1
  MaxBreaks = 1
  MaxCrashes = 1
  MaxOutages = 1
SYMMETRY Interchangeable
CHECK_DEADLOCK FALSE
INVARIANTS
  TypeOK
  DataAvailable
