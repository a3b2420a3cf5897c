SPECIFICATION FairSpec
CONSTANTS
  Instances = {i1}
  Pools = {a, b}
  Capacity = 1
  Migrations = {m1}
  Cleanups = {c1}
  None = None
  MaxClock = 0
  MaxCrashes = 1
  MaxLosses = 1
CHECK_DEADLOCK FALSE
PROPERTIES
  AnsweredUnlessOrphaned
  OperationsSettle
