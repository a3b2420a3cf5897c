SPECIFICATION Spec
CONSTANTS
  Instances = {i1}
  Pools = {a, b}
  Capacity = 2
  Migrations = {m1, m2}
  Cleanups = {c1, c2}
  None = None
  MaxClock = 0
  MaxCrashes = 0
  MaxLosses = 1
CHECK_DEADLOCK FALSE
SYMMETRY Interchangeable
INVARIANTS
  TypeOK
  OneMigrationPerInstance
  DataKeptUnlessMislaid
  CompletedMoved
