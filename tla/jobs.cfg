SPECIFICATION Spec
CONSTANTS
  Instances = {i1}
  Provisions = {p1, p2}
  GameJobs = {}
  NoJob = NoJob
  MaxClock = 0
  RequestIds = {q1, q2}
  MaxCrashes = 1
  MaxLosses = 2
SYMMETRY Interchangeable
CHECK_DEADLOCK FALSE
INVARIANTS
  TypeOK
  AtMostOnce
  ReportedIsRecorded
  OneActivePerInstance
PROPERTIES
  NoResultLost
  PromiseKept
  StartsOnlyLive
