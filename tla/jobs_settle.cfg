SPECIFICATION FairSpec
CONSTANTS
  Instances = {i1}
  Provisions = {p1, p2}
  GameJobs = {g1}
  NoJob = NoJob
  MaxClock = 0
  RequestIds = {q1}
  MaxCrashes = 1
  MaxLosses = 0
CHECK_DEADLOCK FALSE
PROPERTIES
  SettlesUnlessAbandoned
