SPECIFICATION FairSpec
CONSTANTS
  Jobs = {1, 2, 3}
  RequestIds = {q1}
  MaxReports = 2
  Keep = 1
  MaxFaults = 1
CHECK_DEADLOCK FALSE
INVARIANTS
  TypeOK
  RunsOnce
  WorldSurvives
  LatestIsRestorable
PROPERTIES
  SettlesUnlessStranded
