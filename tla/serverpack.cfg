SPECIFICATION FairSpec
CONSTANTS
  MaxAttempts = 2
  MaxFaults = 3
  MaxTimeouts = 1
CHECK_DEADLOCK FALSE
INVARIANTS
  TypeOK
  OutcomesAreTrue
  OriginalIntact
PROPERTIES
  StartsOnlyWhole
  NeverMovesUnderServer
  VerdictIsFinal
  BarrierLiftsUnlessStuck
