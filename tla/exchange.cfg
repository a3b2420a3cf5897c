SPECIFICATION Spec
CONSTANTS
  k1 = k1
  Instances = {i1}
  Contracts = {k1}
  ContractOf <- OneContract
  CommandIds = {1, 2}
  Actions = {"start", "stop", "remove"}
  MaxClock = 0
  RequestIds = {q1, q2}
  Observations = {"none"}
  MaxCrashes = 1
  MaxLosses = 1
SYMMETRY Interchangeable
INVARIANTS
  TypeOK
  AtMostOnce
  ExecutesOnlyLive
  OneSerializedActive
  PurgedOnlyAfterRemoval
PROPERTIES
  FinalIsForever
  NoResultLost
  PromiseKept
