SPECIFICATION FairSpec
CONSTANTS
  k1 = k1
  Instances = {i1, i2}
  Contracts = {k1}
  ContractOf <- OneContract
  CommandIds = {1, 2}
  Actions = {"start", "remove"}
  MaxClock = 0
  RequestIds = {q1}
  Observations = {"none"}
  MaxCrashes = 0
  MaxLosses = 1
PROPERTIES
  EveryCommandSettles
