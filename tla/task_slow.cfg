CONSTANTS
  Workers = {w1}
  MaxTasks = 3
  Prefetch = 2
  CutOff = {1}
  Undecodable = {2}
  Slow = {1}
  Retrying = {1}
  MaxBreaks = 0
  MaxCrashes = 1
  MaxRestarts = 0
SPECIFICATION FairSpec
INVARIANTS NoDeliveryWaits
PROPERTIES OthersNotHeldUp
CHECK_DEADLOCK FALSE
