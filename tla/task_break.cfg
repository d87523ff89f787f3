CONSTANTS
  Workers = {w1}
  MaxTasks = 2
  Prefetch = 2
  CutOff = {}
  Undecodable = {}
  Slow = {1}
  Retrying = {}
  MaxBreaks = 1
  MaxCrashes = 0
  MaxRestarts = 0
SPECIFICATION FairSpec
PROPERTIES OthersNotHeldUp
CHECK_DEADLOCK FALSE
