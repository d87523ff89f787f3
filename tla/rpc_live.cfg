CONSTANTS
  Instances = {i1, i2}
  NoOwner = NoOwner
  MaxMessages = 3
  BatchSize = 2
  Timeout = 0
  Skew = 0
  Undecodable = {3}
  BadMethod = {}
  Slow = {1}
  MaxTime = 1
  MaxCrashes = 1
  MaxMoves = 0
SPECIFICATION FairSpec
INVARIANTS SkippedOnlyAfterGateGaveUp
PROPERTIES ImplementsLogReader SlowHandlerDelaysOnlyItself
CHECK_DEADLOCK FALSE
