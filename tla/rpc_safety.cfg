CONSTANTS
  Instances = {i1, i2}
  NoOwner = NoOwner
  MaxMessages = 3
  BatchSize = 2
  Timeout = 1
  Skew = 0
  Undecodable = {}
  BadMethod = {2}
  Slow = {}
  MaxTime = 0
  MaxCrashes = 1
  MaxMoves = 1
SPECIFICATION Spec
INVARIANTS TypeOK CrashLossBound TakenOncePerAssignment
PROPERTIES RedeliveredOnlyIfUncommitted
SYMMETRY Symmetry
CHECK_DEADLOCK FALSE
