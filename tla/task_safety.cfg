CONSTANTS
  Workers = {w1, w2}
  MaxTasks = 2
  Prefetch = 1
  CutOff = {1, 2}
  Undecodable = {2}
  Slow = {}
  Retrying = {1}
  MaxBreaks = 1
  MaxCrashes = 1
  MaxRestarts = 1
SPECIFICATION Spec
INVARIANTS TypeOK ConfirmedNotLost
PROPERTIES ImplementsAtLeastOnce
SYMMETRY Symmetry
CHECK_DEADLOCK FALSE
