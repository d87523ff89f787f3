CONSTANTS
  Threads = {t1, t2}
  FileKinds = {"string", "size", "boolean", "array", "other", "absent"}
SPECIFICATION FairSpec
INVARIANTS TypeOK OverridesWin OverridesKeepKinds
PROPERTIES EveryAccessReturns
CHECK_DEADLOCK FALSE
