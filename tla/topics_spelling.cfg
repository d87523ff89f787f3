CONSTANTS
  Spellings = {lower, mixed}
  MaxEntries = 2
SPECIFICATION Spec
INVARIANTS OneTaskPerTopicType
CHECK_DEADLOCK FALSE
