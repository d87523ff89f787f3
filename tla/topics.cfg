CONSTANTS
  Spellings = {lower, mixed}
  MaxEntries = 3
SPECIFICATION FairSpec
INVARIANTS TypeOK NoConsumerLeftBehind OneTaskPerSpelling
PROPERTIES ReturnsWhenAllStopped EveryListedTypeServed
CHECK_DEADLOCK FALSE
