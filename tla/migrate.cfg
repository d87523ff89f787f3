CONSTANTS
  Procs = {"old", "new", "other"}
  Home <- MCHome
  Creates = {"old"}
  Scopes = {"old", "new"}
  Slaves = {"new"}
  Default = "public"
  NoSession = "none"
  NoProc = "nobody"
  Files <- MCFiles
  Broken = {2}
  MaxRuns = 4
SPECIFICATION FairSpec
INVARIANTS AppliedInOrder RunsDoNotInterfere KnownOnly InOwnSchema
PROPERTIES RunsEnd
CHECK_DEADLOCK FALSE
