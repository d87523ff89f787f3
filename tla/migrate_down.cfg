CONSTANTS
  Procs = {"new"}
  Home <- MCHome
  Creates = {"new"}
  Scopes = {}
  Slaves = {}
  Default = "public"
  NoSession = "none"
  NoProc = "nobody"
  Files <- MCFiles
  Broken = {}
  MaxRuns = 2
SPECIFICATION Spec
INVARIANTS DownRevertsLastOnly
CHECK_DEADLOCK FALSE
