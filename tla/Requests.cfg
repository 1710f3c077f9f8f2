SPECIFICATION FairSpec
CONSTANTS
  Threads = {t1, t2}
  Users = {"u", "v"}
  HasRoles <- MCHasRoles
  Configs = {"guarded", "reversed", "invalid"}
  LinesOf <- MCLinesOf
  Objects = {"small", "large"}
  Slices = "slices"
  Size <- MCSize
  Asks <- MCAsks
  MaxArrivals = 2
  MaxReloads = 1
  NrProcesses = 2
  MaxDeaths = 1
  MaxRequests = 1
  BufferSize = 2
  MaxCached = 1
  IntMax = 7
  None = None
INVARIANTS
  ServedAsConfigured
  AnswerRight
  NeverTiesUpPool
PROPERTIES
  RequestsEnd
  RolesAsDeclared
CHECK_DEADLOCK FALSE
