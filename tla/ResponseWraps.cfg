SPECIFICATION Spec
CONSTANTS
  Threads = {t1, t2}
  Users = {"u", "v"}
  HasRoles <- MCHasRoles
  Configs = {"guarded", "reversed", "invalid"}
  LinesOf <- MCLinesOf
  Objects = {"small", "large"}
  Slices = "slices"
  Size <- LongSize
  Asks <- MCAsks
  MaxArrivals = 1
  MaxReloads = 0
  NrProcesses = 2
  MaxDeaths = 0
  MaxRequests = 1
  BufferSize = 2
  MaxCached = 1
  IntMax = 3
  None = None
INVARIANTS
  CachedWhole
CHECK_DEADLOCK FALSE
