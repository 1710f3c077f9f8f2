SPECIFICATION FairSpec
CONSTANTS
  Threads = {t1, t2}
  NrProcesses = 2
  CanInterrupt = TRUE
  MaxDeaths = 2
INVARIANTS
  ReferencesCounted
  NoUseAfterFree
  SaneShutdown
PROPERTIES
  FreeCompletes
  StopEndsRequests
