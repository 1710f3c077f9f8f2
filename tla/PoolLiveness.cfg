SPECIFICATION FairSpec
CONSTANTS
  Threads = {t1, t2, t3}
  MaxNrProcesses = 1
  Workers = {w1}
  NULL = NULL
  Scores = {0}
  CanDie = TRUE
  CanFailToStart = TRUE
  MaxInterrupts = 0
PROPERTIES
  GetsReturnIfNoneDies
  ShutdownCompletes
  ShutdownWakesAll
