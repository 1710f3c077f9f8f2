SPECIFICATION FairSpec
CONSTANTS
  Threads = {t1, t2}
  MaxNrProcesses = 1
  Workers = {w1}
  NULL = NULL
  Scores = {0}
  CanDie = TRUE
  CanFailToStart = FALSE
  MaxInterrupts = 0
PROPERTIES
  EveryGetReturns
