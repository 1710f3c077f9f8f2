SPECIFICATION InfoSpec
CONSTANTS
  Threads = {t1}
  MaxNrProcesses = 1
  Workers = {w1}
  NULL = NULL
  Scores = {0}
  CanDie = TRUE
  CanFailToStart = TRUE
  MaxInterrupts = 0
INVARIANTS
  SlotStillHasWorker
