SPECIFICATION Spec
CONSTANTS
  Threads = {t1, t2}
  MaxNrProcesses = 2
  Workers = {w1, w2, w3}
  NULL = NULL
  Scores = {0, 1}
  CanDie = TRUE
  CanFailToStart = TRUE
  MaxInterrupts = 1
SYMMETRY Symmetry
INVARIANTS
  OwnedExclusively
  PermitAccounting
  NoOrphans
PROPERTIES
  ExhaustionNeedsDeath
  KeepsPromise
