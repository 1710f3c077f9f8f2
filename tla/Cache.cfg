SPECIFICATION FairSpec
CONSTANTS
  Files = {f1, f2, f3}
  Datasets = {d1, d2, d3}
  NULL = NULL
  MaxOpenFiles = 2
  MaxOpenDatasets = 2
  MaxAge = 1
  CanDie = TRUE
INVARIANTS
  WithinLimits
  ShadowKnowsAll
  ScoreExact
PROPERTIES
  ExpiresTheExpired
  IdleFilesClosed
