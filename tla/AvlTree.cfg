SPECIFICATION TreeSpec
CONSTANTS
  Keys = {1, 2, 3, 4, 5, 6}
  NULL = NULL
INVARIANTS
  SearchTree
  BalancedByInsertion
