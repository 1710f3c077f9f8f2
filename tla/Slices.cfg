SPECIFICATION WalkSpec
CONSTANTS
  Width = 16
  MaxDims = 3
  MaxSlices = 3
  MaxSelections = 2
  MaxSize = 3
  Datasets <- MCDatasets
  Requests <- MCRequests
  BufferSizes = {3, 4, 8}
  Limits = {0, 7, 8}
  Garbage = {1, 5}
  CanFail = TRUE
  Files <- MCFiles
  MaxDepths = {0, 1, 2, 3}
  MaxLinks = 4
INVARIANTS
  SendsTheSlices
  HeaderHonest
  AcceptsExactly
  ReadFits
  ShowsTheTree
PROPERTIES
  Terminates
CHECK_DEADLOCK FALSE
