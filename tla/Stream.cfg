SPECIFICATION FairSpec
CONSTANTS
  NrBuffers = 2
  BufferSize = 4
  BufferSizes = {1, 5}
  SizeWidth = 16
  MaxLen = 3
  CanDie = TRUE
  CanFail = TRUE
INVARIANTS
  OneToken
  QuietWhenClosed
  CancelStopsSoon
  BlockFits
PROPERTIES
  StreamIsFaithful
  CallsReturn
