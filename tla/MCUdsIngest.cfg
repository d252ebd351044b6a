SPECIFICATION FairSpec
CONSTANTS
  Lengths = {1, 6}
  kMaxWirePayload = 1
  kBufferCells = 8
  Capacity = 1
  MaxConnections = 2
  MaxMessages = 3
CHECK_DEADLOCK FALSE
INVARIANTS
  FramesAreMessages
  BufferInv
PROPERTIES
  AllParsed
  StopReturns
