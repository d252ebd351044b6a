SPECIFICATION FairSpec
CONSTANTS
  Ids = {c1, c2}
  MaxSessions = 1
  FrameCapacity = 1
  EventCapacity = 1
  IdleLimit = 1
  StdoutEvents = 2
  MaxFrames = 3
  pre_roll_frames = 1
CHECK_DEADLOCK FALSE
INVARIANTS
  HotPathInv
  ChunksAccounted
  FramesShippedOnce
  GapsAreDrops
  NothingLeftBehind
PROPERTIES
  SignalEnds
  AcceptedIsPublished
