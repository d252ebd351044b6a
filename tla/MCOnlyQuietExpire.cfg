SPECIFICATION SpecWithHistory
CONSTANTS
  Ids = {c1, c2}
  MaxSessions = 1
  FrameCapacity = 1
  EventCapacity = 1
  IdleLimit = 2
  StdoutEvents = 1
  MaxFrames = 3
  pre_roll_frames = 1
CHECK_DEADLOCK FALSE
PROPERTY OnlyQuietExpire
