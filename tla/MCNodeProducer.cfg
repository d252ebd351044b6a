SPECIFICATION Spec
CONSTANTS
  sessions = 2
  totalFrames = 4
  Cells = 3
  Room = 5
CHECK_DEADLOCK FALSE
INVARIANTS
  StreamInv
  IntactUntilBlocked
