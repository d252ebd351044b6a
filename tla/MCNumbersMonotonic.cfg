SPECIFICATION Spec
CONSTANTS
  sessions = 2
  totalFrames = 3
  Cells = 2
  Room = 3
CHECK_DEADLOCK FALSE
INVARIANT NumbersMonotonic
