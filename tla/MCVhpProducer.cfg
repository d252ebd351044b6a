SPECIFICATION Spec
CONSTANTS
  WordBits = 6
  sessions = 2
  total_frames = 3
  frame_ns = 2
  stall_every = 3
  stall = 1
  Attempts = 2
  Cells = 2
  Capacity = 2
  highest = 5
  MaxTime = 8
CHECK_DEADLOCK FALSE
INVARIANTS
  HistogramFaithful
  PercentileSound
  BucketsExact
  NoDrift
  StreamOrdered
  MuLawRoundTrip
