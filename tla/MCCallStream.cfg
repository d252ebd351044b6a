SPECIFICATION Spec
CONSTANTS
  speech_frames = 2
  silence_frames = 2
  cooldown_ms = 3
  pre_roll_frames = 2
  max_chunk_ms = 4
  max_chunk_frames = 3
  Delays = {1, 3}
  Gaps = {0, 1}
  Starts = {3}
  MaxFrames = 7
  MaxCalls = 2
CHECK_DEADLOCK FALSE
INVARIANTS
  AssemblerInv
  ChunksCutStream
  SpeechHeardInFirstCall
  ReportedLossIsReal
PROPERTIES
  EndpointExact
  PreRollExact
  ChunkStreamSpec
