SPECIFICATION Spec
CONSTANTS
  speech_frames = 2
  silence_frames = 2
  cooldown_ms = 0
  pre_roll_frames = 2
  max_chunk_ms = 4
  max_chunk_frames = 5
  Delays = {1}
  Gaps = {0}
  Starts = {0}
  MaxFrames = 6
  MaxCalls = 2
CHECK_DEADLOCK FALSE
INVARIANT SpeechHeard
