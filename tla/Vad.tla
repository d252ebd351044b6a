-------------------------------- MODULE Vad --------------------------------
(***************************************************************************)
(* include/vhp/vad.hpp as operators on records: SpeechThresholdGate, the   *)
(* pre-roll ring and ChunkAssembler.  They are pure, so that a single      *)
(* stream (CallStream) and a table of sessions can both be built on them.  *)
(*                                                                         *)
(* A frame is a record with at least the fields seq and loud, where loud   *)
(* is the outcome of the two threshold tests of accept() on the frame's    *)
(* energy.  Times are in frame periods.                                    *)
(*                                                                         *)
(* Frames are assumed to have all the same length, as each producer of the *)
(* repository sends them, and bytes are counted in frames.  With mixed     *)
(* lengths a short frame may still fit in the buffer behind a longer one   *)
(* that append() left out.                                                 *)
(***************************************************************************)
EXTENDS Integers, Sequences

CONSTANTS
  speech_frames, silence_frames, cooldown_ms,  \* GateConfig
  pre_roll_frames, max_chunk_ms,               \* ChunkerConfig
  max_chunk_frames                             \* max_chunk_bytes, in frames

\* The constructor of the gate raises speech_frames to 1; every other
\* setting may be zero.
ASSUME VadAssumption ==
  /\ speech_frames \in Nat /\ speech_frames >= 1
  /\ \A n \in {silence_frames, cooldown_ms, pre_roll_frames,
               max_chunk_ms, max_chunk_frames} : n \in Nat

-----------------------------------------------------------------------------
(* SpeechThresholdGate.                                                    *)

NewGate == [loud_frames |-> 0, quiet_frames |-> 0, speaking |-> FALSE,
            has_triggered |-> FALSE, last_trigger |-> 0]

InCooldown(g, now) == g.has_triggered /\ now - g.last_trigger < cooldown_ms

Triggers(g, heard, now) ==
  ~ g.speaking /\ heard >= speech_frames /\ ~ InCooldown(g, now)

\* Slip: counting the frames before this one only.
Onset_LateByOne(g, loud, now) == loud /\ Triggers(g, g.loud_frames, now)

\* What accept() returns.
Onset(g, loud, now) == loud /\ Triggers(g, g.loud_frames + 1, now)

\* What accept() leaves in the gate, `quiet' being the new quiet count.
AcceptLoudLeaving(g, now, quiet) ==
  IF Onset(g, TRUE, now)
    THEN [loud_frames |-> IF silence_frames > 0 THEN g.loud_frames + 1 ELSE 0,
          quiet_frames |-> quiet,
          speaking |-> silence_frames > 0,
          has_triggered |-> TRUE,
          last_trigger |-> now]
    ELSE [g EXCEPT !.loud_frames = @ + 1, !.quiet_frames = quiet]

\* Slip: the quiet count survives a loud frame.
AcceptLoud_KeepsQuiet(g, now) == AcceptLoudLeaving(g, now, g.quiet_frames)

AcceptLoud(g, now) == AcceptLoudLeaving(g, now, 0)

AcceptQuiet(g) ==
  [g EXCEPT !.loud_frames = 0,
            !.quiet_frames = IF g.speaking THEN @ + 1 ELSE @,
            !.speaking = @ /\ g.quiet_frames + 1 < silence_frames]

Accept(g, loud, now) == IF loud THEN AcceptLoud(g, now) ELSE AcceptQuiet(g)

-----------------------------------------------------------------------------
(* PreRoll: a ring that overwrites its oldest frame.                       *)

NoFrame == [seq |-> 0, loud |-> FALSE]

NewPreRoll == [frames |-> [i \in 0 .. pre_roll_frames - 1 |-> NoFrame], head |-> 0]

PreRollPush(p, f) ==
  IF pre_roll_frames = 0
    THEN p
    ELSE [frames |-> [p.frames EXCEPT ![p.head % pre_roll_frames] = f],
          head |-> p.head + 1]

PreRollSize(p) == IF p.head < pre_roll_frames THEN p.head ELSE pre_roll_frames

FramesFrom(p, start) ==
  [i \in 1 .. PreRollSize(p) |-> p.frames[(start + i - 1) % pre_roll_frames]]

\* Slip: reading the ring from its first cell once it has wrapped.
PreRollFrames_FromZero(p) == FramesFrom(p, 0)

\* at(0) .. at(size() - 1).
PreRollFrames(p) == FramesFrom(p, p.head - PreRollSize(p))

-----------------------------------------------------------------------------
(* ChunkAssembler.                                                         *)

None == -1   \* an empty std::optional

NewAssembler ==
  [gate |-> NewGate, pre_roll |-> NewPreRoll, active |-> FALSE,
   buffer |-> <<>>, frame_count |-> 0, gap_frames |-> 0,
   first_seq |-> 0, last_seq |-> 0, t_speech_start |-> 0,
   last_seq_seen |-> None, next_chunk_id |-> 0]

OpenWith(a, now, gaps) ==
  [a EXCEPT !.active = TRUE, !.buffer = <<>>, !.frame_count = 0, !.gap_frames = gaps,
            !.first_seq = 0, !.last_seq = 0, !.t_speech_start = now]

\* Slip: the gaps of the previous chunk are kept.
OpenChunk_KeepsGaps(a, now) == OpenWith(a, now, a.gap_frames)

OpenChunk(a, now) == OpenWith(a, now, 0)

\* append(): audio beyond the ceiling is left out, the counters go on.
\* have_first_ is frame_count # 0.
AppendFrame(a, f) ==
  [a EXCEPT !.buffer = IF Len(@) < max_chunk_frames THEN Append(@, f) ELSE @,
            !.first_seq = IF a.frame_count = 0 THEN f.seq ELSE @,
            !.last_seq = f.seq,
            !.frame_count = @ + 1]

\* The frames of the pre-roll go to the chunk; `kept' of them stay as well.
\* open_chunk() has just been called, so the pre-roll is all there is.
TakePreRoll(a, kept) ==
  LET old == PreRollFrames(a.pre_roll)
      n   == Len(old)
  IN  [a EXCEPT !.buffer = SubSeq(old, 1, IF n < max_chunk_frames THEN n ELSE max_chunk_frames),
                !.first_seq = IF n > 0 THEN old[1].seq ELSE @,
                !.last_seq = IF n > 0 THEN old[n].seq ELSE @,
                !.frame_count = n,
                !.pre_roll.head = kept]

\* Slip: the pre-roll is not cleared.
FlushPreRoll_KeepsOld(a) == TakePreRoll(a, a.pre_roll.head)

FlushPreRoll(a) == TakePreRoll(a, 0)

\* The event of close_chunk().  `audio' is history: what the buffer holds at
\* that moment, which the event only identifies.
ChunkEvent(a, reason, now) ==
  [chunk_id |-> a.next_chunk_id, first_seq |-> a.first_seq, last_seq |-> a.last_seq,
   t_speech_start |-> a.t_speech_start, t_endpoint |-> now,
   frame_count |-> a.frame_count, byte_count |-> Len(a.buffer),
   dropped_frames |-> a.gap_frames, reason |-> reason, audio |-> a.buffer]

Closed(a) == [a EXCEPT !.active = FALSE, !.next_chunk_id = @ + 1]

\* An optional event is a sequence of at most one.
Result(a, out) == [assembler |-> a, out |-> out]

\* The end of on_frame(): hangover first, then the length cap, which starts
\* the next chunk at once.
CloseIf(a, now, too_long) ==
  LET event(reason) == <<ChunkEvent(a, reason, now)>>
  IN  CASE ~ a.active -> Result(a, <<>>)
        [] a.active /\ ~ a.gate.speaking -> Result(Closed(a), event("hangover"))
        [] a.active /\ a.gate.speaking /\ too_long ->
             Result(OpenChunk(Closed(a), now), event("max_length"))
        [] OTHER -> Result(a, <<>>)

\* Slip: a chunk may exceed the cap by one period.
CloseIfDue_OverCap(a, now) == CloseIf(a, now, now - a.t_speech_start > max_chunk_ms)

CloseIfDue(a, now) == CloseIf(a, now, now - a.t_speech_start >= max_chunk_ms)

\* Sequence numbers missing just before f.
GapBefore(a, f) ==
  IF a.last_seq_seen # None /\ f.seq > a.last_seq_seen + 1
    THEN f.seq - a.last_seq_seen - 1
    ELSE 0

\* The start of on_frame(): the gate hears the frame, and an onset opens a chunk
\* with the pre-roll.
Hear(a, f, now) ==
  LET heard == [a EXCEPT !.gate = Accept(@, f.loud, now),
                         !.gap_frames = @ + GapBefore(a, f),
                         !.last_seq_seen = f.seq]
  IN  IF Onset(a.gate, f.loud, now) /\ ~ a.active
        THEN FlushPreRoll(OpenChunk(heard, now))
        ELSE heard

KeepForPreRoll(a, f) == Result([a EXCEPT !.pre_roll = PreRollPush(@, f)], <<>>)

\* Slip: the cap is tested before the frame is appended, and the frame is lost.
OnFrame_CapFirst(a, f, now) ==
  LET h      == Hear(a, f, now)
      capped == now - h.t_speech_start >= max_chunk_ms
  IN  IF h.active THEN CloseIfDue(IF capped THEN h ELSE AppendFrame(h, f), now)
                  ELSE KeepForPreRoll(h, f)

OnFrame(a, f, now) ==
  LET h == Hear(a, f, now)
  IN  IF h.active THEN CloseIfDue(AppendFrame(h, f), now) ELSE KeepForPreRoll(h, f)

Flush(a, now) ==
  IF a.active
    THEN Result(Closed(a), <<ChunkEvent(a, "stream_end", now)>>)
    ELSE Result(a, <<>>)
=============================================================================
