----------------------------- MODULE CallStream -----------------------------
(***************************************************************************)
(* One ChunkAssembler fed by the frames of the calls that own it, one      *)
(* after the other, the way hot_loop drives the assembler of a session:    *)
(* on_frame for each frame popped, flush when the session is released      *)
(* (idle for too long, or at shutdown), and then the frames of the next    *)
(* call that acquires the session object.  acquire() does not touch the    *)
(* assembler.                                                              *)
(***************************************************************************)
EXTENDS Vad, SequencesExt

CONSTANTS
  Delays,      \* periods between two frames: 1 is the cadence, more is a
               \* stall, 0 is a backlog drained at once
  Gaps,        \* frames lost upstream just before a frame
  Starts,      \* what the producer of the next call counts from: 0 for a new
               \* call, more for a call that was expired and resumes
  MaxFrames,   \* bound: frames fed
  MaxCalls     \* bound: calls that own the session in turn

ASSUME StreamAssumption ==
  /\ Delays \subseteq Nat /\ Gaps \subseteq Nat /\ Starts \subseteq Nat
  /\ MaxFrames \in Nat /\ MaxCalls \in Nat /\ MaxCalls >= 1

VARIABLES
  assembler,   \* session->assembler
  now,         \* the hot thread's clock, in frame periods
  call,        \* the call that owns the session
  next_seq,    \* next sequence number its producer assigns
  fed,         \* history: frames given to on_frame
  events       \* history: chunk events emitted

vars == <<assembler, now, call, next_seq, fed, events>>

Init ==
  /\ assembler = NewAssembler
  /\ now = 1 /\ call = 1 /\ next_seq = 0
  /\ fed = <<>> /\ events = <<>>

Apply(result) == /\ assembler' = result.assembler
                 /\ events' = events \o result.out

\* A frame of the current call: on_frame.  `id' and `lost' are history.
Frame(gap, loud, delay) ==
  LET f == [id |-> Len(fed) + 1, call |-> call, seq |-> next_seq + gap, loud |-> loud,
            lost |-> gap]
  IN  /\ Len(fed) < MaxFrames
      /\ now' = now + delay
      /\ Apply(OnFrame(assembler, f, now'))
      /\ fed' = Append(fed, f)
      /\ next_seq' = f.seq + 1
      /\ UNCHANGED call

\* The session is released, and its object goes to the next call.
EndCall(delay, start) ==
  /\ call < MaxCalls
  /\ now' = now + delay
  /\ Apply(Flush(assembler, now'))
  /\ call' = call + 1
  /\ next_seq' = start
  /\ UNCHANGED fed

Next == \E delay \in Delays :
          \/ \E gap \in Gaps, loud \in BOOLEAN : Frame(gap, loud, delay)
          \/ \E start \in Starts : EndCall(delay, start)

Spec == Init /\ [][Next]_vars

-----------------------------------------------------------------------------
(* Properties.                                                             *)

FrameSet == [id : 1 .. MaxFrames, call : 1 .. MaxCalls, seq : Nat, loud : BOOLEAN,
             lost : Gaps]

\* Types, and the ceilings the assembler keeps: the buffer never outgrows
\* max_chunk_bytes, and the quiet count never passes silence_frames.
TypeOK ==
  /\ now \in Nat /\ call \in Nat /\ next_seq \in Nat
  /\ fed \in Seq(FrameSet) /\ assembler.buffer \in Seq(FrameSet)
  /\ Len(assembler.buffer) <= max_chunk_frames
  /\ assembler.gate.loud_frames \in Nat
  /\ assembler.gate.quiet_frames \in 0 .. silence_frames
  /\ \A e \in Range(events) :
       /\ e.reason \in {"hangover", "max_length", "stream_end"}
       /\ e.byte_count <= max_chunk_frames /\ e.dropped_frames \in Nat

\* vad.hpp:103: whatever stalls and bursts the frames come in, after a frame
\* no open chunk is as old as the cap, unless it has just been opened.
BoundedLatency ==
  assembler.active => \/ now - assembler.t_speech_start < max_chunk_ms
                      \/ now = assembler.t_speech_start

\* The bounds of an assembler: its types, its buffer and counts, and the age of
\* the chunk it holds open (vad.hpp:103).
AssemblerInv == TypeOK /\ BoundedLatency

\* Closed chunks, then the one being assembled.
Chunks ==
  LET open == [frame_count |-> assembler.frame_count, audio |-> assembler.buffer,
               first_seq |-> assembler.first_seq, last_seq |-> assembler.last_seq,
               reason |-> "open"]
  IN  IF assembler.active THEN Append(events, open) ELSE events

FirstId(c) == c.audio[1].id
LastId(c) == FirstId(c) + c.frame_count - 1

\* A chunk is a contiguous run of the frames fed, and its counters describe
\* the whole run even when the buffer was full before its end.
ChunksAreRuns ==
  \A c \in Range(Chunks) : c.audio # <<>> =>
    /\ c.first_seq = fed[FirstId(c)].seq
    /\ c.last_seq = fed[LastId(c)].seq
    /\ c.audio = SubSeq(fed, FirstId(c),
                        FirstId(c) - 1 + (IF c.frame_count < max_chunk_frames
                                            THEN c.frame_count ELSE max_chunk_frames))

\* No frame is shipped twice, and chunks follow the order of the stream.
ChunksInOrder ==
  \A i, j \in 1 .. Len(Chunks) :
    i < j /\ Chunks[i].audio # <<>> /\ Chunks[j].audio # <<>>
      => LastId(Chunks[i]) < FirstId(Chunks[j])

\* A forced close loses nothing: the next chunk resumes on the very next
\* frame (test_chunker.cpp:127, `a gap here means audio was dropped
\* mid-utterance').
MaxLengthGapless ==
  \A i \in 1 .. Len(Chunks) - 1 :
    Chunks[i].reason = "max_length" /\ Chunks[i].audio # <<>> /\ Chunks[i + 1].audio # <<>>
      => FirstId(Chunks[i + 1]) = LastId(Chunks[i]) + 1

\* The chunks cut the stream of frames at the right places: each is a run of it,
\* they do not overlap, and a forced close leaves nothing out (vad.hpp:118-153).
ChunksCutStream == ChunksAreRuns /\ ChunksInOrder /\ MaxLengthGapless

\* The number of frames at the end of fed that satisfy Test.
TrailingRun(Test(_)) ==
  LET breaks == {i \in 1 .. Len(fed) : ~ Test(fed[i])}
  IN  Len(fed) - (IF breaks = {} THEN 0 ELSE CHOOSE i \in breaks : \A j \in breaks : j <= i)

Quiet(f) == ~ f.loud

\* test_chunker.cpp:164: the endpoint fires on exactly the silence_frames-th
\* quiet frame in a row, never before and never after, also when a forced close
\* fell inside the silence.
EndpointExact ==
  [][fed' # fed /\ (assembler.active \/ assembler'.active) =>
       ((events' # events /\ Last(events').reason = "hangover")
          <=> TrailingRun(Quiet)' >= silence_frames)]_vars

\* The pre-roll of a chunk is exactly the last pre_roll_frames frames before
\* the onset frame that no earlier chunk has shipped.  (Its audio tells which
\* frames a chunk has: there is none without a buffer.)
PreRollExact ==
  [][~ assembler.active /\ Len(Chunks') > Len(Chunks) /\ max_chunk_frames > 0 =>
       LET opened  == Chunks'[Len(Chunks) + 1]
           shipped == {LastId(c) : c \in {e \in Range(events) : e.audio # <<>>}}
           wanted  == Len(fed') - pre_roll_frames
       IN  \A id \in 1 .. Len(fed') :
             id >= FirstId(opened)
               <=> id >= wanted /\ \A end \in shipped : id > end]_vars

\* The frames of this call that end fed.
LoudInThisCall(f) == f.loud /\ f.call = call

\* vad.hpp:31: speech_frames loud frames in a row open a chunk, unless the
\* cooldown since the previous onset says otherwise.
SpeechHeard ==
  silence_frames > 0 /\ ~ assembler.active
    => \/ TrailingRun(LoudInThisCall) < speech_frames
       \/ InCooldown(assembler.gate, now)

\* The same for the call that gets a new session object.  A later call
\* may be deaf: SpeechHeard itself does not hold.
SpeechHeardInFirstCall == call = 1 => SpeechHeard

\* f[1] + ... + f[n].
Total(f, n) ==
  LET total[k \in 0 .. n] == IF k = 0 THEN 0 ELSE total[k - 1] + f[k]
  IN  total[n]

\* audio_frame.hpp:32, `gaps == loss': every loss a chunk reports really
\* happened, and is reported by one chunk only.
ReportedLossIsReal ==
  Total([i \in 1 .. Len(events) |-> events[i].dropped_frames], Len(events))
    <= Total([i \in 1 .. Len(fed) |-> fed[i].lost], Len(fed))

\* The code around the assembler sees no more of it than ChunkStream says: each
\* frame goes to the open chunk or to the pre-roll, an onset takes the whole
\* pre-roll into the chunk, and a closed chunk counts all of its frames.
Counts ==
  INSTANCE ChunkStream
    WITH chunker <- [open |-> assembler.active,
                     held |-> IF assembler.active THEN assembler.frame_count ELSE 0,
                     kept |-> Len(PreRollFrames(assembler.pre_roll))],
         shipped <- [i \in 1 .. Len(events) |-> events[i].frame_count]

ChunkStreamSpec == Counts!Spec

-----------------------------------------------------------------------------
(* Statements of the sources that the code does not keep.                  *)

\* vad.hpp:117: the caller that receives a chunk's event finds its audio in the
\* buffer.
AudioReadable ==
  [][events' # events => assembler'.buffer = Last(events').audio]_vars

\* audio_frame.hpp:75: dropped_frames is the number of gaps inside the chunk.
DroppedInside ==
  \A e \in Range(events) : e.frame_count > 0 =>
    e.dropped_frames = e.last_seq - e.first_seq + 1 - e.frame_count

\* vad.hpp:99: the pre-roll is audio from before the onset, of the same call.
ChunkOfOneCall ==
  \A c \in Range(Chunks) : \A f \in Range(c.audio) : f.call = c.audio[1].call
=============================================================================
