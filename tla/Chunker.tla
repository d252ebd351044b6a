------------------------------ MODULE Chunker ------------------------------
(***************************************************************************)
(* What a chunk assembler is to the code around it, as operators: how many *)
(* frames the open chunk and the pre-roll hold, and which chunks come out. *)
(* When the gate opens and closes is left open.                            *)
(***************************************************************************)
EXTENDS Naturals, Sequences

CONSTANT pre_roll_frames   \* ChunkerConfig

\* No chunk is open; the chunk holds nothing, and neither does the pre-roll.
NewChunker == [open |-> FALSE, held |-> 0, kept |-> 0]

\* What a call returns: the chunker after it, and the frames of the chunk it
\* closed, as a sequence of at most one number.
Step(open, held, kept, out) ==
  [chunker |-> [open |-> open, held |-> held, kept |-> kept], out |-> out]

\* The outcomes of on_frame: the frame joins the chunk, which may be closed at
\* its cap and reopened, or end, also on the very frame that opened it (when
\* silence_frames is 0); or it joins the pre-roll.
FrameSteps(c) ==
  LET n    == c.held + c.kept + 1
      kept == IF c.kept < pre_roll_frames THEN c.kept + 1 ELSE c.kept
  IN  {Step(TRUE, n, 0, <<>>), Step(TRUE, 0, 0, <<n>>), Step(FALSE, 0, 0, <<n>>)}
        \cup (IF c.open THEN {} ELSE {Step(FALSE, 0, kept, <<>>)})

\* Slip: the chunk is shipped and kept for the pre-roll as well.
FlushStep_KeepsFrames(c) ==
  IF c.open THEN Step(FALSE, 0, pre_roll_frames, <<c.held>>) ELSE Step(FALSE, 0, c.kept, <<>>)

\* The outcome of flush.
FlushStep(c) ==
  IF c.open THEN Step(FALSE, 0, 0, <<c.held>>) ELSE Step(FALSE, 0, c.kept, <<>>)
=============================================================================
