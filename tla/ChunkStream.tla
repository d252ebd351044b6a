---------------------------- MODULE ChunkStream ----------------------------
(***************************************************************************)
(* A chunk assembler as its caller sees it, one call of on_frame or flush  *)
(* at a time.  CallStream shows that the assembler of include/vhp/vad.hpp  *)
(* behaves so; HotPath relies on it for each of its sessions.              *)
(***************************************************************************)
EXTENDS Chunker

VARIABLES
  chunker,   \* frames held and kept
  shipped    \* frames in each chunk closed so far

chunkVars == <<chunker, shipped>>

Init == chunker = NewChunker /\ shipped = <<>>

Take(step) == /\ chunker' = step.chunker
              /\ shipped' = shipped \o step.out

Next == \/ \E step \in FrameSteps(chunker) : Take(step)
        \/ Take(FlushStep(chunker))

Spec == Init /\ [][Next]_chunkVars
=============================================================================
