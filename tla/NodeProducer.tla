---------------------------- MODULE NodeProducer ----------------------------
(***************************************************************************)
(* tools/node_producer.mjs: the gateway's side of the socket.  One buffer, *)
(* `wire', is filled and written for every frame.  socket.write() hands    *)
(* the kernel what it has room for at once; the rest is queued by          *)
(* reference, and is read from `wire' when the event loop gets to send it. *)
(* The reader may close its end at any time; what it has not read is lost. *)
(***************************************************************************)
EXTENDS Naturals, Sequences

CONSTANTS
  sessions,      \* calls written at every tick
  totalFrames,   \* ticks
  Cells,         \* cells of a frame: the header is the first
  Room           \* cells the kernel holds for the reader

ASSUME NodeAssumption ==
  /\ {sessions, totalFrames, Cells, Room} \subseteq Nat
  /\ sessions >= 1 /\ Cells >= 1 /\ Room >= 1

VARIABLES
  wire,       \* what the buffer holds: seq and session of the frame
  sessionId,  \* next call of the tick in progress
  seq,
  pending,    \* for each write not finished, the cells of it that were sent
  kernel,     \* cells the reader has not read
  received,   \* cells it has read
  blocked,    \* history: a write was once queued
  closed,     \* the reader has closed its end
  pc          \* "connecting", "tick" within a tick, "loop" between two, "exited"

vars == <<wire, sessionId, seq, pending, kernel, received, blocked, closed, pc>>

Init ==
  /\ wire = [seq |-> 0, session |-> 0] /\ sessionId = 0 /\ seq = 0
  /\ pending = <<>> /\ kernel = <<>> /\ received = <<>>
  /\ blocked = FALSE /\ closed = FALSE /\ pc = "connecting"

\* What the kernel takes now: nothing once the reader has gone.
Free == IF closed THEN 0 ELSE Room - Len(kernel)

Least(m, n) == IF m <= n THEN m ELSE n

\* The cells of the buffer from the first to the last given.
CellsOf(content, first, last) ==
  [i \in 1 .. last + 1 - first |-> [frame |-> content, k |-> first - 1 + i]]

\* The connection is made, or the timer fires: tick() is called.
Tick ==
  /\ pc \in {"connecting", "loop"} /\ seq < totalFrames
  /\ pc' = "tick" /\ sessionId' = 0
  /\ UNCHANGED <<wire, seq, pending, kernel, received, blocked, closed>>

\* The buffer takes the frame of the next call; the first `now' cells of it go to
\* the kernel at once, the rest is queued.
WriteCells(now) ==
  /\ pc = "tick" /\ sessionId < sessions
  /\ wire' = [seq |-> seq, session |-> sessionId]
  /\ kernel' = kernel \o CellsOf(wire', 1, now)
  /\ pending' = IF now < Cells THEN Append(pending, now) ELSE pending
  /\ blocked' = (blocked \/ now < Cells)
  /\ sessionId' = sessionId + 1
  /\ UNCHANGED <<seq, received, closed, pc>>

\* Slip: the write goes straight to the kernel with another still queued.
WriteFrame_NoQueue == WriteCells(Least(Cells, Free))

\* At once goes what the kernel has room for, if nothing is queued before it.
WriteFrame == WriteCells(IF pending = <<>> THEN Least(Cells, Free) ELSE 0)

EndTickAfter(calls) ==
  /\ pc = "tick" /\ sessionId >= calls
  /\ seq' = seq + 1 /\ pc' = "loop"
  /\ UNCHANGED <<wire, sessionId, pending, kernel, received, blocked, closed>>

\* Slip: the number is taken before every call had its frame.
EndTick_Early == EndTickAfter(sessions - 1)

EndTick == EndTickAfter(sessions)

\* The event loop sends more of the first queued write, from the buffer as it
\* is now.
Drain ==
  /\ pc = "loop" /\ pending # <<>> /\ Free > 0
  /\ LET last == Least(Cells, Head(pending) + Free)
     IN  /\ kernel' = kernel \o CellsOf(wire, Head(pending) + 1, last)
         /\ pending' = IF last = Cells THEN Tail(pending) ELSE <<last>> \o Tail(pending)
  /\ UNCHANGED <<wire, sessionId, seq, received, blocked, closed, pc>>

\* process.exit(): what is queued goes with the process, what the kernel has stays.
Exit ==
  /\ pc' = "exited" /\ pending' = <<>>
  /\ UNCHANGED <<wire, sessionId, seq, kernel, received, blocked, closed>>

\* tick() finds every frame written: finish() ends the socket and exits, and does not
\* wait for the queued writes.
Finish == pc \in {"connecting", "loop"} /\ seq >= totalFrames /\ Exit

\* The error handler: the connection is refused, or the reader has gone.
SocketFails == (pc = "connecting" \/ (pc = "loop" /\ closed)) /\ Exit

\* The reader closes its end, with what it has not read.
HangUp ==
  /\ pc # "connecting" /\ ~ closed
  /\ closed' = TRUE /\ kernel' = <<>>
  /\ UNCHANGED <<wire, sessionId, seq, pending, received, blocked, pc>>

\* pump() of the consumer reads.
Read ==
  /\ kernel # <<>>
  /\ \E n \in 1 .. Len(kernel) :
       /\ received' = received \o SubSeq(kernel, 1, n)
       /\ kernel' = SubSeq(kernel, n + 1, Len(kernel))
  /\ UNCHANGED <<wire, sessionId, seq, pending, blocked, closed, pc>>

Next == Tick \/ WriteFrame \/ EndTick \/ Drain \/ Finish \/ SocketFails \/ HangUp \/ Read

Spec == Init /\ [][Next]_vars

-----------------------------------------------------------------------------
(* Properties.                                                             *)

Frames == [seq : 0 .. totalFrames, session : 0 .. sessions]
CellSet == [frame : Frames, k : 1 .. Cells]

TypeOK ==
  /\ wire \in Frames /\ sessionId \in 0 .. sessions /\ seq \in 0 .. totalFrames
  /\ pending \in Seq(0 .. Cells - 1)
  /\ kernel \in Seq(CellSet) /\ received \in Seq(CellSet) /\ Len(kernel) <= Room
  /\ {blocked, closed} \subseteq BOOLEAN
  /\ pc \in {"connecting", "tick", "loop", "exited"}

Stream == received \o kernel

\* The reader never loses its place: whatever a frame holds by now, it is sent
\* cell after cell, once, and no other frame begins inside it.
FramingKept == \A i \in 1 .. Len(Stream) : Stream[i].k = ((i - 1) % Cells) + 1

\* Frames written so far.
Written == IF pc = "tick" THEN seq * sessions + sessionId ELSE seq * sessions

\* Cells that the queued writes still have to send.
Owed == IF pending = <<>> THEN 0 ELSE Cells * Len(pending) - Head(pending)

\* While the process lives and the reader reads, each cell of each frame written is in
\* the stream or still queued. What is queued at the exit is lost.
NoneForgotten ==
  pc # "exited" /\ ~ closed => Cells * Written = Len(Stream) + Owed

\* The types, and node_producer.mjs:145: what reaches the socket stays framed although
\* writes are cut, queued, overtaken by the refilled buffer and thrown away at the exit;
\* and until then no cell is lost or sent twice.
StreamInv == TypeOK /\ FramingKept /\ NoneForgotten

\* node_producer.mjs:158: while no write was ever queued the stream is what was written,
\* frame by frame: header and payload of the same frame, the calls in turn. And it is
\* all of it, also after the exit, which waits for nothing.
IntactUntilBlocked ==
  ~ blocked =>
    /\ \A i \in 1 .. Len(Stream) :
         LET n == (i - 1) \div Cells
         IN  Stream[i].frame = [seq |-> n \div sessions, session |-> n % sessions]
    /\ ~ closed => Cells * Written = Len(Stream)

-----------------------------------------------------------------------------
(* Statements that the code does not keep.                                 *)

\* audio_frame.hpp:32: the sequence numbers of a call are monotonic and a gap
\* is a loss, so no frame of a call arrives twice.
NumbersMonotonic ==
  \A i, j \in 1 .. Len(received) :
    i < j /\ received[i].k = 1 /\ received[j].k = 1
      /\ received[i].frame.session = received[j].frame.session
      => received[i].frame.seq < received[j].frame.seq

\* A producer that ends well has sent every frame: finish() exits with writes queued.
CompleteAtExit ==
  pc = "exited" /\ seq = totalFrames /\ ~ closed => Cells * Written = Len(Stream)
=============================================================================
