------------------------------ MODULE HotPath ------------------------------
(***************************************************************************)
(* The consumer process of src/vhp_consumer.cpp: whoever feeds the frame   *)
(* ring (a producer process, or the socket thread), the hot thread running *)
(* hot_loop, the event ring, the publisher thread, and how main ends it.   *)
(*                                                                         *)
(* The components it is made of are taken at their specifications: both    *)
(* rings are bounded FIFOs (BoundedFifo, implemented by SpscRing), the     *)
(* session table opens, refuses and forgets calls (Admission, implemented  *)
(* by SessionTable), and an assembler holds frames and ships chunks        *)
(* (ChunkStream, implemented by CallStream).                               *)
(*                                                                         *)
(* A step is what a thread does from one access to shared memory to the    *)
(* next; what it does to memory of its own in between is part of it.       *)
(*                                                                         *)
(* Standard output is a pipe or a file: the C library writes its buffer    *)
(* when a line no longer fits, and when it is told to.                     *)
(***************************************************************************)
EXTENDS Chunker, Integers, FiniteSetsExt, SequencesExt

CONSTANTS
  Ids,             \* session ids that frames carry
  MaxSessions,     \* --max-sessions
  FrameCapacity,   \* kFrameRingCapacity
  EventCapacity,   \* kEventRingCapacity
  IdleLimit,       \* --session-idle-ms, in units of Tick
  StdoutEvents,    \* event lines that the buffer of standard output holds
  MaxFrames        \* bound of the model: frames the feeder offers

ASSUME HotPathAssumption ==
  /\ IsFiniteSet(Ids)
  /\ \A n \in {MaxSessions, FrameCapacity, EventCapacity, IdleLimit, StdoutEvents} :
       n \in Nat /\ n >= 1
  /\ pre_roll_frames \in Nat /\ MaxFrames \in Nat

VARIABLES
  g_running,         \* cleared by a signal, read by every loop
  next_seq,          \* the feeder's sequence number for each call
  ring_full_drops,   \* frames the feeder shed
  frames,            \* the frame ring
  hot_pc,            \* where the hot thread stands; main runs on it too
  hand,              \* the frame it has popped
  due,               \* session objects the sweep in progress is to release
  hot_done,          \* tells the publisher that no event will follow
  objects,           \* the session objects
  metrics,           \* HotPathMetrics, and the table's rejected_
  events,            \* the event ring
  pub_pc,            \* where the publisher stands
  buffered,          \* what it has printed and not flushed
  published          \* standard output: chunks, their frames, the last one's number

feed == <<next_seq, ring_full_drops, frames>>
hot == <<hot_pc, hand, due, hot_done>>
table == <<objects, metrics, events>>
pub == <<pub_pc, buffered, published>>
vars == <<g_running, feed, hot, table, pub>>

Objects == 1 .. MaxSessions
None == -1   \* have_last_seq is false

NewObject == [id |-> None, active |-> FALSE, age |-> 0, last_seq |-> None,
              chunker |-> NewChunker]

NoMetrics == [frames |-> 0, chunks |-> 0, seq_gaps |-> 0, event_drops |-> 0,
              frames_refused |-> 0, sessions_rejected |-> 0]

Init ==
  /\ g_running = TRUE
  /\ next_seq = [id \in Ids |-> 0] /\ ring_full_drops = 0 /\ frames = <<>>
  /\ hot_pc = "setup" /\ hand = <<>> /\ due = {} /\ hot_done = FALSE
  /\ objects = [i \in Objects |-> NewObject] /\ metrics = NoMetrics /\ events = <<>>
  /\ pub_pc = "done?" /\ buffered = <<>> /\ published = [chunks |-> 0, frames |-> 0, last |-> 0]

-----------------------------------------------------------------------------
(* The surroundings: time, signals, and the feeder of the frame ring.      *)

Active(i) == objects[i].active

\* Time passes wherever the threads are: any of them may be descheduled.
Tick ==
  /\ hot_pc # "exited"
  /\ objects' = [i \in Objects |-> IF Active(i) /\ objects[i].age < IdleLimit
                                     THEN [objects[i] EXCEPT !.age = @ + 1]
                                     ELSE objects[i]]
  /\ UNCHANGED <<g_running, feed, hot, metrics, events, pub>>

\* SIGINT or SIGTERM.
Signal == g_running /\ g_running' = FALSE /\ UNCHANGED <<feed, hot, table, pub>>

SumOver(f, S) == FoldFunctionOnSet(+, 0, f, S)

Offered == SumOver(next_seq, Ids)

RoomForFrame == Len(frames) < FrameCapacity

\* The next frame of a call is pushed, or shed when the ring is full.
Feed(id) ==
  /\ Offered < MaxFrames
  /\ next_seq' = [next_seq EXCEPT ![id] = @ + 1]
  /\ frames' = IF RoomForFrame THEN Append(frames, [id |-> id, seq |-> next_seq[id]]) ELSE frames
  /\ ring_full_drops' = IF RoomForFrame THEN ring_full_drops ELSE ring_full_drops + 1
  /\ UNCHANGED <<g_running, hot, table, pub>>

-----------------------------------------------------------------------------
(* The hot thread.                                                         *)

\* The segment and the session table are made, or cannot be: the exception
\* leaves hot_loop, and main goes on to the end with what it has.
Setup ==
  /\ hot_pc = "setup"
  /\ hot_pc' \in {"top", "returned"}
  /\ UNCHANGED <<g_running, feed, hand, due, hot_done, table, pub>>

RoomForEvent == Len(events) < EventCapacity

\* The chunk's event is pushed, or counted as dropped; `counted' chunks are
\* added to the count of chunks.
EmitCounting(m, out, counted) ==
  /\ events' = IF RoomForEvent
                 THEN events \o [n \in 1 .. Len(out) |->
                                   [number |-> m.chunks + n, frame_count |-> out[n]]]
                 ELSE events
  /\ metrics' = [m EXCEPT !.chunks = @ + counted,
                          !.event_drops = IF RoomForEvent THEN @ ELSE @ + Len(out)]

\* Slip: a chunk is counted only when its event was accepted.
Emit_CountsAccepted(m, out) == EmitCounting(m, out, IF RoomForEvent THEN Len(out) ELSE 0)

\* emit().
Emit(m, out) == EmitCounting(m, out, Len(out))

Idle == {i \in Objects : Active(i) /\ objects[i].age >= IdleLimit}

\* Slip: the loop does not look at g_running.
LoopTop_ForEver ==
  /\ hot_pc = "top"
  /\ \/ hot_pc' = "expire_idle" /\ due' = Idle
     \/ hot_pc' = "pop" /\ due' = {}
  /\ UNCHANGED <<g_running, feed, hand, hot_done, table, pub>>

\* Another iteration: every 250 ms expire_idle first, then try_pop.
LoopTop == g_running /\ LoopTop_ForEver

\* The loop ends, on a signal or at the deadline of --seconds.
LoopEnd ==
  /\ hot_pc = "top"
  /\ hot_pc' = "flush_all" /\ due' = {i \in Objects : Active(i)}
  /\ UNCHANGED <<g_running, feed, hand, hot_done, table, pub>>

\* The next session of expire_idle or flush_all: flush, emit, release.
Release ==
  /\ hot_pc \in {"expire_idle", "flush_all"} /\ due # {}
  /\ LET i    == Min(due)
         step == FlushStep(objects[i].chunker)
     IN  /\ Emit(metrics, step.out)
         /\ objects' = [objects EXCEPT ![i].active = FALSE, ![i].chunker = step.chunker]
         /\ due' = due \ {i}
  /\ UNCHANGED <<g_running, feed, hot_pc, hand, hot_done, pub>>

SweepEnd ==
  /\ hot_pc \in {"expire_idle", "flush_all"} /\ due = {}
  /\ hot_pc' = IF hot_pc = "flush_all" THEN "returned" ELSE "pop"
  /\ UNCHANGED <<g_running, feed, hand, due, hot_done, table, pub>>

Pop ==
  /\ hot_pc = "pop"
  /\ IF frames = <<>>
       THEN hot_pc' = "top" /\ UNCHANGED <<frames, hand>>
       ELSE hot_pc' = "work" /\ hand' = <<Head(frames)>> /\ frames' = Tail(frames)
  /\ UNCHANGED <<g_running, next_seq, ring_full_drops, due, hot_done, table, pub>>

Later(i, seq) == Active(i) /\ objects[i].last_seq # None /\ seq > objects[i].last_seq + 1

\* Slip: the frame that shows the gap is counted with those missing.
SeqGap_CountsItself(i, seq) == IF Later(i, seq) THEN seq - objects[i].last_seq ELSE 0

\* Sequence numbers missing since the last frame of the session in object i.
SeqGap(i, seq) == IF Later(i, seq) THEN seq - objects[i].last_seq - 1 ELSE 0

\* The frame in hand goes to the session in object i.
Process(i) ==
  LET frame == hand[1]
  IN  \E step \in FrameSteps(objects[i].chunker) :
        /\ objects' = [objects EXCEPT ![i] = [id |-> frame.id, active |-> TRUE, age |-> 0,
                                              last_seq |-> frame.seq,
                                              chunker |-> step.chunker]]
        /\ Emit([metrics EXCEPT !.seq_gaps = @ + SeqGap(i, frame.seq),
                                !.frames = @ + 1],
                step.out)

SessionOf(id) == {i \in Objects : Active(i) /\ objects[i].id = id}

FrameDone == /\ hot_pc' = "top" /\ hand' = <<>>
             /\ UNCHANGED <<g_running, feed, due, hot_done, pub>>

\* A frame of a call in progress, or the first of a call that is admitted.
Work ==
  /\ hot_pc = "work"
  /\ IF SessionOf(hand[1].id) # {}
       THEN \E i \in SessionOf(hand[1].id) : Process(i)
       ELSE \E i \in {j \in Objects : ~ Active(j)} : Process(i)
  /\ FrameDone

\* The table is full: the frame is refused, and counted `times' times.
RefuseCounting(times) ==
  /\ hot_pc = "work"
  /\ SessionOf(hand[1].id) = {} /\ \A i \in Objects : Active(i)
  /\ metrics' = [metrics EXCEPT !.frames_refused = @ + times, !.sessions_rejected = @ + 1]
  /\ UNCHANGED <<objects, events>>
  /\ FrameDone

\* Slip: a refused frame is not counted.
Refuse_Silently == RefuseCounting(0)

Refuse == RefuseCounting(1)

\* main, once hot_loop has returned or thrown.  With the socket it clears g_running
\* and stops the ingest, which returns (StopReturns of UdsIngest); with the shared
\* segment, or after an exception, it does neither.
StopIngest ==
  /\ hot_pc = "returned"
  /\ hot_pc' = "stopped" /\ g_running' \in {g_running, FALSE}
  /\ UNCHANGED <<feed, hand, due, hot_done, table, pub>>

StoreDone ==
  /\ hot_pc = "stopped"
  /\ hot_pc' = "join" /\ hot_done' = TRUE
  /\ UNCHANGED <<g_running, feed, hand, due, table, pub>>

Join ==
  /\ hot_pc = "join" /\ pub_pc = "exited"
  /\ hot_pc' = "exited"
  /\ UNCHANGED <<g_running, feed, hand, due, hot_done, table, pub>>

-----------------------------------------------------------------------------
(* The publisher thread.                                                   *)

FramesIn(chunks) == SumOver([n \in DOMAIN chunks |-> chunks[n].frame_count], DOMAIN chunks)

others == <<g_running, feed, hot, objects, metrics>>

\* Standard output with what is buffered written to it.
Written == [chunks |-> published.chunks + Len(buffered),
            frames |-> published.frames + FramesIn(buffered),
            last |-> IF buffered = <<>> THEN published.last ELSE Last(buffered).number]

\* fflush(stdout).
Flush == published' = Written /\ buffered' = <<>>

\* The loop ends when `over', and flushes.
LeaveIf(over) ==
  /\ pub_pc' = IF over THEN "exited" ELSE "pop"
  /\ IF over THEN Flush ELSE UNCHANGED <<buffered, published>>
  /\ UNCHANGED <<others, events>>

\* Slip: leaving as soon as hot_done is seen.
TestDone_Exits == pub_pc = "done?" /\ LeaveIf(hot_done)

\* The loop condition, left to right: hot_done first, and only once it is seen
\* set the event ring.
TestDone ==
  /\ pub_pc = "done?"
  /\ pub_pc' = IF hot_done THEN "empty?" ELSE "pop"
  /\ UNCHANGED <<others, events, buffered, published>>

TestEmpty == pub_pc = "empty?" /\ LeaveIf(events = <<>>)

\* printf of a line to a buffer with room for it.
BufferLine(event) ==
  /\ Len(buffered) < StdoutEvents
  /\ buffered' = Append(buffered, event)
  /\ UNCHANGED published

\* To a full one: the library writes what is there.
BufferWhenFull(event) ==
  /\ Len(buffered) >= StdoutEvents
  /\ published' = Written
  /\ buffered' = <<event>>

\* try_pop and printf.
Publish ==
  /\ pub_pc = "pop" /\ events # <<>>
  /\ events' = Tail(events)
  /\ BufferLine(Head(events)) \/ BufferWhenFull(Head(events))
  /\ pub_pc' = "done?"
  /\ UNCHANGED others

\* Slip: sleeping without the flush.
Drained_NoFlush ==
  /\ pub_pc = "pop" /\ events = <<>>
  /\ pub_pc' = "done?"
  /\ UNCHANGED <<others, events, buffered, published>>

\* The ring has drained: flush what was printed, and sleep.
Drained ==
  /\ pub_pc = "pop" /\ events = <<>>
  /\ Flush
  /\ pub_pc' = "done?"
  /\ UNCHANGED <<others, events>>

-----------------------------------------------------------------------------
\* What the hot thread does without being asked to end.
InLoop == LoopTop \/ Release \/ SweepEnd \/ Pop \/ Work \/ Refuse

HotThread == Setup \/ InLoop \/ LoopEnd \/ StopIngest \/ StoreDone \/ Join

Publisher == TestDone \/ TestEmpty \/ Publish \/ Drained

Next == Tick \/ Signal \/ HotThread \/ Publisher \/ \E id \in Ids : Feed(id)

Spec == Init /\ [][Next]_vars

\* Both threads of the process keep running.  The hot thread leaves the loop
\* only when it finds g_running cleared: a deadline need not be set.  Nothing is
\* assumed of the feeder, of signals, or of the sweep.
HotProgress ==
  Setup \/ InLoop \/ (LoopEnd /\ ~ g_running) \/ StopIngest \/ StoreDone \/ Join

FairSpec == Spec /\ WF_vars(HotProgress) /\ WF_vars(Publisher)

-----------------------------------------------------------------------------
(* Properties.                                                             *)

Frames == [id : Ids, seq : Nat]
Events == [number : Nat, frame_count : Nat]
ObjectSet == [id : Ids \cup {None}, active : BOOLEAN, age : 0 .. IdleLimit,
              last_seq : Nat \cup {None},
              chunker : [open : BOOLEAN, held : Nat, kept : 0 .. pre_roll_frames]]
MetricsSet == [frames : Nat, chunks : Nat, seq_gaps : Nat, event_drops : Nat,
               frames_refused : Nat, sessions_rejected : Nat]

TypeOK ==
  /\ g_running \in BOOLEAN /\ hot_done \in BOOLEAN
  /\ next_seq \in [Ids -> Nat] /\ ring_full_drops \in Nat
  /\ frames \in Seq(Frames) /\ Len(frames) <= FrameCapacity
  /\ hot_pc \in {"setup", "top", "expire_idle", "pop", "work", "flush_all", "returned",
                 "stopped", "join", "exited"}
  /\ hand \in Seq(Frames) /\ Len(hand) <= 1
  /\ due \subseteq Objects
  /\ objects \in [Objects -> ObjectSet]
  /\ metrics \in MetricsSet
  /\ events \in Seq(Events) /\ Len(events) <= EventCapacity
  /\ pub_pc \in {"done?", "empty?", "pop", "exited"}
  /\ buffered \in Seq(Events) /\ Len(buffered) <= StdoutEvents
  /\ published \in [chunks : Nat, frames : Nat, last : Nat]

\* Every frame offered is shed and counted, waiting, in hand, processed or
\* refused: the counters of both processes add up at every moment.
FramesAccounted ==
  Offered = ring_full_drops + Len(frames) + Len(hand) + metrics.frames + metrics.frames_refused

\* The types, the bounds of the rings and of what is printed and not written, and
\* the conservation of frames through shedding, refusal and processing
\* (vhp_consumer.cpp:327-374).
HotPathInv == TypeOK /\ FramesAccounted

\* Every chunk counted is published, buffered, waiting or counted as dropped.
\* Chunks reach standard output in the order they were closed.
ChunksAccounted ==
  LET out == buffered \o events
  IN  /\ metrics.chunks = published.chunks + Len(out) + metrics.event_drops
      /\ \A n \in 1 .. Len(out) :
           out[n].number > IF n = 1 THEN published.last ELSE out[n - 1].number

\* No frame is in two chunks, or in a chunk and in the pre-roll of the session
\* object, whichever calls the object served.
FramesShippedOnce ==
  published.frames + FramesIn(buffered) + FramesIn(events)
    + SumOver([i \in Objects |-> objects[i].chunker.held + objects[i].chunker.kept], Objects)
    <= metrics.frames

\* metrics.hpp:35: a gap in the sequence numbers of a call is a frame that was
\* shed, counted once, and never a call that was expired, refused or replaced.
GapsAreDrops == metrics.seq_gaps <= ring_full_drops

\* The process does not exit with an event in the ring or an open chunk: what
\* is not on standard output was counted as dropped.
NothingLeftBehind ==
  hot_pc = "exited" => /\ events = <<>> /\ buffered = <<>>
                       /\ \A i \in Objects : ~ objects[i].chunker.open
                       /\ metrics.chunks = published.chunks + metrics.event_drops

\* A signal ends the process, whatever the feeder and the rings are doing.
SignalEnds == ~ g_running ~> hot_pc = "exited"

\* A chunk whose event was accepted reaches standard output, although the code
\* flushes only when the event ring drains.
AcceptedIsPublished ==
  \A n \in 1 .. MaxFrames :
    published.chunks + Len(buffered \o events) >= n ~> published.chunks >= n
=============================================================================
