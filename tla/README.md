# Formal model of voice-hotpath

TLA+ modules for the audio hot path of this repository, TLC configurations that
check them on small instances, and TLAPS proofs of most of these properties for
every value of the constants. File references are relative to the
repository; `spsc_ring.hpp:15` names a line.

Contents: 1 the system, 2 modules, 3 how modules and code correspond, 4 runs,
5 fairness, 6 proofs, 7 where the code and its comments disagree, 8 what is not
modelled, 9 plan.

## 1. The system

```
producer process            consumer process
----------------            --------------------------------------------------
vhp_producer  --shm ring--> hot_loop --event ring--> publish_loop --> stdout
node_producer --socket----> UdsIngest::pump --ring--> hot_loop
                            main: signals, deadline, shutdown, report
```

| component | state | operations | hard behaviour | what makes it correct |
|---|---|---|---|---|
| SPSC ring (`spsc_ring.hpp`) | `head`, `tail`, two cached indices, slots | `try_push`, `try_pop`, `size`, `empty` | two threads or processes, acquire/release only, stale cached indices | it is a bounded FIFO; no data race on a slot; refuses only when full |
| shared-memory segment (`shm_ring.hpp`) | a name, a header, a ring | `create`, `attach`, destructor | processes that start, die and restart at any time | who attaches meets the size and the whole header of its own layout; consumers never share a ring |
| speech gate (`vad.hpp`) | loud and quiet counters, `speaking_`, last trigger | `accept` | hysteresis, cooldown | onset and endpoint on the exact frame |
| chunk assembler (`vad.hpp`) | gate, pre-roll ring, buffer, counters | `on_frame`, `flush` | forced close in mid-speech, pre-roll wrap, full buffer, lost frames, reuse by another call | chunks partition the speech, in order, bounded in time |
| session table (`session.hpp`) | slots, tombstones, free list, session objects | `acquire`, `expire_idle`, `flush_all`, `release`, `maybe_rebuild` | collisions, deletion, reuse, idle expiry | one session per call; refuses only when full; no ghosts |
| hot loop (`vhp_consumer.cpp`) | the table, `frame`, metrics | pop, demultiplex, assemble, emit, sweep, deadline | stall, backlog, refused calls, full event ring | every frame and every chunk is accounted for |
| publisher (`vhp_consumer.cpp`) | `dirty` | pop, print, flush, exit | shutdown race with the last events | prints everything accepted, then stops |
| UDS ingest (`vhp_consumer.cpp`) | buffer, `filled`, file descriptors | accept, read, parse, push or shed, stop | partial reads, oversized frames, disconnect, stop | frames pushed are the frames sent; stop returns |
| C++ producer (`vhp_producer.cpp`) | `seq`, the pacing grid, the next stall, `dropped` | open the sink, pace, stall, push or write | late wakes, full ring, partial and failed writes | no drift; every frame tried once, in order; nothing after a failed write |
| Node producer (`node_producer.mjs`) | `seq`, the wire buffer | tick, write, exit | a full socket, queued writes, an exit or a reader that leaves | the stream stays framed; complete if the socket never filled |
| histogram (`histogram.hpp`) | counts, min, max, overflow | `record`, coordinated-omission back-fill, percentile, mean, merge | index arithmetic, range | bounded error, conservation |
| codec and energy (`codec.hpp`, `energy.hpp`) | none | mu-law encode and decode, RMS, peak | sign and clip edges | the codec is its own inverse within a segment's step |
| metrics report, clock, options | counters | formatting, system calls | none | not modelled |

Components interact in four ways only: the two SPSC rings, the `hot_done` and
`g_running` flags, the byte stream of the socket, and the name of the segment.
Everything else belongs to one thread, so the hard behaviour is either an
interleaving at one of those four or a long sequence of calls within one thread.

## 2. Modules

| module | models | used by / proved about in |
|---|---|---|
| `BoundedFifo` | abstract: what a ring promises | implemented by `SpscRing`, relied on by `HotPath` |
| `SpscRing` | `spsc_ring.hpp` under the C++ memory model | `SpscRingProofs` |
| `Vad` | gate, pre-roll and assembler of `vad.hpp` as operators on records | `CallStream` |
| `CallStream` | one assembler fed by the calls that own its session in turn | `CallStreamProofs` |
| `Chunker`, `ChunkStream` | abstract: what an assembler is to the code around it | implemented by `CallStream`, relied on by `HotPath` |
| `Admission` | abstract: what the session table promises | implemented by `SessionTable` |
| `SessionTable` | `session.hpp`, with any hash | `SessionTableProofs` |
| `HotPath` | the consumer process: feeder, rings, set-up, hot thread, publisher, shutdown | `HotPathProofs`, `HotPathSilence` |
| `HotPathSilence` | `HotPath` with a history of how long each call was silent | |
| `UdsIngest` | the socket ingest thread, its start and `stop()` | `UdsIngestProofs` |
| `NodeProducer` | `tools/node_producer.mjs` with the event loop it relies on | `NodeProducerProofs` |
| `ShmRing` | the life of the shared-memory segment | `ShmRingProofs` |
| `Shift` | `1 << n`, as a recursive function the provers can reason about | `Histogram`, `MuLaw` |
| `Histogram` | the algorithm of `histogram.hpp` as operators on records | `VhpProducer`, `VhpProducerProofs` |
| `MuLaw` | the codec of `codec.hpp` and its inverse in `vhp_producer.cpp` | `VhpProducer`, `VhpProducerProofs` |
| `VhpProducer` | `main` of `vhp_producer.cpp`: sink, pacing, stalls, sending, with its histogram | `VhpProducerProofs` |
| `MCSessionTable`, `MCShmRing` | symmetry sets and hash classes for TLC | |

```
SpscRing ==> BoundedFifo - - +
SessionTable ==> Admission - +- - > HotPath        ==>  refinement, checked
CallStream ==> ChunkStream - +                     - ->  relied on
```

`HotPath` takes its components at their specifications. That is what keeps its
instances small: a ring is a sequence with a capacity, a session object is the
number of frames its assembler holds.

Operators named `X_Something` with a comment that starts with `Slip:` are
variants of `X` with a plausible mistake (a dropped test, an off-by-one, a
missing reset). No specification uses them; putting one in the place of `X` makes
a property fail, and so shows that the property depends on that line.

## 3. How modules and code correspond

**SpscRing.** `try_push` is four actions, split at its shared accesses: the call
with the test on the cached index (`PushCall`), the acquire load and second test
(`PushReload`), the slot write (`PushStore`), the release store (`PushPublish`);
`try_pop` likewise. `head` and `tail` only grow and each has one writer, so the
values a location ever had are the numbers up to its present one. An acquire
load returns any value from the newest one the thread has seen up to the current
one; a release store carries the number of slot accesses the thread had performed.
A slot access that is not ordered by such a pair is a data race (`NoDataRace`).
The indices are natural numbers: 2^64 pushes are out of reach.

**Vad and CallStream.** `OnFrame(a, f, now)` is `on_frame`: gap detection, gate,
opening with the pre-roll, append, close. Samples are reduced to the outcome of
the two thresholds (`loud`), time to frame periods, and the buffer to the frames in it;
`max_chunk_frames` is `max_chunk_bytes` in frames: all frames are assumed to have the same
length, as each producer of the repository sends them. A `CallStream` step is one
call of `on_frame` by `hot_loop`, or the `flush` by which the sweep or the
shutdown releases the session, after which another call may own the object:
`acquire` resets the fields of `Session` and not its assembler.

**SessionTable.** One action per path through `acquire` (`Frame` for a call that
is found, `Open`, `Refuse`), and for a sweep one action per session it releases (`Release`)
and, for `maybe_rebuild`, one that clears the table and one per session put
back (`Reinsert`). The hash is a constant function of each behaviour, chosen among
`Hashes`, so nothing depends on the multiplication in `probe_start`. `tombstones_`,
`live_`, `peak_live_`, `opened_` and `rejected_` are variables; the chunk that a release
flushes is in `HotPath`; a rebuild in progress is the
set of sessions not yet put back.

**HotPath.** `hot_pc` says where the hot thread (and then `main`) stands: in the
set-up, which may throw (no segment, no memory for the table), at the top of the loop, in a sweep, before `try_pop`, with a frame in hand, in
`flush_all`, after the loop. A step is what a thread does between two accesses
to shared memory; `Process` is the whole of lines 335-374. `publish_loop` tests
`done` and then `events.empty()`, in two steps as the `||` does. `buffered` is what
was printed and not written. The buffer of standard output is the C library's: it takes
`StdoutEvents` lines, and a line that finds it full has it written first. After the loop
`StopIngest` is what `main` does before it sets `hot_done`: with the socket it clears
`g_running` and calls `stop()`, whose return is what `UdsIngest!StopReturns` shows. `Feed` is the shared-memory producer or the ingest
thread, whichever there is. Idle time is counted in units of `Tick`. `HotPathSilence`
adds how long a call had been silent when each of its frames was offered; it is
history, and kept out of `HotPath` because no other property needs it.

**UdsIngest.** The stream is a sequence of cells of a few bytes (two for the
length prefix, one for the header, one per unit of payload), each marked with the
message it comes from. `run()` and `pump()` are split at their system calls, at the tests of
`g_running`, at the assignments of `conn_fd_`, which `stop()` reads from another
thread, and after each frame. The buffer holds at least one message of the
greatest length, as 64 KB does with 1068 bytes. `start()` may fail, `accept()` may
fail for reasons of its own and end the thread, `read()` may fail with bytes pending and end
the connection, a signal may come at any point, and `hot_loop` may throw: with the
thread running, the exception destroys the `UdsIngest` object and with it a thread that
was not joined, so the process ends there (`main_pc = "terminated"`) and the handler
that would let the publisher finish is not reached. `conn_fd_` is a plain `int` that `stop()` reads
while the thread writes it, a data race for the language; a read of it is taken to return the value
last written, as system calls lie between the accesses of either side.

**NodeProducer.** One tick writes one frame per call without returning to the
event loop. `socket.write` copies to the kernel what fits at once if nothing is
queued; the rest is queued by reference and read from the same buffer later. `finish()` ends the
socket and the process in one go, so what is queued is never sent (`Exit` empties `pending`); so does the
error handler, when nobody listens or when the reader has closed its end (`HangUp`). The reader is
`pump()`; the pacing grid is left out, as nothing in the stream depends on it.

**VhpProducer and Histogram.** One action per iteration step of `main`: the loop test,
the end of the wait with the record of its lateness, the end of a stall, each push or
`write`, the next tick. The clock is a counter that may advance between any two of
them. `pacing` is a record with the array of counts of `Histogram`, over a layout with
four sub-buckets (2048 in the code) on words of six bits; doubles are not modelled, so
a percentile is the rank that it stands for, and the mean is a sum. `write_all` sends
a frame of two cells in one or two pieces. `late`, `sent`, `due` and `slowest` are history.

**ShmRing.** One action per system call, and one per store by which `create()` makes the
segment usable: those of `memset` and of the constructor, together the part `ring`, and one for
each field of the header that `attach()` reads. All of them are plain, so another process
may see them in any order; `create()` returns when all are made. A process reads the header one
test at a time.

## 4. Runs

| run | instance | what it shows |
|---|---|---|
| `ring` | 2 slots, 6 items, 2 values, fair | `RingInv`, `NoDataRace`, `SizeInRange`, `RefusedOnlyWhenFull`, refinement of `BoundedFifo`, with its fairness: accepted items are handed over although loads may be stale. Six items reuse every slot three times, so every lag between the four indices occurs |
| `call_stream` | 7 frames, 2 calls of which the second resumes, losses before any frame, delays 1 and 3, cooldown 3, cap 4, buffer of 3 frames | contiguity, order, exact endpoint and pre-roll, onsets heard, cap on age, losses reported once, refinement of `ChunkStream`. Seven frames fit an onset, a forced close, an endpoint and a second onset with a wrapped pre-roll; a chunk outgrows the buffer, and the cooldown outlasts an endpoint |
| `session_table` | 4 ids, 4 slots, 2 objects, every hash up to symmetry, 4 opens, fair | `TableInv`, counters, empty slots, refinement of `Admission`, silent calls are released. Four slots are the smallest table where a tombstone lies between two calls of one chain and where the rebuild threshold is reached |
| `hot_path` | 2 calls, 1 session object, 3 frames, rings of 1 and 1, an output buffer of 2 lines, idle limit 1, fair | conservation of frames and of chunks, order of output, gaps are drops, nothing left at exit; a signal ends the process; accepted events are printed. One object makes the calls contend; one-slot rings shed and drop; three frames let an expired call resume, and make the three lines that overflow the output buffer |
| `uds_ingest` | 2 producers, 3 messages, lengths 1 and too long, buffer of 8 cells, fair | frames parsed are the messages sent, none waits, `stop()` returns. A message is 4 cells and the buffer holds two, so messages come whole, cut and in pairs; the length that is refused would not fit in the buffer, and all three messages do not either |
| `node_producer` | 2 calls, 4 ticks, frames of 3 cells, room for 5 | framing is kept, each cell is sent or queued until the exit, and the stream is intact and at the exit complete while never blocked. The room is not a multiple of a frame, so writes are cut, at both of the places where one can be |
| `shm_ring` | 3 creators, 1 attacher | nobody runs on a segment without its size or a whole header, nor, while a creator that has returned has it, without its ring; creators apart. The third creator meets the name as the other two left it |
| `vhp_producer` | 2 calls, 3 ticks of 2 units, a stall of 1 every 3, sink of 2, 2 connection attempts, clock up to 8 | the histogram holds what the latenesses stand for; percentile and mean within the resolution; no drift; the stream complete and ordered; and, where the loop comes to use them, over all of their inputs, `BucketsExact` (every layout of a six-bit word, merges of runs of up to two samples) and `MuLawRoundTrip` (every sample and byte). A lateness of 8 is out of the tracked range, one of 4 to 7 falls in buckets of two values, and is filled in up to three times |

Several invariants join the types of their module to what the types are needed for:
`HotPathInv` (and `FramesAccounted`), `BufferInv` (and `GuardIdle`), `StreamInv` (and
`FramingKept`, `NoneForgotten`), `SegmentInv` (and `AttachedIsReady`), `AssemblerInv` (and
`BoundedLatency`), `HistogramFaithful`. `ChunksCutStream` and `FramesAreMessages` are
conjunctions of named parts that say one thing together. `RingInv` and `TableInv` are the
inductive invariants of the proofs and contain the types too.

The runs that must find a violation are listed in section 7. Deadlock is
checked for the ring and the session table, which never stop; in the other
modules a bound on frames or calls, or the exit of the process, ends a behaviour.

Bounds are named constants: `MaxItems`, `MaxFrames`, `MaxCalls`, `MaxOpened`,
`MaxRejected`, `MaxConnections`, `MaxMessages`, `totalFrames`, `total_frames`, `MaxTime`. They limit what the
environment offers and never what the program may do with it. Where a liveness property could hold
only because the environment falls silent, that matters: with `MaxFrames` the feeder of `hot_path`
stops, and the publisher then finds its ring empty and flushes. For frames that keep coming,
`HotPathInv` bounds what is printed and not written by `StdoutEvents`, and this is proved for any number
of frames (`FramesAddUp`): the chunk with number n is on standard output at the latest when
as many chunks after it have been accepted as the ring and that buffer hold. Symmetry is used
for calls and creators, which the code compares only for equality, in runs
without liveness.

## 5. Fairness

- `SpscRing!FairSpec`: the consumer keeps calling `try_pop`, as `hot_loop` and
  `publish_loop` do, and a store becomes visible in finite time
  (the C++ standard asks for it, and cache coherence provides it).
- `SessionTable!FairSpec`: time passes and the hot loop sweeps when the interval
  has elapsed, as lines 307-310 do on every iteration.
- `HotPath!FairSpec`: the two threads keep running. The hot thread is not assumed to
  leave its loop unless it finds `g_running` cleared, nor to sweep. Nothing is
  assumed of the feeder or of signals.
- `UdsIngest!FairSpec`: the ingest thread runs when it is not blocked in `accept` or
  `read`; `main` runs once it has called `stop()`. An `accept()` that has nothing to
  return need not fail (`AcceptFails` is not under fairness). Nothing is assumed of producers.
- `CallStream`, `NodeProducer`, `ShmRing` and `VhpProducer` state no liveness and assume
  no fairness: a producer may be stopped for ever by a peer that does not read.

Weak fairness is what an operating system gives a thread that spins, sleeps or is woken; the
code sets no priority below the default. It is enough where no thread waits for a condition
that another can take back. Two modules ask for strong fairness, each for an action whose turn comes
again and again without staying:

- `SpscRing`, for the reload that returns the newest `head`. Between two polls the consumer is
  elsewhere, and a reload may return an older value that a thread can still see, for a time and not
  for ever: that is coherence.
- `SessionTable`, for `Tick` and `Sweep("expire_idle")`. Frames of other calls, and sweeps, come between,
  but the clock advances whatever the program does, and line 307 looks at it in every iteration,
  before the frame.

## 6. Proofs

A proof holds for every value of the constants that the `ASSUME` of the module admits;
TLC evaluates each `ASSUME`. They are the `static_assert`s (`RingAssumption`), the
arithmetic of the constructors (`TableAssumption`), and what the command line
accepts: a gate of no silence frames, a cap of zero, a buffer of no frames and no
pre-roll are all admitted (`VadAssumption`). `ProducerAssumption` asks for a word wider
than the two bits of a sub-bucket's number, where the code has 64 and eleven. The bounds of the models are
constants like the others: the theorems hold however large they are.

The general argument is the same: a conjunction that contains the property, the
initial states satisfy and every action preserves, one lemma per action.

| module | theorems | inductive invariant |
|---|---|---|
| `SpscRingProofs` | `RingInvariant`, `NoRace`, `SizeBounded`, `RefusalExact`, `RingImplementsFifo` | `RingInv` |
| `SessionTableProofs` | `TableSound`, `NoSecondSession`, `CountersAreExact`, `QuarterEmpty`, `TableImplementsAdmission` | `TableInv`, `CountInv` |
| `CallStreamProofs` | `AssemblerBounded`, `ChunksAreCut`, `PreRollIsExact`, `AssemblerImplementsChunkStream`, `FirstCallIsHeard`, `EndpointIsExact`, `LossIsReal` | `StreamTypes`, `CutInv`, `HearingInv`, `LossInv` |
| `HotPathProofs` | `FramesAddUp`, `ChunksAddUp`, `ShippedAtMostOnce`, `GapsAreShedFrames`, `ExitLeavesNothing` | `PathInv` |
| `UdsIngestProofs` | `FramesMatch`, `BufferBounded` | `UdsInv` |
| `NodeProducerProofs` | `StreamStaysFramed`, `IntactWithRoom` | `ProducerInv` |
| `ShmRingProofs` | `SegmentReady`, `OneCreatorPerSegment` | `ShmInv` |
| `VhpProducerProofs` | `LatenessDoesNotAddUp`, `FramesInTurn`, `EverySampleCounted`, `TableExact`, `ReportsSound`, `EverySampleHeard` | `LoopInv`, `OrderInv`, `Recorded` |

**Ring.** `RingInv == TypeOK /\ IndexOrder /\ Synchronised /\ Contents`. `TypeOK` alone is
not inductive: that a slot is free needs the order of the six indices
(`tail_cache <= tail_seen <= tail <= head <= ...`), that a copy is ordered after its
write needs what each release store carried, and that the copy returns the right
item needs the contents of the slots between `tail` and `head`. In the refinement,
publishing maps to a put, releasing to a take, every other step to a stutter, with the
queue being the part of `sent` that `got` has not reached.

**Session table.** `TableInv`: types, every call in progress reachable by its probe, one
slot per object, one session per id, the free list exact. `OneSessionPerCall` is not inductive by itself: a second session is
avoided because the probe of a call never meets an empty slot before its own,
and this in turn survives a rebuild only because the sessions already put back
satisfy it among themselves. `CountInv` adds the counters. That a quarter of the
slots is empty needs the tombstones to be at most a quarter when no sweep is in
progress; a sweep may pass that bound, but only by turning slots in use into tombstones,
which leaves the empty ones alone until `maybe_rebuild` looks. The refinement of
`Admission` uses both: `Refuse` maps to a refusal because an empty free list means that
every object is in use.

**Assembler.** `StreamTypes` says what each field is and what holds between them: the
pre-roll ring holds the last frames of the stream in order wherever its head
is, the buffer holds the first frames of the run the open chunk counts, and a gate that
is speaking has heard fewer than `silence_frames` quiet frames. `CutInv` says that there is a sequence of places
that cut the stream, one for each event. The events do not say where they end when the
buffer is of no frames, so the places are quantified and not computed. A chunk
resumed after a forced close is contiguous because no frame can come between; the
pre-roll of another one stops at the last place because an opening empties the pre-roll
ring. `HearingInv` relates the
two counters of the gate to the run of frames at the end of the stream; for loud
frames that is so only for the first call of an object, since a released session leaves its
counters (section 7). `LossInv` bounds what the chunks closed and the open one will report by
what was lost up to now; it needs that an open chunk has seen the newest frame.
The refinement of `ChunkStream` follows from `StreamTypes` alone.

**Hot path.** `PathInv` joins the two counting invariants with `Control`, which says what
each of the two threads may still hold at each place, and `SessionsSound`. `ExitLeavesNothing`
is `Control` at the end: `hot_done` is set after the last event was pushed, so a publisher
that saw it and then an empty ring has nothing left. `GapsAreDrops`
relates two counters and is not inductive, and neither is it with the last number of each
session: a call may be expired, refused and resumed on another object. `GapsCounted` therefore
says that there are two sets of pairs of a call and a number, the frames shed and, within them,
those counted as missing, with the counters as their cardinalities; a gap adds to the second
only pairs that neither wait in the ring nor were passed by an earlier session, which the order
of the ring (`QueueOrdered`) gives.

**Node producer.** `ProducerInv`: the length of the stream tells at which cell of a frame it ends, which is
where the first queued write goes on, since only that one can be begun. What was written is what was
sent and what the queued writes still owe, until the process exits or the reader leaves. That nothing is
missing after the exit is proved of the runs in which no write was ever queued, and only of those.

**Socket ingest.** `UdsInv` says that one connection at most is accepted, and that what is unread of
it, the rest of the buffer followed by what the kernel holds (`Unread`), is the stream of its messages
from the one after the frames parsed (`StreamAt`). A stream begins with the first cell of its
message, each cell is where its number tells, the last cell of a message is followed by the first of
the next, and only the last message may be cut short. Reading and moving the rest of the buffer leave
`Unread` as it is, a frame takes the first message off it, a producer adds to its end, and a new
connection starts with an empty buffer. That the parser meets a length prefix at
`offset` follows. `BufferInv` needs less, the bound on the length that `Oversized` lets pass.

**Segment.** `ShmInv` says what each process has made of its segment or found in it: a size from the
mapping on, a whole header when it runs, and all parts when a creator does. `CreatorsApart`, which `O_EXCL` gives by
making the segment of a creator new, is part of it, since what a creator has not stored nobody else stores.
That the ring is constructed when an attacher runs is proved only while a creator that has returned
has the segment (section 7).

**Producer.** `LoopInv` joins the types and what each place of the loop still holds with
`OnTheGrid`: `due`, the time from which a tick could begin, is its point of the grid for as long as no
tick has taken an interval. `NoDrift` follows by cases on `Larger(slowest, now - due)`, and not
without that clause, since a lateness of one tick is the start of the next. `StreamOrdered`
speaks of frames that were sent, dropped or cut, and is inductive only with `OutSoFar`: before the loop
head all frames of whole ticks are out, within a tick also those of the calls before `session`, and the
counter of drops is the number of frames shed.

**Histogram.** What `pacing` is, is said without recursion: `Recorded` has it as the histogram of a
set of samples (`HistogramOf`), each count being the number of tracked samples whose index it
is. The samples of the latenesses are pairs of a lateness and the number of intervals it is
filled in for, so the back-fill adds to the set as many names as it records values (`AppendWait`).
That an index is the bucket around the value is a fact about shifts, proved for every
layout that fits in a word (`IndexOfValue`, `RangeOfBucket`, `Resolution`), and that
a percentile lies within the resolution of the sample of its rank then counts the samples
below a bucket (`RankReaches`, `ReportedNear`). The mean compares two sums, over the buckets
and over the latenesses, that each new sample changes by nearly the same (`MeanNear`). A merge is
proved to be the histogram of both runs for runs of any length (`MergeOfRuns`), of which
`BucketsExact` states the runs of up to two samples, as TLC evaluates it.

**Codec.** A magnitude lies in one of the steps of the eight segments (`InStep`), its code is the one of
that step, and what is heard is the middle (`StandsFor`); both directions of the
round trip and the order of what is heard follow.

Recursion over data is proved about in one way: `Induction` is stated of a set of numbers and not of
an operator, from the least element of its complement, and every recursive function
(`Bit`, the sums, the back-fill) is unfolded by a lemma that shows that it exists. `CallStreamProofs` does
the same for its sums over chunks; `HotPathProofs`, whose sums fold over finite sets, takes a least
subset in the place of a least number.

Proving changed the model in three places. `AssemblerImplementsChunkStream` was false for a
gate of no silence frames, which `--silence-frames 0` sets: a chunk then opens and ends on one
frame (`vad.hpp:71`, `vad.hpp:140`). `Chunker!FrameSteps` has that outcome now, and `HotPath` with
it. `BoundedLatency` says what a cap of 0 allows, a chunk that was opened just now. `PreRollExact`
tells the frames of a chunk from its audio, so it says nothing of a buffer of
no frames, and it looks at the chunk that the step opened also when the same step closed it.
Besides, sums over a sequence and powers of two are recursive functions (`Total`, `SumOfFirst`,
`Bit`): that is the form that the lemmas unfold, and the provers know nothing of `^`.

Every safety property of the runs that pass is proved. Only model-checked is what is about
liveness: `FifoFairSpec`, `NoGhosts`, `SignalEnds`, `AcceptedIsPublished`, `AllParsed` and
`StopReturns`, since fairness and ENABLED are out of the prover's reach. That the four properties of
section 7 are violated is shown by TLC alone.

## 7. Where the code and its comments disagree

Four runs must find a violation:

| run | property | what the code does |
|---|---|---|
| `speech_heard` | `SpeechHeard` | a session released in mid-speech leaves the gate speaking, and the next call that gets it has no onset until it has been quiet (`session.hpp:121`), against `vad.hpp:31` |
| `only_quiet_expire` | `OnlyQuietExpire` | after a stall the sweep runs before the backlog is popped and expires calls that never stopped (`vhp_consumer.cpp:307`), against `session.hpp:128` |
| `seq_monotonic` | `NumbersMonotonic` | queued writes of the Node producer share one buffer, so frames are replaced by later ones (`node_producer.mjs:145`), against `audio_frame.hpp:32` |
| `lateness_once` | `LatenessOncePerSlot` | the producer never skips a point of its grid: the frames a stall held up are sent late, each lateness is recorded, and each record fills in the samples of the stall again (`vhp_producer.cpp:279`), against `vhp_producer.cpp:276-278`, which says that those frames were never emitted. The jitter of `vhp_consumer.cpp:344` does the same with the frames that waited in the ring |

`speech_heard` needs two calls on one session object; for the first call of an object
`SpeechHeardInFirstCall` holds (`call_stream`).

Smaller ones are stated in the modules and have no run of their own; adding the
property to the module's configuration shows them (a few steps, a few seconds):

- `CallStream!AudioReadable`: a chunk closed at the length cap is reopened at once and
  its buffer cleared (`vad.hpp:146-150`), against `vad.hpp:117`.
- `CallStream!ChunkOfOneCall`: the missing reset behind `speech_heard` also hands over the
  pre-roll, and the first chunk of a call can begin with audio of another
  (`session.hpp:121`), against `vad.hpp:99`.
- `CallStream!DroppedInside`: `dropped_frames` misses losses inside the pre-roll and
  counts some that precede the chunk (`vad.hpp:197`), against `audio_frame.hpp:75`.
- `ShmRing!AttachedIsConstructed`: an attacher may pass every check before it can see the ring's own
  stores, since nothing orders those of `shm_ring.hpp:64-65` before that of `magic`; `shm_ring.hpp:74` says
  that the header is validated "before trusting a single index out of it". The stores of an x86
  processor become visible in order, so there it would take the compiler to move them.
- `ShmRing!UnlinksOnlyStale`: `create()` takes the name of a segment in use, against its
  comment (`shm_ring.hpp:53`).
- Rejected sessions are counted once per frame (`session.hpp:105`, the `Refuse`
  actions of `SessionTable` and `HotPath`), against `session.hpp:17`.

`NodeProducer!CompleteAtExit` does not hold: `finish()` calls `process.exit(0)` with writes queued
(`node_producer.mjs:173`), and the end of the stream, or half a frame, is lost. No comment promises otherwise.
A call that ends right after a forced close ships a chunk of no frames (`vad.hpp:158`),
and the mean of a histogram, unlike its percentiles, is not clamped and can exceed its
maximum by half of the resolution (`histogram.hpp:84`); no comment says otherwise. The
integral of depth (`metrics.hpp:32`) holds the depth seen after a pop for the whole
iteration, the time before that pop and any stall after it included, so it is a sample
per iteration rather than an integral; this was read, not modelled.

## 8. Not modelled

- RMS, peak and SIMD: the gate sees the outcome of its two tests.
- The histograms of the consumer and the integral of depth: no decision depends on
  them. Their algorithm is modelled, on the producer's histogram.
- `Histogram::reset` and `SpeechThresholdGate::reset` (never called), the standard
  deviation, the summary and the CSV (floating point and formatting).
- The producer's signal: noise and the schedule of utterances.
- `shm_open` permissions, `mlock`, pinning, real-time priority, formatting,
  options: no state the properties are about.
- The move constructor of `ShmRing`.
- The bytes of a line that the C library writes when its buffer fills in the middle of one, and
  line buffering on a terminal: `HotPath` writes whole lines, to a pipe or a file.
- Frames of different lengths in one chunk (`vad.hpp:214`): a short frame may still fit in the buffer
  behind a longer one that was left out, and the bytes of a chunk are then not a prefix of its frames.
- Interleavings of the racing accesses to `conn_fd_` beyond the one that builds have (section 3).
- That a producer outlives the consumer whose ring it fills (`shm_ring.hpp:102`): it goes
  on and counts drops, and nothing in the repository says what it should do.
- The benchmark and the scripts that generate fixtures.

## 9. Plan

Order: what everything rests on first (ring, assembler, table), then their
composition, then the edges of the process, then arithmetic.

1. Done: the modules, runs and proofs above.
2. Out of the prover's reach and left to TLC: liveness.
