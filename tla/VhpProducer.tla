----------------------------- MODULE VhpProducer -----------------------------
(***************************************************************************)
(* src/vhp_producer.cpp: the paced source of frames.  It opens its sink,   *)
(* the shared ring or the socket, then sends a frame of every call at each *)
(* point of a grid of frame_ns, counts what the ring sheds, stalls now and *)
(* then on purpose, and records how late it was.  Time is a counter that   *)
(* may advance between any two steps: the process can be descheduled.      *)
(***************************************************************************)
EXTENDS Histogram, MuLaw

CONSTANTS
  sessions,       \* --sessions
  total_frames,   \* --seconds over --frame-ms
  frame_ns,       \* --frame-ms, in units of the clock
  stall_every,    \* --stall-every-ms, 0 for never
  stall,          \* --stall-ms
  Attempts,       \* of connect_uds: 50 in the code
  Cells,          \* cells of a frame on the socket; write() may take some of them
  Capacity,       \* frames the ring holds, cells the socket holds
  highest,        \* the lateness that the histogram is to track
  MaxTime         \* bound of the model on the clock

ASSUME ProducerAssumption ==
  /\ {sessions, total_frames, frame_ns, stall_every, stall, Attempts, Cells, Capacity,
      highest, MaxTime} \subseteq Nat
  /\ sessions >= 1 /\ frame_ns >= 1 /\ Attempts >= 1 /\ Cells >= 1 /\ Capacity >= 1
  /\ WordBits > 2      \* a word is wider than the sub-bucket's number

VARIABLES
  g_running,    \* cleared by SIGINT
  sink,         \* "shm" or "uds"
  queued,       \* what the ring or the socket holds
  peer_closed,  \* the consumer's end of the socket
  now,          \* the clock, from start_ns
  pc,           \* "open", "head", "pace", "stall", "send", "closed" or "failed"
  tries,        \* of connect_uds
  seq,
  session,      \* next call of the tick
  left,         \* cells of its frame that are not written
  woke_ns,
  next_stall_ns,
  pacing,       \* the histogram of lateness
  dropped,
  sent,         \* history: what became of each frame, in order
  late,         \* history: each lateness measured
  due,          \* history: when the tick's wait, if it has one, ends
  slowest       \* history: the longest a tick took from then on

io == <<sink, queued, peer_closed, left>>
loop == <<seq, session, woke_ns, next_stall_ns>>
counts == <<pacing, dropped>>
history == <<sent, late, due, slowest>>
vars == <<g_running, io, now, pc, tries, loop, counts, history>>

\* Four sub-buckets where the code has 2048.
PacingLayout == Layout(highest, 2, 0)

Init ==
  /\ g_running = TRUE
  /\ sink \in {"shm", "uds"} /\ queued = 0 /\ peer_closed = FALSE /\ left = Cells
  /\ now = 0 /\ pc = "open" /\ tries = 0
  /\ seq = 0 /\ session = 0 /\ woke_ns = 0
  /\ next_stall_ns = IF stall_every > 0 THEN stall_every ELSE MaxTime + 1
  /\ pacing = NewHistogram(PacingLayout) /\ dropped = 0
  /\ sent = <<>> /\ late = <<>> /\ due = 0 /\ slowest = 0

\* The clock's reading is of interest while the loop runs.
Tick ==
  /\ pc \in {"head", "pace", "stall", "send"} /\ now < MaxTime
  /\ now' = now + 1
  /\ UNCHANGED <<g_running, io, pc, tries, loop, counts, history>>

Signal ==
  /\ g_running /\ g_running' = FALSE
  /\ UNCHANGED <<io, now, pc, tries, loop, counts, history>>

-----------------------------------------------------------------------------
(* The other end.                                                          *)

Take ==
  /\ queued > 0 /\ ~ peer_closed
  /\ queued' = queued - 1
  /\ UNCHANGED <<g_running, sink, peer_closed, left, now, pc, tries, loop, counts, history>>

PeerCloses ==
  /\ sink = "uds" /\ pc # "open" /\ ~ peer_closed
  /\ peer_closed' = TRUE
  /\ UNCHANGED <<g_running, sink, queued, left, now, pc, tries, loop, counts, history>>

-----------------------------------------------------------------------------
(* main.                                                                   *)

Open ==
  /\ pc = "open" /\ pc' = "head"
  /\ UNCHANGED <<g_running, io, now, tries, loop, counts, history>>

\* No segment to attach, or no descriptor for a socket, is an error; a socket that
\* nobody accepts on is tried again.
OpenFails ==
  /\ pc = "open"
  /\ \/ pc' = "failed" /\ UNCHANGED tries
     \/ /\ sink = "uds" /\ tries' = tries + 1
        /\ pc' = IF tries' < Attempts THEN "open" ELSE "failed"
  /\ UNCHANGED <<g_running, io, now, loop, counts, history>>

LoopHead ==
  /\ pc = "head"
  /\ pc' = IF seq < total_frames /\ g_running THEN "pace" ELSE "closed"
  /\ UNCHANGED <<g_running, io, now, tries, loop, counts, history>>

\* Slip: the wait is for a frame after the last one, not for the grid.
Target_FromLastWake == IF seq = 0 THEN 0 ELSE woke_ns + frame_ns

Target == seq * frame_ns

\* The sleep or spin ends, the lateness is recorded, and a stall may be due.
Wake ==
  /\ pc = "pace" /\ now >= Target
  /\ woke_ns' = now
  /\ late' = Append(late, now - Target)
  /\ pacing' = RecordWithExpectedInterval(PacingLayout, pacing, now - Target, frame_ns)
  /\ pc' = IF now >= next_stall_ns THEN "stall" ELSE "send"
  /\ session' = 0
  /\ UNCHANGED <<g_running, io, now, tries, seq, next_stall_ns, dropped, sent, due, slowest>>

StallEnd ==
  /\ pc = "stall" /\ now >= woke_ns + stall
  /\ next_stall_ns' = now + stall_every /\ pc' = "send"
  /\ UNCHANGED <<g_running, io, now, tries, seq, session, woke_ns, counts, history>>

\* The frame of a call has met its end, and the next call's turn comes.
Done(outcome) ==
  /\ sent' = Append(sent, [seq |-> seq, session |-> session, outcome |-> outcome])
  /\ session' = session + 1
  /\ UNCHANGED <<g_running, sink, peer_closed, now, tries, seq, woke_ns, next_stall_ns,
                 pacing, late, due, slowest>>

Sending(to) == pc = "send" /\ sink = to /\ session < sessions

Push ==
  /\ Sending("shm") /\ queued < Capacity
  /\ queued' = queued + 1
  /\ Done("sent") /\ UNCHANGED <<pc, left, dropped>>

PushFull ==
  /\ Sending("shm") /\ queued = Capacity
  /\ dropped' = dropped + 1
  /\ Done("dropped") /\ UNCHANGED <<pc, queued, left>>

\* write() takes some cells of the frame, and write_all comes back for the rest.
WriteSome ==
  /\ Sending("uds") /\ ~ peer_closed
  /\ \E n \in 1 .. left - 1 :
       /\ queued + n <= Capacity
       /\ queued' = queued + n /\ left' = left - n
  /\ UNCHANGED <<g_running, sink, peer_closed, now, pc, tries, loop, counts, history>>

WriteRest ==
  /\ Sending("uds") /\ ~ peer_closed /\ queued + left <= Capacity
  /\ queued' = queued + left /\ left' = Cells
  /\ Done("sent") /\ UNCHANGED <<pc, dropped>>

\* Slip: the loop over the calls goes on.
WriteFails_Continues ==
  /\ Sending("uds") /\ peer_closed
  /\ Done("cut") /\ UNCHANGED <<pc, queued, left, dropped>>

\* write() fails, whatever of the frame is out already: both loops are left.
WriteFails ==
  /\ Sending("uds") /\ peer_closed
  /\ pc' = "closed"
  /\ Done("cut") /\ UNCHANGED <<queued, left, dropped>>

EndTick ==
  /\ pc = "send" /\ session = sessions
  /\ seq' = seq + 1 /\ pc' = "head"
  /\ slowest' = Larger(slowest, now - due)
  /\ UNCHANGED <<g_running, io, now, tries, session, woke_ns, next_stall_ns, counts, sent, late>>
  /\ due' = Larger(Target', now)

Next ==
  \/ Tick \/ Signal \/ Take \/ PeerCloses
  \/ Open \/ OpenFails \/ LoopHead \/ Wake \/ StallEnd
  \/ Push \/ PushFull \/ WriteSome \/ WriteRest \/ WriteFails \/ EndTick

Spec == Init /\ [][Next]_vars

-----------------------------------------------------------------------------
(* Properties.                                                             *)

TypeOK ==
  /\ g_running \in BOOLEAN /\ sink \in {"shm", "uds"} /\ queued \in 0 .. Capacity
  /\ peer_closed \in BOOLEAN /\ left \in 1 .. Cells /\ now \in 0 .. MaxTime
  /\ pc \in {"open", "head", "pace", "stall", "send", "closed", "failed"}
  /\ tries \in 0 .. Attempts /\ seq \in 0 .. total_frames /\ session \in 0 .. sessions
  /\ woke_ns \in 0 .. MaxTime /\ next_stall_ns \in Nat /\ dropped \in Nat
  /\ pacing.counts \in [Indices(PacingLayout) -> Nat]

\* The samples each lateness stands for: itself, and what a stall of that length
\* kept from being taken, at every interval down to one.
Samples ==
  {s \in (DOMAIN late) \X (0 .. MaxTime) : s[2] = 0 \/ late[s[1]] - s[2] * frame_ns >= frame_ns}

Value(s) == late[s[1]] - s[2] * frame_ns

\* The first value that the layout does not track.
Top == Bit(PacingLayout.sub + PacingLayout.unit + PacingLayout.buckets - 1)

Tracked == {s \in Samples : Value(s) < Top}

Values == {Value(s) : s \in Tracked}

\* The lowest value of each bucket, and the end of the last one.
Lowest ==
  [i \in 0 .. Size(PacingLayout) |->
     IF i = Size(PacingLayout) THEN Top ELSE ValueFromIndex(PacingLayout, i)]

\* The types, and histogram.hpp:65: every sample is in the bucket around it, once,
\* those beyond the range are counted apart, and the extremes are those of what was
\* counted.
HistogramFaithful ==
  /\ TypeOK
  /\ \A i \in Indices(PacingLayout) :
       pacing.counts[i] = Cardinality({s \in Tracked : Value(s) \in Lowest[i] .. Lowest[i + 1] - 1})
  /\ pacing.total = Cardinality(Tracked)
  /\ pacing.overflow = Cardinality(Samples \ Tracked)
  /\ pacing.max = Max(Values \cup {0})
  /\ pacing.min = IF Values = {} THEN 0 ELSE Min(Values)

\* histogram.hpp:102: what is reported for a rank is never below the sample of that
\* rank, above it by no more than the resolution, and no more than was recorded;
\* the mean is off by no more than half of the resolution.
PercentileSound ==
  LET Rank(v) == Cardinality({s \in Tracked : Value(s) < v})
      total == SumOfFirst([v \in 0 .. Top - 1 |->
                             v * Cardinality({s \in Tracked : Value(s) = v})], Top)
  IN  /\ \A v \in Values : \A target \in Rank(v) + 1 .. Rank(v + 1) :
           LET reported == ValueAtRank(PacingLayout, pacing, target)
           IN  reported \in v .. pacing.max /\ (reported - v) * Half(PacingLayout) <= v
      /\ 2 * Half(PacingLayout) * Magnitude(SumOfMedians(PacingLayout, pacing) - total) <= total

\* vhp_producer.cpp:12: lateness does not add up over the ticks. As long as each
\* tick, from when it could begin, took less than the interval, none began later on the
\* grid than the slowest of them took, however many were late.
NoDrift ==
  pc \in {"stall", "send"} /\ Larger(slowest, now - due) < frame_ns =>
    woke_ns - seq * frame_ns <= Larger(slowest, now - due)

\* vhp_producer.cpp:287: every frame of every call is tried once, in turn, whatever
\* stalls, sheds or breaks; what the ring shed is counted, and after a write that
\* failed, inside a frame perhaps, nothing follows.
StreamOrdered ==
  /\ \A i \in DOMAIN sent : /\ sent[i].seq = (i - 1) \div sessions
                            /\ sent[i].session = (i - 1) % sessions
                            /\ sent[i].outcome = "cut" => i = Len(sent) /\ pc = "closed"
  /\ dropped = Cardinality({i \in DOMAIN sent : sent[i].outcome = "dropped"})
  /\ pc = "closed" /\ g_running =>
       \/ Len(sent) = total_frames * sessions
       \/ peer_closed /\ Last(sent).outcome = "cut"

\* histogram.hpp:185, 121: the table that the loop records in is exact, whatever the
\* layout: the index of a bucket and its values are each other's inverse, and nothing
\* is lost or made up by a merge.
BucketsExact == pc = "pace" => IndexExact /\ MergeExact

\* vhp_producer.cpp:159, codec.hpp:13: what the consumer decodes is what was sampled,
\* within the step of its segment, for every sample a frame may hold.
MuLawRoundTrip == pc = "send" => RoundTrip

-----------------------------------------------------------------------------
(* A statement of the sources that the code does not keep.                 *)

\* vhp_producer.cpp:276: the samples filled in are those of frames that a stall kept
\* from being sent, so that there is one for each point of the grid.
LatenessOncePerSlot == pacing.total + pacing.overflow <= now \div frame_ns + 1
=============================================================================
