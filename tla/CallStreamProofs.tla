-------------------------- MODULE CallStreamProofs --------------------------
(***************************************************************************)
(* Proofs about CallStream for every configuration of the gate and of the  *)
(* chunker, every cadence and every loss: the chunks cut the stream of     *)
(* frames where the code means to.                                         *)
(***************************************************************************)
EXTENDS CallStream, FiniteSetTheorems, SequenceTheorems, WellFoundedInduction, TLAPS

GateSet == [loud_frames : Nat, quiet_frames : 0 .. silence_frames, speaking : BOOLEAN,
            has_triggered : BOOLEAN, last_trigger : Nat]

PreRollSet == [frames : [0 .. pre_roll_frames - 1 -> FrameSet \cup {NoFrame}], head : Nat]

AssemblerSet ==
  [gate : GateSet, pre_roll : PreRollSet, active : BOOLEAN, buffer : Seq(FrameSet),
   frame_count : Nat, gap_frames : Nat, first_seq : Nat, last_seq : Nat,
   t_speech_start : Nat, last_seq_seen : Nat \cup {None}, next_chunk_id : Nat]

-----------------------------------------------------------------------------
(* What the operators of Vad do to each field.                             *)

\* append() adds the frame to the buffer while there is room, and counts it.
LEMMA AppendFields ==
  ASSUME NEW a \in AssemblerSet, NEW f \in FrameSet
  PROVE  LET b == AppendFrame(a, f)
         IN  /\ b \in AssemblerSet
             /\ b.gate = a.gate /\ b.pre_roll = a.pre_roll /\ b.active = a.active
             /\ b.buffer = IF Len(a.buffer) < max_chunk_frames THEN Append(a.buffer, f)
                                                               ELSE a.buffer
             /\ b.frame_count = a.frame_count + 1
             /\ b.gap_frames = a.gap_frames
             /\ b.first_seq = IF a.frame_count = 0 THEN f.seq ELSE a.first_seq
             /\ b.last_seq = f.seq
             /\ b.t_speech_start = a.t_speech_start
             /\ b.last_seq_seen = a.last_seq_seen /\ b.next_chunk_id = a.next_chunk_id
<1> DEFINE buffer == IF Len(a.buffer) < max_chunk_frames THEN Append(a.buffer, f) ELSE a.buffer
           first == IF a.frame_count = 0 THEN f.seq ELSE a.first_seq
<1>0. f.seq \in Nat
  BY DEF FrameSet
<1>1. buffer \in Seq(FrameSet) /\ first \in Nat /\ a.frame_count + 1 \in Nat
  <2>1. a.buffer \in Seq(FrameSet) /\ a.first_seq \in Nat /\ a.frame_count \in Nat
    BY DEF AssemblerSet
  <2> QED
    BY <1>0, <2>1, AppendProperties
<1>2. AppendFrame(a, f) = [a EXCEPT !.buffer = buffer, !.first_seq = first,
                                    !.last_seq = f.seq, !.frame_count = a.frame_count + 1]
  BY DEF AppendFrame, AssemblerSet
<1> HIDE DEF buffer, first
<1>3. [a EXCEPT !.buffer = buffer, !.first_seq = first,
                !.last_seq = f.seq, !.frame_count = a.frame_count + 1] \in AssemblerSet
  BY <1>0, <1>1 DEF AssemblerSet
<1> QED
  BY <1>0, <1>1, <1>2, <1>3 DEF AssemblerSet, buffer, first

\* open_chunk() empties the chunk.
LEMMA OpenFields ==
  ASSUME NEW a \in AssemblerSet, NEW t \in Nat
  PROVE  LET b == OpenChunk(a, t)
         IN  /\ b \in AssemblerSet
             /\ b.gate = a.gate /\ b.pre_roll = a.pre_roll /\ b.active
             /\ b.buffer = <<>> /\ b.frame_count = 0 /\ b.gap_frames = 0
             /\ b.t_speech_start = t
             /\ b.last_seq_seen = a.last_seq_seen /\ b.next_chunk_id = a.next_chunk_id
<1>1. OpenChunk(a, t) = [a EXCEPT !.active = TRUE, !.buffer = <<>>, !.frame_count = 0,
                             !.gap_frames = 0, !.first_seq = 0, !.last_seq = 0,
                             !.t_speech_start = t]
  BY DEF OpenChunk, OpenWith
<1>2. <<>> \in Seq(FrameSet) /\ TRUE \in BOOLEAN /\ 0 \in Nat
  OBVIOUS
<1>3. OpenChunk(a, t) \in AssemblerSet
  BY <1>1, <1>2 DEF AssemblerSet
<1> QED
  BY <1>1, <1>3 DEF AssemblerSet

LEMMA ClosedFields ==
  ASSUME NEW a \in AssemblerSet
  PROVE  LET b == Closed(a)
         IN  /\ b \in AssemblerSet
             /\ b.gate = a.gate /\ b.pre_roll = a.pre_roll /\ ~ b.active
             /\ b.buffer = a.buffer
             /\ b.last_seq_seen = a.last_seq_seen
<1>1. a.next_chunk_id + 1 \in Nat /\ FALSE \in BOOLEAN
  BY DEF AssemblerSet
<1>2. Closed(a) = [a EXCEPT !.active = FALSE, !.next_chunk_id = a.next_chunk_id + 1]
  BY DEF Closed, AssemblerSet
<1>3. Closed(a) \in AssemblerSet
  BY <1>1, <1>2 DEF AssemblerSet
<1> QED
  BY <1>2, <1>3 DEF AssemblerSet

\* Speech goes on only while fewer than silence_frames quiet frames were heard.
Hanging(g) == g.speaking => g.quiet_frames < silence_frames

LEMMA AcceptFields ==
  ASSUME NEW g \in GateSet, Hanging(g), NEW loud \in BOOLEAN, NEW t \in Nat
  PROVE  LET k == Accept(g, loud, t)
         IN  /\ k \in GateSet /\ Hanging(k)
             /\ loud => k.quiet_frames = 0
             /\ loud /\ silence_frames > 0 => k.loud_frames = g.loud_frames + 1
             /\ loud /\ g.speaking => k.speaking
             /\ loud /\ ~ g.speaking /\ ~ Onset(g, loud, t) =>
                  /\ ~ k.speaking
                  /\ k.loud_frames = g.loud_frames + 1
                  /\ k.has_triggered = g.has_triggered
                  /\ k.last_trigger = g.last_trigger
             /\ ~ loud => k.loud_frames = 0
             /\ ~ loud /\ g.speaking => /\ k.quiet_frames = g.quiet_frames + 1
                                        /\ k.speaking <=> k.quiet_frames < silence_frames
             /\ ~ loud /\ ~ g.speaking => ~ k.speaking
             /\ Onset(g, loud, t) => /\ loud /\ ~ g.speaking
                                     /\ k.speaking <=> silence_frames > 0
<1> DEFINE k == Accept(g, loud, t)
<1>0. /\ silence_frames \in Nat
      /\ g.loud_frames \in Nat /\ g.quiet_frames \in 0 .. silence_frames
      /\ g.speaking \in BOOLEAN /\ g.has_triggered \in BOOLEAN /\ g.last_trigger \in Nat
  BY VadAssumption DEF GateSet
<1>1. CASE ~ loud
  <2> DEFINE quiet == IF g.speaking THEN g.quiet_frames + 1 ELSE g.quiet_frames
             goes_on == g.speaking /\ g.quiet_frames + 1 < silence_frames
  <2>1. quiet \in 0 .. silence_frames
    BY <1>0 DEF Hanging
  <2>2. k = [g EXCEPT !.loud_frames = 0, !.quiet_frames = quiet, !.speaking = goes_on]
    BY <1>1 DEF Accept, AcceptQuiet, GateSet
  <2>3. goes_on \in BOOLEAN /\ 0 \in Nat
    OBVIOUS
  <2>4. goes_on => g.speaking /\ quiet < silence_frames
    BY <1>0
  <2>5. g.speaking => quiet = g.quiet_frames + 1 /\ (goes_on <=> quiet < silence_frames)
    BY <1>0
  <2> HIDE DEF quiet, goes_on, k
  <2>6. k \in GateSet
    BY <2>1, <2>2, <2>3 DEF GateSet
  <2>7. k.loud_frames = 0 /\ k.quiet_frames = quiet /\ k.speaking = goes_on
    BY <2>2 DEF GateSet
  <2>8. ~ Onset(g, loud, t)
    BY <1>1 DEF Onset
  <2>9. Hanging(k)
    BY <2>4, <2>7 DEF Hanging
  <2> QED
    BY <1>1, <2>4, <2>5, <2>6, <2>7, <2>8, <2>9 DEF k
<1>2. CASE loud /\ Onset(g, loud, t)
  <2> DEFINE l == IF silence_frames > 0 THEN g.loud_frames + 1 ELSE 0
             speaks == silence_frames > 0
  <2>1. k = [loud_frames |-> l, quiet_frames |-> 0, speaking |-> speaks,
             has_triggered |-> TRUE, last_trigger |-> t]
    <3>1. loud = TRUE
      BY <1>2
    <3>2. Onset(g, TRUE, t)
      BY <1>2, <3>1
    <3> QED
      BY <1>2, <3>2 DEF Accept, AcceptLoud, AcceptLoudLeaving
  <2>2. l \in Nat /\ speaks \in BOOLEAN /\ 0 \in 0 .. silence_frames /\ TRUE \in BOOLEAN
    BY <1>0
  <2>3. /\ speaks => silence_frames > 0 /\ l = g.loud_frames + 1
        /\ silence_frames > 0 => speaks
    OBVIOUS
  <2> HIDE DEF l, speaks, k
  <2>4. k \in GateSet
    BY <2>1, <2>2 DEF GateSet
  <2>5. k.loud_frames = l /\ k.quiet_frames = 0 /\ k.speaking = speaks
    BY <2>1
  <2>6. Hanging(k)
    BY <1>0, <2>3, <2>5 DEF Hanging
  <2>7. ~ g.speaking
    BY <1>2 DEF Onset, Triggers
  <2> QED
    BY <1>2, <2>3, <2>4, <2>5, <2>6, <2>7 DEF k
<1>3. CASE loud /\ ~ Onset(g, loud, t)
  <2>1. k = [g EXCEPT !.loud_frames = g.loud_frames + 1, !.quiet_frames = 0]
    <3>1. loud = TRUE
      BY <1>3
    <3>2. ~ Onset(g, TRUE, t)
      BY <1>3, <3>1
    <3> QED
      BY <1>3, <3>2 DEF Accept, AcceptLoud, AcceptLoudLeaving, GateSet
  <2>2. g.loud_frames + 1 \in Nat /\ 0 \in 0 .. silence_frames
    BY <1>0
  <2> HIDE DEF k
  <2>3. k \in GateSet
    BY <2>1, <2>2 DEF GateSet
  <2>4. /\ k.loud_frames = g.loud_frames + 1 /\ k.quiet_frames = 0
        /\ k.speaking = g.speaking
        /\ k.has_triggered = g.has_triggered /\ k.last_trigger = g.last_trigger
    BY <2>1 DEF GateSet
  <2>5. Hanging(k)
    BY <1>0, <2>4 DEF Hanging
  <2> QED
    BY <1>3, <2>3, <2>4, <2>5 DEF k
<1> QED
  BY <1>1, <1>2, <1>3

-----------------------------------------------------------------------------
(* The pre-roll ring.                                                      *)

\* Two numbers less than m apart have different remainders.
LEMMA ModDistinct ==
  ASSUME NEW m \in Nat, m > 0, NEW x \in Nat, NEW y \in Nat, x < y, y - x < m
  PROVE  x % m # y % m
<1>1. /\ x = m * (x \div m) + (x % m) /\ x \div m \in Int
      /\ y = m * (y \div m) + (y % m) /\ y \div m \in Int
  BY Z3
<1>2. ASSUME x % m = y % m PROVE FALSE
  <2>1. y - x = m * ((y \div m) - (x \div m))
    BY <1>1, <1>2, Z3
  <2>2. PICK d \in Int : d = (y \div m) - (x \div m)
    BY <1>1
  <2>3. m * d = y - x
    BY <2>1, <2>2
  <2>4. d >= 1 => m * d >= m
    BY Z3
  <2>5. d <= 0 => m * d <= 0
    BY Z3
  <2> QED
    BY <2>2, <2>3, <2>4, <2>5
<1> QED
  BY <1>2

\* The pre-roll holds the end of a stream.
KeepsEnd(p, s) ==
  /\ PreRollSize(p) <= Len(s)
  /\ \A i \in 1 .. PreRollSize(p) : PreRollFrames(p)[i] = s[Len(s) - PreRollSize(p) + i]

LEMMA PreRollSizes ==
  ASSUME NEW p \in PreRollSet
  PROVE  /\ PreRollSize(p) \in 0 .. pre_roll_frames
         /\ p.head >= PreRollSize(p)
         /\ Len(PreRollFrames(p)) = PreRollSize(p)
         /\ DOMAIN PreRollFrames(p) = 1 .. PreRollSize(p)
         /\ \A i \in 1 .. PreRollSize(p) :
              PreRollFrames(p)[i] = p.frames[(p.head - PreRollSize(p) + i - 1) % pre_roll_frames]
<1>1. p.head \in Nat /\ pre_roll_frames \in Nat
  BY VadAssumption DEF PreRollSet
<1>2. PreRollSize(p) \in 0 .. pre_roll_frames /\ PreRollSize(p) \in Nat /\ p.head >= PreRollSize(p)
  BY <1>1 DEF PreRollSize
<1>3. PreRollFrames(p)
        = [i \in 1 .. PreRollSize(p) |->
             p.frames[(p.head - PreRollSize(p) + i - 1) % pre_roll_frames]]
  BY DEF PreRollFrames, FramesFrom
<1> HIDE DEF PreRollSize
<1>4. Len(PreRollFrames(p)) = PreRollSize(p)
  BY <1>2, <1>3
<1> QED
  BY <1>2, <1>3, <1>4

LEMMA KeptFrames ==
  ASSUME NEW p \in PreRollSet, NEW s \in Seq(FrameSet), KeepsEnd(p, s)
  PROVE  PreRollFrames(p) \in Seq(FrameSet)
<1>1. Len(s) \in Nat /\ \A i \in 1 .. Len(s) : s[i] \in FrameSet
  OBVIOUS
<1>2. PICK n \in Nat : n = PreRollSize(p) /\ n <= Len(s)
  BY PreRollSizes, VadAssumption DEF KeepsEnd
<1>3. \A i \in 1 .. n : Len(s) - n + i \in 1 .. Len(s)
  BY <1>1, <1>2
<1>4. \A i \in 1 .. n : PreRollFrames(p)[i] \in FrameSet
  BY <1>1, <1>2, <1>3 DEF KeepsEnd
<1>5. PreRollFrames(p) = [i \in 1 .. n |-> PreRollFrames(p)[i]]
  BY <1>2 DEF PreRollFrames, FramesFrom
<1> QED
  BY <1>2, <1>4, <1>5

\* A frame pushed is the newest one kept, and displaces the oldest when the
\* ring is full.
LEMMA PushKeeps ==
  ASSUME NEW p \in PreRollSet, NEW s \in Seq(FrameSet), KeepsEnd(p, s), NEW f \in FrameSet
  PROVE  LET q == PreRollPush(p, f)
         IN  /\ q \in PreRollSet /\ KeepsEnd(q, Append(s, f))
             /\ PreRollSize(q) = IF PreRollSize(p) < pre_roll_frames
                                   THEN PreRollSize(p) + 1 ELSE PreRollSize(p)
<1> DEFINE q == PreRollPush(p, f)
           t == Append(s, f)
<1>1. /\ Len(s) \in Nat /\ Len(t) = Len(s) + 1 /\ t[Len(s) + 1] = f
      /\ \A i \in 1 .. Len(s) : t[i] = s[i]
  BY AppendProperties
<1>2. PICK h \in Nat : h = p.head
  BY DEF PreRollSet
<1>3. PICK m \in Nat : m = pre_roll_frames
  BY VadAssumption
<1>4. PICK n \in Nat : n = PreRollSize(p) /\ n <= m /\ n <= h /\ n <= Len(s)
  BY <1>2, <1>3, PreRollSizes DEF KeepsEnd
<1>5. n = IF h < m THEN h ELSE m
  BY <1>2, <1>3, <1>4 DEF PreRollSize
<1>6. CASE m = 0
  <2>1. q = p /\ n = 0
    BY <1>3, <1>4, <1>6 DEF PreRollPush
  <2>2. KeepsEnd(p, t)
    BY <1>1, <1>4, <2>1 DEF KeepsEnd
  <2> QED
    BY <1>3, <1>4, <1>6, <2>1, <2>2
<1>7. CASE m > 0
  <2>1. q = [frames |-> [p.frames EXCEPT ![h % m] = f], head |-> h + 1]
    BY <1>2, <1>3, <1>7 DEF PreRollPush
  <2>2. h % m \in 0 .. m - 1
    BY <1>7, Z3
  <2>3. /\ p.frames \in [0 .. m - 1 -> FrameSet \cup {NoFrame}]
        /\ p.frames = [r \in 0 .. m - 1 |-> p.frames[r]]
    BY <1>3 DEF PreRollSet
  <2>4. q.head = h + 1 /\ q.frames = [p.frames EXCEPT ![h % m] = f]
    BY <2>1
  <2>5. q \in PreRollSet
    <3>1. [p.frames EXCEPT ![h % m] = f] \in [0 .. m - 1 -> FrameSet \cup {NoFrame}]
      BY <2>2, <2>3
    <3>2. h + 1 \in Nat
      OBVIOUS
    <3> QED
      BY <1>3, <2>1, <3>1, <3>2 DEF PreRollSet
  <2>6. \A r \in 0 .. m - 1 : q.frames[r] = IF r = h % m THEN f ELSE p.frames[r]
    BY <2>2, <2>3, <2>4
  <2> HIDE DEF q, t
  <2>7. PICK k \in Nat : k = PreRollSize(q) /\ k = IF n < m THEN n + 1 ELSE n
    <3>1. PreRollSize(q) = IF h + 1 < m THEN h + 1 ELSE m
      BY <1>3, <2>4 DEF PreRollSize
    <3> QED
      BY <1>5, <1>7, <3>1
  <2>8. /\ k <= Len(t) /\ k >= 1 /\ k <= m /\ h + 1 - k \in Nat
        /\ h + 1 - k >= h - n
    BY <1>1, <1>4, <1>5, <1>7, <2>7
  <2>9. ASSUME NEW i \in 1 .. k
        PROVE  PreRollFrames(q)[i] = t[Len(t) - k + i]
    <3>1. PICK x \in Nat : x = h + 1 - k + i - 1
      BY <2>8
    <3>2. PreRollFrames(q)[i] = q.frames[x % m]
      <4>1. PreRollFrames(q)[i] = q.frames[(q.head - PreRollSize(q) + i - 1) % pre_roll_frames]
        BY <2>5, <2>7, PreRollSizes
      <4>2. q.head - PreRollSize(q) + i - 1 = x
        BY <2>4, <2>7, <3>1
      <4> QED
        BY <1>3, <4>1, <4>2
    <3>3. x % m \in 0 .. m - 1
      BY <1>7, Z3
    <3>4. CASE i = k
      <4>1. x = h /\ Len(t) - k + i = Len(s) + 1
        BY <1>1, <3>1, <3>4
      <4> QED
        BY <1>1, <2>6, <3>2, <3>3, <4>1
    <3>5. CASE i # k
      <4>1. x < h /\ h - x < m
        BY <2>8, <3>1, <3>5
      <4>2. x % m # h % m
        BY <1>7, <4>1, ModDistinct
      <4>3. PreRollFrames(q)[i] = p.frames[x % m]
        BY <2>6, <3>2, <3>3, <4>2
      <4>4. PICK j \in 1 .. n : j = x - (h - n) + 1
        BY <1>4, <1>5, <2>7, <2>8, <3>1, <3>5
      <4>5. h - n + j - 1 = x /\ Len(s) - n + j = Len(t) - k + i /\ Len(t) - k + i \in 1 .. Len(s)
        <5>1. Len(s) \in Nat /\ Len(t) = Len(s) + 1 /\ k <= Len(t)
          BY <1>1, <2>8
        <5>2. j = n + 1 - k + i /\ j \in Nat /\ x = h - k + i
          BY <3>1, <4>4
        <5>3. i < k /\ i >= 1 /\ i \in Nat
          BY <3>5
        <5> QED
          BY <5>1, <5>2, <5>3
      <4>6. PreRollFrames(p)[j] = p.frames[x % m]
        BY <1>2, <1>3, <1>4, <4>4, <4>5, PreRollSizes
      <4>7. PreRollFrames(p)[j] = s[Len(s) - n + j]
        BY <1>4, <4>4 DEF KeepsEnd
      <4> QED
        BY <1>1, <4>3, <4>5, <4>6, <4>7
    <3> QED
      BY <3>4, <3>5
  <2>10. KeepsEnd(q, t)
    BY <2>7, <2>8, <2>9 DEF KeepsEnd
  <2> QED
    BY <1>3, <1>4, <2>5, <2>7, <2>10 DEF q, t
<1> QED
  BY <1>6, <1>7

\* A cleared pre-roll keeps nothing.
LEMMA ClearedKeeps ==
  ASSUME NEW p \in PreRollSet, p.head = 0, NEW s \in Seq(FrameSet)
  PROVE  PreRollSize(p) = 0 /\ KeepsEnd(p, s)
<1>1. PreRollSize(p) = 0
  BY VadAssumption DEF PreRollSize
<1> QED
  BY <1>1 DEF KeepsEnd

-----------------------------------------------------------------------------
(* on_frame().                                                             *)

Limit(n) == IF n < max_chunk_frames THEN n ELSE max_chunk_frames

\* flush_pre_roll() moves the frames kept to the chunk just opened.
LEMMA FlushFields ==
  ASSUME NEW a \in AssemblerSet, PreRollFrames(a.pre_roll) \in Seq(FrameSet)
  PROVE  LET b    == FlushPreRoll(a)
             old  == PreRollFrames(a.pre_roll)
             size == PreRollSize(a.pre_roll)
         IN  /\ b \in AssemblerSet
             /\ b.gate = a.gate /\ b.active = a.active /\ b.pre_roll.head = 0
             /\ b.frame_count = size
             /\ Len(b.buffer) = Limit(size)
             /\ \A i \in 1 .. Limit(size) : b.buffer[i] = old[i]
             /\ size > 0 => b.first_seq = old[1].seq /\ b.last_seq = old[size].seq
             /\ b.gap_frames = a.gap_frames /\ b.t_speech_start = a.t_speech_start
             /\ b.last_seq_seen = a.last_seq_seen /\ b.next_chunk_id = a.next_chunk_id
<1> DEFINE b == FlushPreRoll(a)
           old == PreRollFrames(a.pre_roll)
<1>1. PICK n \in Nat : n = PreRollSize(a.pre_roll) /\ n = Len(old)
  BY PreRollSizes, VadAssumption DEF AssemblerSet
<1>2. /\ old \in Seq(FrameSet) /\ max_chunk_frames \in Nat
      /\ \A i \in 1 .. n : old[i] \in FrameSet
  BY <1>1, VadAssumption
<1> DEFINE first == IF n > 0 THEN old[1].seq ELSE a.first_seq
           last == IF n > 0 THEN old[n].seq ELSE a.last_seq
           taken == SubSeq(old, 1, Limit(n))
           cleared == [a.pre_roll EXCEPT !.head = 0]
<1> HIDE DEF old
<1>3. first \in Nat /\ last \in Nat
  <2>1. a.first_seq \in Nat /\ a.last_seq \in Nat
    BY DEF AssemblerSet
  <2>2. ASSUME n > 0 PROVE old[1].seq \in Nat /\ old[n].seq \in Nat
    <3>1. 1 \in 1 .. n /\ n \in 1 .. n
      BY <2>2
    <3>2. \A i \in 1 .. n : old[i].seq \in Nat
      BY <1>2 DEF FrameSet
    <3> QED
      BY <3>1, <3>2
  <2> QED
    BY <2>1, <2>2
<1>4. /\ taken \in Seq(FrameSet) /\ Len(taken) = Limit(n)
      /\ \A i \in 1 .. Limit(n) : taken[i] = old[i]
  <2>1. PICK l \in Nat : l = Limit(n) /\ l <= n
    BY <1>2 DEF Limit
  <2>2. \A i \in 1 .. l : old[i] \in FrameSet
    BY <1>2, <2>1
  <2>3. /\ SubSeq(old, 1, l) \in Seq(FrameSet)
        /\ Len(SubSeq(old, 1, l)) = IF 1 <= l THEN l - 1 + 1 ELSE 0
        /\ \A i \in 1 .. l - 1 + 1 : SubSeq(old, 1, l)[i] = old[1 + i - 1]
    BY <2>2, SubSeqProperties
  <2>4. l - 1 + 1 = l /\ \A i \in 1 .. l : 1 + i - 1 = i
    OBVIOUS
  <2> QED
    BY <2>1, <2>3, <2>4
<1>5. cleared \in PreRollSet /\ cleared.head = 0
  <2>1. a.pre_roll \in PreRollSet
    BY DEF AssemblerSet
  <2> QED
    BY <2>1 DEF PreRollSet
<1>6. b = [a EXCEPT !.buffer = taken, !.first_seq = first, !.last_seq = last,
                    !.frame_count = n, !.pre_roll = cleared]
  BY <1>1 DEF FlushPreRoll, TakePreRoll, AssemblerSet, Limit, old
<1> HIDE DEF b, first, last, taken, cleared
<1>7. b \in AssemblerSet
  BY <1>1, <1>3, <1>4, <1>5, <1>6 DEF AssemblerSet
<1>8. /\ b.gate = a.gate /\ b.active = a.active /\ b.pre_roll = cleared
      /\ b.frame_count = n /\ b.buffer = taken /\ b.first_seq = first /\ b.last_seq = last
      /\ b.gap_frames = a.gap_frames /\ b.t_speech_start = a.t_speech_start
      /\ b.last_seq_seen = a.last_seq_seen /\ b.next_chunk_id = a.next_chunk_id
  BY <1>6 DEF AssemblerSet
<1> QED
  BY <1>1, <1>4, <1>5, <1>7, <1>8 DEF b, old, first, last

\* Where a frame finds the assembler: a chunk is opened on it, or not.
Opens(a, f, t) == Onset(a.gate, f.loud, t) /\ ~ a.active

LEMMA HearFields ==
  ASSUME NEW a \in AssemblerSet, Hanging(a.gate), PreRollFrames(a.pre_roll) \in Seq(FrameSet),
         NEW f \in FrameSet, NEW t \in Nat
  PROVE  LET h    == Hear(a, f, t)
             old  == PreRollFrames(a.pre_roll)
             size == PreRollSize(a.pre_roll)
         IN  /\ h \in AssemblerSet
             /\ h.gate = Accept(a.gate, f.loud, t) /\ h.last_seq_seen = f.seq
             /\ GapBefore(a, f) \in Nat
             /\ Opens(a, f, t) =>
                  /\ h.active /\ h.pre_roll.head = 0
                  /\ h.frame_count = size
                  /\ Len(h.buffer) = Limit(size)
                  /\ \A i \in 1 .. Limit(size) : h.buffer[i] = old[i]
                  /\ size > 0 => h.first_seq = old[1].seq /\ h.last_seq = old[size].seq
                  /\ h.gap_frames = 0 /\ h.t_speech_start = t
             /\ ~ Opens(a, f, t) =>
                  /\ h.active = a.active /\ h.pre_roll = a.pre_roll
                  /\ h.frame_count = a.frame_count /\ h.buffer = a.buffer
                  /\ h.first_seq = a.first_seq /\ h.last_seq = a.last_seq
                  /\ h.gap_frames = a.gap_frames + GapBefore(a, f)
                  /\ h.t_speech_start = a.t_speech_start
<1> DEFINE g == Accept(a.gate, f.loud, t)
           gaps == a.gap_frames + GapBefore(a, f)
           heard == [a EXCEPT !.gate = g, !.gap_frames = gaps, !.last_seq_seen = f.seq]
<1>1. f.seq \in Nat /\ f.loud \in BOOLEAN
  BY DEF FrameSet
<1>2. /\ a.last_seq_seen \in Nat \cup {None} /\ a.gap_frames \in Nat /\ a.gate \in GateSet
      /\ a.pre_roll \in PreRollSet
  BY DEF AssemblerSet
<1>3. GapBefore(a, f) \in Nat
  <2>1. CASE a.last_seq_seen # None /\ f.seq > a.last_seq_seen + 1
    BY <1>1, <1>2, <2>1 DEF GapBefore
  <2>2. CASE ~ (a.last_seq_seen # None /\ f.seq > a.last_seq_seen + 1)
    BY <2>2 DEF GapBefore
  <2> QED
    BY <2>1, <2>2
<1>4. g \in GateSet /\ gaps \in Nat
  BY <1>1, <1>2, <1>3, AcceptFields, SMTT(30)
<1> HIDE DEF g, gaps
<1>5. heard \in AssemblerSet
  BY <1>1, <1>4 DEF AssemblerSet
<1>6. /\ heard.gate = g /\ heard.gap_frames = gaps /\ heard.last_seq_seen = f.seq
      /\ heard.active = a.active /\ heard.pre_roll = a.pre_roll
      /\ heard.frame_count = a.frame_count /\ heard.buffer = a.buffer
      /\ heard.first_seq = a.first_seq /\ heard.last_seq = a.last_seq
      /\ heard.t_speech_start = a.t_speech_start
  BY DEF AssemblerSet
<1>7. Hear(a, f, t) = IF Opens(a, f, t) THEN FlushPreRoll(OpenChunk(heard, t)) ELSE heard
  BY DEF Hear, Opens, g, gaps, AssemblerSet
<1> HIDE DEF heard
<1>8. CASE Opens(a, f, t)
  <2>1. PICK o \in AssemblerSet :
          /\ o = OpenChunk(heard, t)
          /\ o.gate = heard.gate /\ o.pre_roll = heard.pre_roll /\ o.active
          /\ o.gap_frames = 0 /\ o.t_speech_start = t /\ o.last_seq_seen = heard.last_seq_seen
    BY <1>5, OpenFields
  <2>2. Hear(a, f, t) = FlushPreRoll(o) /\ PreRollFrames(o.pre_roll) \in Seq(FrameSet)
    BY <1>6, <1>7, <1>8, <2>1
  <2>3. PICK b \in AssemblerSet :
          /\ b = FlushPreRoll(o)
          /\ b.gate = o.gate /\ b.active = o.active /\ b.pre_roll.head = 0
          /\ b.frame_count = PreRollSize(o.pre_roll)
          /\ Len(b.buffer) = Limit(PreRollSize(o.pre_roll))
          /\ \A i \in 1 .. Limit(PreRollSize(o.pre_roll)) : b.buffer[i] = PreRollFrames(o.pre_roll)[i]
          /\ PreRollSize(o.pre_roll) > 0 =>
               /\ b.first_seq = PreRollFrames(o.pre_roll)[1].seq
               /\ b.last_seq = PreRollFrames(o.pre_roll)[PreRollSize(o.pre_roll)].seq
          /\ b.gap_frames = o.gap_frames /\ b.t_speech_start = o.t_speech_start
          /\ b.last_seq_seen = o.last_seq_seen
    BY <2>2, FlushFields
  <2> QED
    BY <1>3, <1>6, <1>8, <2>1, <2>2, <2>3 DEF g
<1>9. CASE ~ Opens(a, f, t)
  BY <1>3, <1>5, <1>6, <1>7, <1>9 DEF g, gaps
<1> QED
  BY <1>8, <1>9

\* The chunk being assembled, as Chunks shows it.
CurrentChunk(a) == [frame_count |-> a.frame_count, audio |-> a.buffer,
                    first_seq |-> a.first_seq, last_seq |-> a.last_seq, reason |-> "open"]

\* Chunk c is the run of frames of stream s that ends with its end-th.
HoldsRun(c, s, end) ==
  /\ c.frame_count \in 0 .. end
  /\ Len(c.audio) = Limit(c.frame_count)
  /\ \A i \in 1 .. Limit(c.frame_count) : c.audio[i] = s[end - c.frame_count + i]
  /\ c.frame_count > 0 => /\ c.first_seq = s[end - c.frame_count + 1].seq
                          /\ c.last_seq = s[end].seq

\* What an assembler is after it was fed stream s.
Sound(a, s) ==
  /\ a \in AssemblerSet /\ Hanging(a.gate)
  /\ KeepsEnd(a.pre_roll, s)
  /\ Len(a.buffer) <= max_chunk_frames
  /\ a.active => /\ a.gate.speaking /\ a.pre_roll.head = 0
                 /\ HoldsRun(CurrentChunk(a), s, Len(s))

\* The frames at the end of the stream that no event has shipped yet and that
\* the next chunk will ship.
Unshipped(a) == IF a.active THEN a.frame_count ELSE PreRollSize(a.pre_roll)

LEMMA LimitBounds ==
  ASSUME NEW n \in Nat
  PROVE  Limit(n) \in 0 .. n /\ Limit(n) <= max_chunk_frames
  BY VadAssumption DEF Limit

\* Later frames do not change a run.
LEMMA RunExtends ==
  ASSUME NEW s \in Seq(FrameSet), NEW f \in FrameSet, NEW end \in 0 .. Len(s),
         NEW c, HoldsRun(c, s, end)
  PROVE  HoldsRun(c, Append(s, f), end)
<1>1. /\ Len(s) \in Nat /\ \A i \in 1 .. Len(s) : Append(s, f)[i] = s[i]
  BY AppendProperties
<1>2. PICK n \in 0 .. end : n = c.frame_count
  BY DEF HoldsRun
<1>3. Limit(n) \in 0 .. n
  BY <1>1, <1>2, LimitBounds, SMTT(30)
<1>4. \A i \in 1 .. Limit(n) : end - n + i \in 1 .. Len(s)
  BY <1>1, <1>2, <1>3
<1>5. n > 0 => end - n + 1 \in 1 .. Len(s) /\ end \in 1 .. Len(s)
  BY <1>1, <1>2
<1> QED
  BY <1>1, <1>2, <1>4, <1>5 DEF HoldsRun

\* append() adds the frame to the run.
LEMMA RunJoins ==
  ASSUME NEW s \in Seq(FrameSet), NEW f \in FrameSet,
         NEW a \in AssemblerSet, HoldsRun(CurrentChunk(a), s, Len(s))
  PROVE  HoldsRun(CurrentChunk(AppendFrame(a, f)), Append(s, f), Len(s) + 1)
<1> DEFINE t == Append(s, f)
<1>1. /\ Len(s) \in Nat /\ t[Len(s) + 1] = f
      /\ \A i \in 1 .. Len(s) : t[i] = s[i]
  BY AppendProperties
<1>2. PICK n \in Nat : n = a.frame_count
  BY DEF AssemblerSet
<1>3. PICK b \in AssemblerSet :
        /\ b = AppendFrame(a, f)
        /\ b.buffer = IF Len(a.buffer) < max_chunk_frames THEN Append(a.buffer, f) ELSE a.buffer
        /\ b.frame_count = n + 1
        /\ b.first_seq = IF n = 0 THEN f.seq ELSE a.first_seq
        /\ b.last_seq = f.seq
  BY <1>2, AppendFields
<1>4. /\ n <= Len(s) /\ Len(a.buffer) = Limit(n) /\ a.buffer \in Seq(FrameSet)
      /\ \A i \in 1 .. Limit(n) : a.buffer[i] = s[Len(s) - n + i]
      /\ n > 0 => a.first_seq = s[Len(s) - n + 1].seq
  BY <1>1, <1>2 DEF HoldsRun, CurrentChunk, AssemblerSet
<1> HIDE DEF t
<1>5. PICK l \in Nat : l = Limit(n) /\ l <= n
  BY LimitBounds
<1>6. PICK z \in Nat : z = Len(s) /\ n <= z
  BY <1>1, <1>4
<1>7. /\ Len(b.buffer) = Limit(n + 1)
      /\ \A i \in 1 .. Limit(n + 1) : b.buffer[i] = t[z + 1 - (n + 1) + i]
  <2>1. CASE l < max_chunk_frames
    <3>1. l = n /\ Limit(n + 1) = n + 1
      <4>1. PICK m \in Nat : m = max_chunk_frames
        BY VadAssumption
      <4>2. l = (IF n < m THEN n ELSE m) /\ l < m
        BY <1>5, <2>1, <4>1 DEF Limit
      <4>3. Limit(n + 1) = IF n + 1 < m THEN n + 1 ELSE m
        BY <4>1 DEF Limit
      <4> QED
        BY <4>2, <4>3
    <3>2. b.buffer = Append(a.buffer, f)
      BY <1>3, <1>4, <1>5, <2>1
    <3>3. /\ Len(b.buffer) = n + 1 /\ b.buffer[n + 1] = f
          /\ \A i \in 1 .. n : b.buffer[i] = a.buffer[i]
      BY <1>4, <1>5, <3>1, <3>2, AppendProperties
    <3>4. ASSUME NEW i \in 1 .. n + 1
          PROVE  b.buffer[i] = t[z + 1 - (n + 1) + i]
      <4>1. CASE i = n + 1
        <5>1. z + 1 - (n + 1) + i = z + 1
          BY <4>1
        <5> QED
          BY <1>1, <1>6, <3>3, <4>1, <5>1
      <4>2. CASE i \in 1 .. n
        <5>1. z + 1 - (n + 1) + i = z - n + i /\ z - n + i \in 1 .. z
          BY <1>6, <4>2
        <5> QED
          BY <1>1, <1>4, <1>5, <1>6, <3>1, <3>3, <4>2, <5>1
      <4> QED
        BY <4>1, <4>2
    <3> QED
      BY <3>1, <3>3, <3>4
  <2>2. CASE ~ (l < max_chunk_frames)
    <3>1. l = max_chunk_frames /\ Limit(n + 1) = l
      BY <1>5, <2>2, VadAssumption DEF Limit
    <3>2. b.buffer = a.buffer
      BY <1>3, <1>4, <1>5, <2>2
    <3>3. ASSUME NEW i \in 1 .. l
          PROVE  b.buffer[i] = t[z + 1 - (n + 1) + i]
      <4>1. z + 1 - (n + 1) + i = z - n + i /\ z - n + i \in 1 .. z
        BY <1>5, <1>6
      <4> QED
        BY <1>1, <1>4, <1>5, <1>6, <3>2, <4>1
    <3> QED
      BY <1>4, <1>5, <3>1, <3>2, <3>3
  <2> QED
    BY <2>1, <2>2
<1>8. b.first_seq = t[z + 1 - (n + 1) + 1].seq
  <2>1. CASE n = 0
    <3>1. z + 1 - (n + 1) + 1 = z + 1
      BY <2>1
    <3> QED
      BY <1>1, <1>3, <1>6, <2>1, <3>1
  <2>2. CASE n > 0
    <3>1. z + 1 - (n + 1) + 1 = z - n + 1 /\ z - n + 1 \in 1 .. z
      BY <1>6, <2>2
    <3> QED
      BY <1>1, <1>3, <1>4, <1>6, <2>2, <3>1
  <2> QED
    BY <2>1, <2>2
<1>9. b.last_seq = t[z + 1].seq
  BY <1>1, <1>3, <1>6
<1>10. n + 1 \in 0 .. z + 1
  BY <1>6
<1> DEFINE c == CurrentChunk(b)
<1>11. /\ c.frame_count = n + 1 /\ c.audio = b.buffer
       /\ c.first_seq = b.first_seq /\ c.last_seq = b.last_seq
  BY <1>3 DEF CurrentChunk
<1> HIDE DEF c
<1>12. HoldsRun(c, t, z + 1)
  BY <1>7, <1>8, <1>9, <1>10, <1>11 DEF HoldsRun
<1> QED
  BY <1>3, <1>6, <1>12 DEF c, t

\* The outcomes of on_frame() for stream s and the frame f that comes next.
KeepsFrame(a, r) ==
  /\ ~ a.active /\ ~ r.assembler.active /\ r.out = <<>>
  /\ Unshipped(r.assembler) = IF Unshipped(a) < pre_roll_frames THEN Unshipped(a) + 1
                                                                ELSE Unshipped(a)

\* The chunk that f joins is j: it stays open, ends, or is cut at the cap.
JoinsChunk(a, s, f, t, j) ==
  /\ HoldsRun(CurrentChunk(j), Append(s, f), Len(s) + 1)
  /\ j.frame_count = Unshipped(a) + 1
  /\ j.gap_frames = IF a.active THEN a.gap_frames + GapBefore(a, f) ELSE 0
  /\ j.t_speech_start = IF a.active THEN a.t_speech_start ELSE t

StaysOpen(r, t, j) ==
  /\ r.out = <<>> /\ r.assembler = j /\ j.active
  /\ t - j.t_speech_start < max_chunk_ms

Ends(r, t, j) ==
  /\ r.out = <<ChunkEvent(j, "hangover", t)>>
  /\ ~ r.assembler.active /\ Unshipped(r.assembler) = 0

IsCut(r, t, j) ==
  /\ r.out = <<ChunkEvent(j, "max_length", t)>>
  /\ r.assembler.active /\ r.assembler.frame_count = 0
  /\ r.assembler.gap_frames = 0 /\ r.assembler.t_speech_start = t

\* An empty run can begin anywhere.
LEMMA EmptyRun ==
  ASSUME NEW s \in Seq(FrameSet), NEW a \in AssemblerSet, a.frame_count = 0, a.buffer = <<>>
  PROVE  HoldsRun(CurrentChunk(a), s, Len(s))
<1> DEFINE c == CurrentChunk(a)
<1>1. c.frame_count = 0 /\ c.audio = <<>>
  BY DEF CurrentChunk
<1>2. Limit(0) = 0 /\ Len(s) \in Nat
  BY VadAssumption DEF Limit
<1> HIDE DEF c
<1>3. HoldsRun(c, s, Len(s))
  BY <1>1, <1>2 DEF HoldsRun
<1> QED
  BY <1>3 DEF c

\* on_frame() keeps the assembler sound, and does one of four things.
LEMMA FrameOutcome ==
  ASSUME NEW s \in Seq(FrameSet), NEW f \in FrameSet, NEW t \in Nat,
         NEW a, Sound(a, s)
  PROVE  LET r == OnFrame(a, f, t)
         IN  /\ Sound(r.assembler, Append(s, f))
             /\ r.assembler.gate = Accept(a.gate, f.loud, t)
             /\ r.assembler.last_seq_seen = f.seq
             /\ IF a.active \/ Onset(a.gate, f.loud, t)
                  THEN \E j \in AssemblerSet :
                         /\ JoinsChunk(a, s, f, t, j)
                         /\ \/ StaysOpen(r, t, j) /\ r.assembler.gate.speaking
                            \/ Ends(r, t, j) /\ ~ r.assembler.gate.speaking
                            \/ IsCut(r, t, j) /\ r.assembler.gate.speaking
                  ELSE KeepsFrame(a, r)
<1> DEFINE r == OnFrame(a, f, t)
           h == Hear(a, f, t)
           g == Accept(a.gate, f.loud, t)
           s2 == Append(s, f)
           size == PreRollSize(a.pre_roll)
<1>1. /\ a \in AssemblerSet /\ Hanging(a.gate) /\ a.pre_roll \in PreRollSet
      /\ a.gate \in GateSet /\ f.loud \in BOOLEAN /\ KeepsEnd(a.pre_roll, s)
      /\ PreRollFrames(a.pre_roll) \in Seq(FrameSet)
  BY KeptFrames DEF Sound, AssemblerSet, FrameSet
<1>2. /\ h \in AssemblerSet
      /\ h.gate = g /\ h.last_seq_seen = f.seq
      /\ Opens(a, f, t) =>
           /\ h.active /\ h.pre_roll.head = 0
           /\ h.frame_count = size
           /\ Len(h.buffer) = Limit(size)
           /\ \A i \in 1 .. Limit(size) : h.buffer[i] = PreRollFrames(a.pre_roll)[i]
           /\ size > 0 => /\ h.first_seq = PreRollFrames(a.pre_roll)[1].seq
                          /\ h.last_seq = PreRollFrames(a.pre_roll)[size].seq
           /\ h.gap_frames = 0 /\ h.t_speech_start = t
      /\ ~ Opens(a, f, t) =>
           /\ h.active = a.active /\ h.pre_roll = a.pre_roll
           /\ h.frame_count = a.frame_count /\ h.buffer = a.buffer
           /\ h.first_seq = a.first_seq /\ h.last_seq = a.last_seq
           /\ h.gap_frames = a.gap_frames + GapBefore(a, f)
           /\ h.t_speech_start = a.t_speech_start
  BY <1>1, HearFields
<1>3. /\ g \in GateSet /\ Hanging(g)
      /\ f.loud /\ a.gate.speaking => g.speaking
  BY <1>1, AcceptFields
<1>r. r = IF h.active THEN CloseIfDue(AppendFrame(h, f), t) ELSE KeepForPreRoll(h, f)
  BY DEF OnFrame
<1> HIDE DEF h, g, r
<1>4. h.active <=> a.active \/ Onset(a.gate, f.loud, t)
  BY <1>2 DEF Opens
<1>5. s2 \in Seq(FrameSet) /\ Len(s2) = Len(s) + 1
  BY AppendProperties
<1>6. CASE ~ h.active
  <2>1. ~ a.active /\ ~ Opens(a, f, t)
    BY <1>4, <1>6 DEF Opens
  <2> DEFINE p == PreRollPush(a.pre_roll, f)
  <2>2. r = Result([h EXCEPT !.pre_roll = p], <<>>)
    BY <1>2, <1>6, <1>r, <2>1 DEF KeepForPreRoll
  <2>3. /\ p \in PreRollSet /\ KeepsEnd(p, s2)
        /\ PreRollSize(p) = IF size < pre_roll_frames THEN size + 1 ELSE size
    BY <1>1, PushKeeps
  <2> HIDE DEF p
  <2> DEFINE b == [h EXCEPT !.pre_roll = p]
  <2>4. b \in AssemblerSet
    BY <1>2, <2>3 DEF AssemblerSet
  <2>5. /\ b.gate = g /\ b.last_seq_seen = f.seq /\ b.pre_roll = p
        /\ b.active = h.active /\ b.buffer = h.buffer
    BY <1>2 DEF AssemblerSet
  <2>6. r.assembler = b /\ r.out = <<>>
    BY <2>2 DEF Result
  <2> HIDE DEF b
  <2>7. Sound(b, s2)
    BY <1>2, <1>3, <1>6, <2>1, <2>3, <2>4, <2>5 DEF Sound
  <2>8. KeepsFrame(a, r)
    BY <1>6, <2>1, <2>3, <2>5, <2>6 DEF KeepsFrame, Unshipped
  <2> QED
    BY <1>4, <1>6, <2>5, <2>6, <2>7, <2>8 DEF r, g
<1>7. CASE h.active
  <2>1. h.pre_roll.head = 0 /\ h.pre_roll \in PreRollSet
    BY <1>1, <1>2, <1>4, <1>7 DEF Sound, Opens, AssemblerSet
  <2>2. HoldsRun(CurrentChunk(h), s, Len(s)) /\ h.frame_count = Unshipped(a)
    <3>1. CASE a.active
      <4>1. ~ Opens(a, f, t)
        BY <3>1 DEF Opens
      <4>2. CurrentChunk(h) = CurrentChunk(a)
        BY <1>2, <4>1 DEF CurrentChunk
      <4> QED
        BY <1>2, <3>1, <4>1, <4>2 DEF Sound, Unshipped
    <3>2. CASE ~ a.active
      <4>1. Opens(a, f, t)
        BY <1>4, <1>7, <3>2 DEF Opens
      <4>2. PICK n \in Nat : n = size /\ n <= Len(s)
        BY <1>1, PreRollSizes, VadAssumption DEF KeepsEnd
      <4>3. \A i \in 1 .. n : PreRollFrames(a.pre_roll)[i] = s[Len(s) - n + i]
        BY <1>1, <4>2 DEF KeepsEnd
      <4>4. Limit(n) \in 0 .. n /\ Len(s) \in Nat
        BY <4>2, LimitBounds
      <4> DEFINE c == CurrentChunk(h)
      <4>5. /\ c.frame_count = n /\ c.audio = h.buffer
            /\ c.first_seq = h.first_seq /\ c.last_seq = h.last_seq
        BY <1>2, <4>1, <4>2 DEF CurrentChunk
      <4> HIDE DEF c
      <4>6. \A i \in 1 .. Limit(n) : h.buffer[i] = s[Len(s) - n + i]
        <5> SUFFICES ASSUME NEW i \in 1 .. Limit(n)
                     PROVE  h.buffer[i] = s[Len(s) - n + i]
          OBVIOUS
        <5>1. i \in 1 .. n
          BY <4>4
        <5>2. h.buffer[i] = PreRollFrames(a.pre_roll)[i]
          BY <1>2, <4>1, <4>2
        <5> QED
          BY <4>3, <5>1, <5>2
      <4>7. n > 0 => /\ h.first_seq = s[Len(s) - n + 1].seq
                     /\ h.last_seq = s[Len(s)].seq
        <5>1. n > 0 => 1 \in 1 .. n /\ n \in 1 .. n /\ Len(s) - n + n = Len(s)
          BY <4>4
        <5>2. n > 0 => /\ PreRollFrames(a.pre_roll)[1] = s[Len(s) - n + 1]
                       /\ PreRollFrames(a.pre_roll)[n] = s[Len(s)]
          BY <4>3, <5>1
        <5> QED
          BY <1>2, <4>1, <4>2, <5>2
      <4>8. HoldsRun(c, s, Len(s))
        BY <1>2, <4>1, <4>2, <4>4, <4>5, <4>6, <4>7 DEF HoldsRun
      <4> QED
        BY <1>2, <3>2, <4>1, <4>8 DEF c, Unshipped
    <3> QED
      BY <3>1, <3>2
  <2>3. PICK j \in AssemblerSet :
          /\ j = AppendFrame(h, f)
          /\ j.gate = g /\ j.pre_roll = h.pre_roll /\ j.active
          /\ j.frame_count = h.frame_count + 1
          /\ j.gap_frames = h.gap_frames
          /\ j.t_speech_start = h.t_speech_start
          /\ j.last_seq_seen = f.seq
    BY <1>2, <1>7, AppendFields
  <2>4. JoinsChunk(a, s, f, t, j)
    <3>1. HoldsRun(CurrentChunk(j), s2, Len(s) + 1)
      BY <1>2, <2>2, <2>3, RunJoins
    <3>2. j.gap_frames = IF a.active THEN a.gap_frames + GapBefore(a, f) ELSE 0
      BY <1>2, <1>4, <1>7, <2>3 DEF Opens
    <3>3. j.t_speech_start = IF a.active THEN a.t_speech_start ELSE t
      BY <1>2, <1>4, <1>7, <2>3 DEF Opens
    <3> QED
      BY <2>2, <2>3, <3>1, <3>2, <3>3 DEF JoinsChunk
  <2>5. /\ PreRollSize(j.pre_roll) = 0 /\ KeepsEnd(j.pre_roll, s2)
        /\ Len(j.buffer) <= max_chunk_frames
    <3>1. Len(j.buffer) = Limit(j.frame_count) /\ j.frame_count \in Nat
      BY <2>4 DEF JoinsChunk, HoldsRun, CurrentChunk, AssemblerSet
    <3>2. Len(j.buffer) <= max_chunk_frames
      BY <3>1, LimitBounds
    <3> QED
      BY <1>5, <2>1, <2>3, <3>2, ClearedKeeps
  <2>6. r = CloseIfDue(j, t)
    BY <1>7, <1>r, <2>3
  <2>7. CASE ~ j.gate.speaking
    <3>1. r = Result(Closed(j), <<ChunkEvent(j, "hangover", t)>>)
      BY <2>3, <2>6, <2>7 DEF CloseIfDue, CloseIf
    <3>2. PICK b \in AssemblerSet :
            /\ b = Closed(j) /\ b.gate = j.gate /\ b.pre_roll = j.pre_roll /\ ~ b.active
            /\ b.last_seq_seen = j.last_seq_seen /\ b.buffer = j.buffer
      BY ClosedFields
    <3>3. r.assembler = b /\ r.out = <<ChunkEvent(j, "hangover", t)>>
      BY <3>1, <3>2 DEF Result
    <3>4. Sound(b, s2)
      BY <1>3, <2>3, <2>5, <3>2 DEF Sound
    <3>5. Ends(r, t, j)
      BY <2>5, <3>2, <3>3 DEF Ends, Unshipped
    <3> QED
      BY <1>4, <1>7, <2>3, <2>4, <2>7, <3>2, <3>3, <3>4, <3>5 DEF r, g
  <2>8. CASE j.gate.speaking /\ t - j.t_speech_start >= max_chunk_ms
    <3>1. r = Result(OpenChunk(Closed(j), t), <<ChunkEvent(j, "max_length", t)>>)
      BY <2>3, <2>6, <2>8 DEF CloseIfDue, CloseIf
    <3>2. PICK d \in AssemblerSet :
            /\ d = Closed(j) /\ d.gate = j.gate /\ d.pre_roll = j.pre_roll
            /\ d.last_seq_seen = j.last_seq_seen
      BY ClosedFields
    <3>3. PICK b \in AssemblerSet :
            /\ b = OpenChunk(d, t) /\ b.gate = d.gate /\ b.pre_roll = d.pre_roll /\ b.active
            /\ b.buffer = <<>> /\ b.frame_count = 0 /\ b.gap_frames = 0
            /\ b.t_speech_start = t /\ b.last_seq_seen = d.last_seq_seen
      BY OpenFields
    <3>4. r.assembler = b /\ r.out = <<ChunkEvent(j, "max_length", t)>>
      BY <3>1, <3>2, <3>3 DEF Result
    <3>5. Sound(b, s2)
      <4>1. Len(b.buffer) <= max_chunk_frames
        BY <3>3, VadAssumption
      <4> QED
        BY <1>3, <1>5, <2>1, <2>3, <2>5, <2>8, <3>2, <3>3, <4>1, EmptyRun DEF Sound
    <3>6. IsCut(r, t, j)
      BY <3>3, <3>4 DEF IsCut
    <3> QED
      BY <1>4, <1>7, <2>3, <2>4, <2>8, <3>2, <3>3, <3>4, <3>5, <3>6 DEF r, g
  <2>9. CASE j.gate.speaking /\ ~ (t - j.t_speech_start >= max_chunk_ms)
    <3>1. r = Result(j, <<>>)
      BY <2>3, <2>6, <2>9 DEF CloseIfDue, CloseIf
    <3>2. r.assembler = j /\ r.out = <<>>
      BY <3>1 DEF Result
    <3>3. Sound(j, s2)
      BY <1>3, <1>5, <2>1, <2>3, <2>4, <2>5, <2>9 DEF Sound, JoinsChunk
    <3>4. StaysOpen(r, t, j)
      <4>1. t - j.t_speech_start \in Int /\ max_chunk_ms \in Nat
        BY VadAssumption DEF AssemblerSet
      <4> QED
        BY <2>3, <2>9, <3>2, <4>1 DEF StaysOpen
    <3> QED
      BY <1>4, <1>7, <2>3, <2>4, <2>9, <3>2, <3>3, <3>4 DEF r, g
  <2> QED
    BY <2>7, <2>8, <2>9
<1> QED
  BY <1>6, <1>7

\* flush() ships what the open chunk holds.
ShipsRest(a, r, t) ==
  r.out = <<ChunkEvent(a, "stream_end", t)>> /\ Unshipped(r.assembler) = 0

LEMMA FlushOutcome ==
  ASSUME NEW s \in Seq(FrameSet), NEW t \in Nat, NEW a, Sound(a, s)
  PROVE  LET r == Flush(a, t)
         IN  /\ Sound(r.assembler, s) /\ ~ r.assembler.active
             /\ r.assembler.gate = a.gate
             /\ a.active => ShipsRest(a, r, t)
             /\ ~ a.active => r.out = <<>> /\ r.assembler = a
<1>0. a \in AssemblerSet
  BY DEF Sound
<1>1. CASE a.active
  <2>1. Flush(a, t) = Result(Closed(a), <<ChunkEvent(a, "stream_end", t)>>)
    BY <1>1 DEF Flush
  <2>2. PICK b \in AssemblerSet :
          /\ b = Closed(a) /\ b.gate = a.gate /\ b.pre_roll = a.pre_roll /\ ~ b.active
          /\ b.buffer = a.buffer
    BY <1>0, ClosedFields
  <2>3. PreRollSize(b.pre_roll) = 0
    BY <1>1, <2>2, ClearedKeeps DEF Sound, AssemblerSet
  <2>4. Sound(b, s)
    BY <2>2 DEF Sound
  <2> QED
    BY <1>1, <2>1, <2>2, <2>3, <2>4 DEF Result, Unshipped, ShipsRest
<1>2. CASE ~ a.active
  BY <1>0, <1>2 DEF Flush, Result
<1> QED
  BY <1>1, <1>2

EventSet ==
  [chunk_id : Nat, first_seq : Nat, last_seq : Nat, t_speech_start : Nat, t_endpoint : Nat,
   frame_count : Nat, byte_count : 0 .. max_chunk_frames, dropped_frames : Nat,
   reason : {"hangover", "max_length", "stream_end"}, audio : Seq(FrameSet)]

\* The event of a chunk says what the chunk holds.
LEMMA EventFields ==
  ASSUME NEW a \in AssemblerSet, Len(a.buffer) <= max_chunk_frames, NEW t \in Nat,
         NEW reason \in {"hangover", "max_length", "stream_end"},
         NEW s, NEW end, HoldsRun(CurrentChunk(a), s, end)
  PROVE  LET e == ChunkEvent(a, reason, t)
         IN  /\ e \in EventSet /\ e.reason = reason
             /\ HoldsRun(e, s, end)
             /\ e.frame_count = a.frame_count /\ e.dropped_frames = a.gap_frames
<1> DEFINE e == ChunkEvent(a, reason, t)
           c == CurrentChunk(a)
<1>1. /\ e.reason = reason /\ e.frame_count = a.frame_count /\ e.dropped_frames = a.gap_frames
      /\ e.audio = a.buffer /\ e.first_seq = a.first_seq /\ e.last_seq = a.last_seq
  BY DEF ChunkEvent
<1>2. /\ c.frame_count = a.frame_count /\ c.audio = a.buffer
      /\ c.first_seq = a.first_seq /\ c.last_seq = a.last_seq
  BY DEF CurrentChunk
<1>3. e \in EventSet
  <2>1. /\ a.next_chunk_id \in Nat /\ a.first_seq \in Nat /\ a.last_seq \in Nat
        /\ a.t_speech_start \in Nat /\ a.frame_count \in Nat /\ a.gap_frames \in Nat
        /\ a.buffer \in Seq(FrameSet)
    BY DEF AssemblerSet
  <2>2. Len(a.buffer) \in 0 .. max_chunk_frames
    BY <2>1, VadAssumption
  <2> QED
    BY <2>1, <2>2 DEF ChunkEvent, EventSet
<1> HIDE DEF e, c
<1>4. HoldsRun(c, s, end)
  BY DEF c
<1>5. HoldsRun(e, s, end)
  BY <1>1, <1>2, <1>4 DEF HoldsRun
<1> QED
  BY <1>1, <1>3, <1>5 DEF e

-----------------------------------------------------------------------------
(* The stream.                                                             *)

StreamTypes ==
  /\ now \in Nat /\ call \in 1 .. MaxCalls /\ next_seq \in Nat
  /\ fed \in Seq(FrameSet) /\ events \in Seq(EventSet)
  /\ \A i \in 1 .. Len(fed) : fed[i].id = i
  /\ Sound(assembler, fed)
  /\ BoundedLatency

\* What the two actions do to the variables, f and t being the frame and the
\* clock after the step.
TakesFrame(f, t) ==
  /\ f.id = Len(fed) + 1 /\ f.call = call /\ f.lost \in Nat /\ f.seq = next_seq + f.lost
  /\ now' = t /\ call' = call /\ next_seq' = f.seq + 1
  /\ fed' = Append(fed, f)
  /\ assembler' = OnFrame(assembler, f, t).assembler
  /\ events' = events \o OnFrame(assembler, f, t).out

EndsCall(t) ==
  /\ now' = t /\ call' = call + 1 /\ call' \in 1 .. MaxCalls /\ next_seq' \in Nat
  /\ fed' = fed
  /\ assembler' = Flush(assembler, t).assembler
  /\ events' = events \o Flush(assembler, t).out

LEMMA NextKinds ==
  ASSUME StreamTypes, Next
  PROVE  \E t \in Nat : t >= now /\ (EndsCall(t) \/ \E f \in FrameSet : TakesFrame(f, t))
<1>0. now \in Nat /\ call \in 1 .. MaxCalls /\ next_seq \in Nat /\ Len(fed) \in Nat
  BY DEF StreamTypes
<1>1. ASSUME NEW delay \in Delays, NEW gap \in Gaps, NEW loud \in BOOLEAN,
             Frame(gap, loud, delay)
      PROVE  \E f \in FrameSet : TakesFrame(f, now + delay)
  <2> DEFINE f == [id |-> Len(fed) + 1, call |-> call, seq |-> next_seq + gap, loud |-> loud,
                   lost |-> gap]
  <2>1. gap \in Nat /\ delay \in Nat
    BY StreamAssumption
  <2>2. Len(fed) < MaxFrames
    BY <1>1 DEF Frame
  <2>3. Len(fed) + 1 \in 1 .. MaxFrames /\ next_seq + gap \in Nat
    BY <1>0, <2>1, <2>2, StreamAssumption
  <2>4. f \in FrameSet
    BY <1>0, <2>3 DEF FrameSet
  <2>5. TakesFrame(f, now + delay)
    BY <1>1, <2>1 DEF TakesFrame, Frame, Apply
  <2> QED
    BY <2>4, <2>5
<1>2. ASSUME NEW delay \in Delays, NEW start \in Starts, EndCall(delay, start)
      PROVE  EndsCall(now + delay)
  <2>1. call + 1 \in 1 .. MaxCalls /\ start \in Nat
    BY <1>0, <1>2, StreamAssumption DEF EndCall
  <2> QED
    BY <1>2, <2>1 DEF EndCall, EndsCall, Apply
<1>3. \A delay \in Delays : now + delay \in Nat /\ now + delay >= now
  BY <1>0, StreamAssumption
<1> QED
  BY <1>1, <1>2, <1>3 DEF Next

\* An event comes out of a frame that some chunk held or joined.
LEMMA Emits ==
  ASSUME StreamTypes, NEW t \in Nat, NEW f \in FrameSet, TakesFrame(f, t)
  PROVE  /\ fed' \in Seq(FrameSet) /\ Len(fed') = Len(fed) + 1 /\ fed'[Len(fed) + 1] = f
         /\ \A i \in 1 .. Len(fed) : fed'[i] = fed[i]
         /\ Sound(assembler', fed')
         /\ assembler'.gate = Accept(assembler.gate, f.loud, t)
         /\ assembler'.last_seq_seen = f.seq
         /\ IF assembler.active \/ Onset(assembler.gate, f.loud, t)
              THEN \E j \in AssemblerSet :
                     /\ HoldsRun(CurrentChunk(j), fed', Len(fed'))
                     /\ j.frame_count = Unshipped(assembler) + 1
                     /\ j.gap_frames = IF assembler.active
                                         THEN assembler.gap_frames + GapBefore(assembler, f)
                                         ELSE 0
                     /\ j.t_speech_start = IF assembler.active
                                             THEN assembler.t_speech_start ELSE t
                     /\ \/ /\ events' = events /\ assembler' = j /\ j.active
                           /\ assembler'.gate.speaking
                           /\ t - j.t_speech_start < max_chunk_ms
                        \/ \E e \in EventSet :
                             /\ events' = Append(events, e)
                             /\ HoldsRun(e, fed', Len(fed'))
                             /\ e.frame_count = j.frame_count /\ e.dropped_frames = j.gap_frames
                             /\ Unshipped(assembler') = 0
                             /\ \/ /\ e.reason = "hangover"
                                   /\ ~ assembler'.active /\ ~ assembler'.gate.speaking
                                \/ /\ e.reason = "max_length"
                                   /\ assembler'.active /\ assembler'.gate.speaking
                                   /\ assembler'.gap_frames = 0 /\ assembler'.t_speech_start = t
              ELSE /\ ~ assembler.active /\ ~ assembler'.active /\ events' = events
                   /\ Unshipped(assembler') = IF Unshipped(assembler) < pre_roll_frames
                                                THEN Unshipped(assembler) + 1
                                                ELSE Unshipped(assembler)
<1> DEFINE a == assembler
           r == OnFrame(assembler, f, t)
<1>1. /\ fed \in Seq(FrameSet) /\ fed' = Append(fed, f) /\ Sound(a, fed)
      /\ assembler' = r.assembler /\ events' = events \o r.out /\ events \in Seq(EventSet)
  BY DEF StreamTypes, TakesFrame
<1>2. /\ fed' \in Seq(FrameSet) /\ Len(fed') = Len(fed) + 1 /\ fed'[Len(fed) + 1] = f
      /\ \A i \in 1 .. Len(fed) : fed'[i] = fed[i]
  BY <1>1, AppendProperties
<1>3. /\ Sound(r.assembler, Append(fed, f))
      /\ r.assembler.gate = Accept(a.gate, f.loud, t)
      /\ r.assembler.last_seq_seen = f.seq
      /\ IF a.active \/ Onset(a.gate, f.loud, t)
           THEN \E j \in AssemblerSet :
                  /\ JoinsChunk(a, fed, f, t, j)
                  /\ \/ StaysOpen(r, t, j) /\ r.assembler.gate.speaking
                     \/ Ends(r, t, j) /\ ~ r.assembler.gate.speaking
                     \/ IsCut(r, t, j) /\ r.assembler.gate.speaking
           ELSE KeepsFrame(a, r)
  BY <1>1, FrameOutcome
<1> HIDE DEF r
<1>4. CASE ~ (a.active \/ Onset(a.gate, f.loud, t))
  <2>1. KeepsFrame(a, r)
    BY <1>3, <1>4
  <2>2. events' = events
    BY <1>1, <2>1 DEF KeepsFrame
  <2> QED
    BY <1>1, <1>2, <1>3, <1>4, <2>1, <2>2 DEF KeepsFrame
<1>5. CASE a.active \/ Onset(a.gate, f.loud, t)
  <2>1. PICK j \in AssemblerSet :
          /\ JoinsChunk(a, fed, f, t, j)
          /\ \/ StaysOpen(r, t, j) /\ r.assembler.gate.speaking
             \/ Ends(r, t, j) /\ ~ r.assembler.gate.speaking
             \/ IsCut(r, t, j) /\ r.assembler.gate.speaking
    BY <1>3, <1>5
  <2>2. /\ HoldsRun(CurrentChunk(j), fed', Len(fed'))
        /\ j.frame_count = Unshipped(a) + 1
        /\ j.gap_frames = IF a.active THEN a.gap_frames + GapBefore(a, f) ELSE 0
        /\ j.t_speech_start = IF a.active THEN a.t_speech_start ELSE t
    BY <1>1, <1>2, <2>1 DEF JoinsChunk
  <2>3. Len(j.buffer) <= max_chunk_frames
    <3>1. Len(j.buffer) = Limit(j.frame_count) /\ j.frame_count \in Nat
      BY <2>2 DEF HoldsRun, CurrentChunk, AssemblerSet
    <3> QED
      BY <3>1, LimitBounds
  <2>4. CASE StaysOpen(r, t, j) /\ r.assembler.gate.speaking
    <3>1. events' = events
      BY <1>1, <2>4 DEF StaysOpen
    <3> QED
      BY <1>1, <1>2, <1>3, <1>5, <2>2, <2>4, <3>1 DEF StaysOpen
  <2>5. ASSUME NEW reason \in {"hangover", "max_length"},
               r.out = <<ChunkEvent(j, reason, t)>>
        PROVE  \E e \in EventSet :
                 /\ events' = Append(events, e) /\ HoldsRun(e, fed', Len(fed'))
                 /\ e.frame_count = j.frame_count /\ e.dropped_frames = j.gap_frames
                 /\ e.reason = reason
    <3>1. PICK e \in EventSet :
            /\ e = ChunkEvent(j, reason, t) /\ e.reason = reason
            /\ HoldsRun(e, fed', Len(fed'))
            /\ e.frame_count = j.frame_count /\ e.dropped_frames = j.gap_frames
      BY <2>2, <2>3, EventFields
    <3>2. events' = Append(events, e)
      BY <1>1, <2>5, <3>1, AppendIsConcat
    <3> QED
      BY <3>1, <3>2
  <2>6. CASE Ends(r, t, j) /\ ~ r.assembler.gate.speaking
    <3>1. PICK e \in EventSet :
            /\ events' = Append(events, e) /\ HoldsRun(e, fed', Len(fed'))
            /\ e.frame_count = j.frame_count /\ e.dropped_frames = j.gap_frames
            /\ e.reason = "hangover"
      BY <2>5, <2>6 DEF Ends
    <3> QED
      BY <1>1, <1>2, <1>3, <1>5, <2>2, <2>6, <3>1 DEF Ends
  <2>7. CASE IsCut(r, t, j) /\ r.assembler.gate.speaking
    <3>1. PICK e \in EventSet :
            /\ events' = Append(events, e) /\ HoldsRun(e, fed', Len(fed'))
            /\ e.frame_count = j.frame_count /\ e.dropped_frames = j.gap_frames
            /\ e.reason = "max_length"
      BY <2>5, <2>7 DEF IsCut
    <3>2. Unshipped(assembler') = 0
      BY <1>1, <2>7 DEF IsCut, Unshipped
    <3> QED
      BY <1>1, <1>2, <1>3, <1>5, <2>2, <2>7, <3>1, <3>2 DEF IsCut
  <2> QED
    BY <2>1, <2>4, <2>6, <2>7
<1> QED
  BY <1>4, <1>5

\* So does the end of a call while a chunk is open.
LEMMA EmitsLast ==
  ASSUME StreamTypes, NEW t \in Nat, EndsCall(t)
  PROVE  /\ Sound(assembler', fed) /\ ~ assembler'.active
         /\ assembler'.gate = assembler.gate
         /\ IF assembler.active
              THEN \E e \in EventSet :
                     /\ events' = Append(events, e)
                     /\ HoldsRun(e, fed, Len(fed))
                     /\ e.frame_count = assembler.frame_count
                     /\ e.dropped_frames = assembler.gap_frames
                     /\ e.reason = "stream_end"
                     /\ Unshipped(assembler') = 0
              ELSE events' = events /\ assembler' = assembler
<1> DEFINE a == assembler
           r == Flush(assembler, t)
<1>1. /\ fed \in Seq(FrameSet) /\ Sound(a, fed) /\ a \in AssemblerSet
      /\ assembler' = r.assembler /\ events' = events \o r.out /\ events \in Seq(EventSet)
  BY DEF StreamTypes, EndsCall, Sound
<1>2. /\ Sound(r.assembler, fed) /\ ~ r.assembler.active /\ r.assembler.gate = a.gate
      /\ a.active => ShipsRest(a, r, t)
      /\ ~ a.active => r.out = <<>> /\ r.assembler = a
  <2>1. fed \in Seq(FrameSet) /\ Sound(assembler, fed)
    BY <1>1
  <2> QED
    BY <2>1, FlushOutcome
<1> HIDE DEF r
<1>3. CASE a.active
  <2>1. HoldsRun(CurrentChunk(a), fed, Len(fed)) /\ Len(a.buffer) <= max_chunk_frames
    BY <1>1, <1>3 DEF Sound
  <2>2. PICK e \in EventSet :
          /\ e = ChunkEvent(a, "stream_end", t) /\ e.reason = "stream_end"
          /\ HoldsRun(e, fed, Len(fed))
          /\ e.frame_count = a.frame_count /\ e.dropped_frames = a.gap_frames
    BY <1>1, <2>1, EventFields
  <2>3. events' = Append(events, e)
    BY <1>1, <1>2, <1>3, <2>2, AppendIsConcat DEF ShipsRest
  <2> QED
    BY <1>1, <1>2, <1>3, <2>2, <2>3 DEF ShipsRest
<1>4. CASE ~ a.active
  BY <1>1, <1>2, <1>4
<1> QED
  BY <1>3, <1>4

\* A new assembler has heard nothing.
LEMMA InitStream == Init => StreamTypes
<1> SUFFICES ASSUME Init PROVE StreamTypes
  OBVIOUS
<1>1. NewGate \in GateSet /\ Hanging(NewGate) /\ ~ NewGate.speaking
  BY VadAssumption DEF NewGate, GateSet, Hanging
<1>2. NewPreRoll \in PreRollSet /\ NewPreRoll.head = 0
  BY DEF NewPreRoll, PreRollSet
<1>3. /\ assembler \in AssemblerSet
      /\ assembler.gate = NewGate /\ assembler.pre_roll = NewPreRoll
      /\ ~ assembler.active /\ assembler.buffer = <<>>
  BY <1>1, <1>2 DEF Init, NewAssembler, AssemblerSet
<1>4. fed = <<>> /\ fed \in Seq(FrameSet) /\ events \in Seq(EventSet)
  BY DEF Init
<1>5. KeepsEnd(assembler.pre_roll, fed)
  BY <1>2, <1>3, <1>4, ClearedKeeps
<1>6. Sound(assembler, fed)
  BY <1>1, <1>3, <1>5, VadAssumption DEF Sound
<1>7. now = 1 /\ call = 1 /\ next_seq = 0 /\ call \in 1 .. MaxCalls
  BY StreamAssumption DEF Init
<1> QED
  BY <1>3, <1>4, <1>6, <1>7 DEF StreamTypes, BoundedLatency

LEMMA StreamTypesStep == StreamTypes /\ [Next]_vars => StreamTypes'
<1> SUFFICES ASSUME StreamTypes, [Next]_vars PROVE StreamTypes'
  OBVIOUS
<1>0. /\ fed \in Seq(FrameSet) /\ events \in Seq(EventSet) /\ Len(fed) \in Nat
      /\ now \in Nat /\ call \in 1 .. MaxCalls
  BY DEF StreamTypes
<1>1. CASE UNCHANGED vars
  BY <1>1 DEF vars, StreamTypes, Sound, KeepsEnd, HoldsRun, BoundedLatency
<1>2. CASE Next
  <2>1. PICK t \in Nat : t >= now /\ (EndsCall(t) \/ \E f \in FrameSet : TakesFrame(f, t))
    BY <1>2, NextKinds
  <2>2. CASE EndsCall(t)
    <3>1. Sound(assembler', fed') /\ BoundedLatency'
      BY <2>2, EmitsLast DEF EndsCall, BoundedLatency
    <3>2. events' \in Seq(EventSet)
      BY <1>0, <2>2, EmitsLast, AppendProperties
    <3> QED
      BY <1>0, <2>2, <3>1, <3>2 DEF EndsCall, StreamTypes
  <2>3. ASSUME NEW f \in FrameSet, TakesFrame(f, t)
        PROVE  StreamTypes'
    <3>1. /\ fed' \in Seq(FrameSet) /\ Len(fed') = Len(fed) + 1 /\ fed'[Len(fed) + 1] = f
          /\ \A i \in 1 .. Len(fed) : fed'[i] = fed[i]
          /\ Sound(assembler', fed')
      BY <2>3, Emits
    <3>2. \A i \in 1 .. Len(fed') : fed'[i].id = i
      <4>1. f.id = Len(fed) + 1 /\ \A i \in 1 .. Len(fed) : fed[i].id = i
        BY <2>3 DEF StreamTypes, TakesFrame
      <4>2. \A i \in 1 .. Len(fed') : i = Len(fed) + 1 \/ i \in 1 .. Len(fed)
        BY <1>0, <3>1
      <4> QED
        BY <3>1, <4>1, <4>2
    <3>3. events' \in Seq(EventSet) /\ BoundedLatency'
      <4>1. CASE ~ (assembler.active \/ Onset(assembler.gate, f.loud, t))
        <5>1. events' = events /\ ~ assembler'.active
          BY <2>3, <4>1, Emits
        <5> QED
          BY <1>0, <5>1 DEF BoundedLatency
      <4>2. CASE assembler.active \/ Onset(assembler.gate, f.loud, t)
        <5>1. PICK j \in AssemblerSet :
                \/ events' = events /\ assembler' = j /\ t - j.t_speech_start < max_chunk_ms
                \/ \E e \in EventSet :
                     /\ events' = Append(events, e)
                     /\ ~ assembler'.active \/ assembler'.t_speech_start = t
          BY <2>3, <4>2, Emits
        <5>2. events' \in Seq(EventSet)
          BY <1>0, <5>1, AppendProperties
        <5>3. now' = t
          BY <2>3 DEF TakesFrame
        <5>4. BoundedLatency'
          BY <5>1, <5>3 DEF BoundedLatency
        <5> QED
          BY <5>2, <5>4
      <4> QED
        BY <4>1, <4>2
    <3>4. now' \in Nat /\ call' \in 1 .. MaxCalls /\ next_seq' \in Nat
      BY <1>0, <2>3 DEF TakesFrame, FrameSet
    <3> QED
      BY <3>1, <3>2, <3>3, <3>4 DEF StreamTypes
  <2> QED
    BY <2>1, <2>2, <2>3
<1> QED
  BY <1>1, <1>2

LEMMA StreamInvariant == Spec => []StreamTypes
  BY InitStream, StreamTypesStep, PTL DEF Spec

\* The buffer never outgrows max_chunk_bytes, the quiet count never passes
\* silence_frames, and on_frame (vad.hpp:103) leaves a chunk open only if it is
\* younger than the cap or was opened by that frame, for every configuration and
\* whatever stalls and bursts.  Between frames a chunk may grow older than that.
THEOREM AssemblerBounded == Spec => []AssemblerInv
<1>1. StreamTypes => AssemblerInv
  <2> SUFFICES ASSUME StreamTypes PROVE AssemblerInv
    OBVIOUS
  <2>1. /\ assembler \in AssemblerSet /\ Len(assembler.buffer) <= max_chunk_frames
        /\ events \in Seq(EventSet)
    BY DEF StreamTypes, Sound
  <2>2. assembler.gate \in GateSet /\ assembler.buffer \in Seq(FrameSet)
    BY <2>1 DEF AssemblerSet
  <2>3. assembler.gate.loud_frames \in Nat /\ assembler.gate.quiet_frames \in 0 .. silence_frames
    BY <2>2 DEF GateSet
  <2>4. ASSUME NEW e \in Range(events)
        PROVE  /\ e.reason \in {"hangover", "max_length", "stream_end"}
               /\ e.byte_count <= max_chunk_frames /\ e.dropped_frames \in Nat
    <3>1. e \in EventSet
      BY <2>1 DEF Range
    <3> QED
      BY <3>1, VadAssumption DEF EventSet
  <2>5. call \in Nat
    BY StreamAssumption DEF StreamTypes
  <2> QED
    BY <2>1, <2>2, <2>3, <2>4, <2>5 DEF StreamTypes, AssemblerInv, TypeOK
<1> QED
  BY <1>1, StreamInvariant, PTL

-----------------------------------------------------------------------------
(* Where the chunks cut the stream.                                        *)

\* Event k ships the run that ends with frame ends[k] of stream s; the runs
\* follow each other, before the `rest' frames not shipped yet; a run closed at
\* the cap is resumed by the next one.
Cuts(ends, ev, rest, s) ==
  /\ ends \in Seq(Nat) /\ Len(ends) = Len(ev) /\ rest \in 0 .. Len(s)
  /\ \A k \in 1 .. Len(ev) : ends[k] + rest <= Len(s) /\ HoldsRun(ev[k], s, ends[k])
  /\ \A j, k \in 1 .. Len(ev) : j < k => ends[j] + ev[k].frame_count <= ends[k]
  /\ \A k \in 1 .. Len(ev) - 1 :
       ev[k].reason = "max_length" => ends[k] + ev[k + 1].frame_count = ends[k + 1]

\* After a forced close a chunk is open, and goes on with the next frame.
Resumes(ends, ev, open, rest, s) ==
  /\ Len(ev) > 0 /\ ev[Len(ev)].reason = "max_length"
       => open /\ ends[Len(ev)] + rest = Len(s)
  /\ \A k \in 1 .. Len(ev) : ev[k].reason = "max_length" => ev[k].frame_count > 0
  /\ open /\ rest = 0 => Len(ev) > 0 /\ ev[Len(ev)].reason = "max_length"

\* The pre-roll is full, or reaches back to the last frame shipped.
ReachesBack(ends, ev, rest, s) ==
  \/ rest = pre_roll_frames \/ rest = Len(s)
  \/ \E k \in 1 .. Len(ev) : ev[k].frame_count > 0 /\ ends[k] + rest = Len(s)

CutAt(ends, ev, open, rest, s) ==
  /\ Cuts(ends, ev, rest, s) /\ Resumes(ends, ev, open, rest, s)
  /\ open \/ ReachesBack(ends, ev, rest, s)

CutInv == \E ends : CutAt(ends, events, assembler.active, Unshipped(assembler), fed)

\* A frame that is not shipped at once.
LEMMA CutsGrow ==
  ASSUME NEW s \in Seq(FrameSet), NEW f \in FrameSet, NEW ev, Len(ev) \in Nat,
         NEW ends, NEW rest, Cuts(ends, ev, rest, s),
         NEW more \in Nat, more <= rest + 1
  PROVE  Cuts(ends, ev, more, Append(s, f))
<1> DEFINE s2 == Append(s, f)
<1>1. s2 \in Seq(FrameSet) /\ Len(s) \in Nat /\ Len(s2) = Len(s) + 1
  BY AppendProperties
<1>2. /\ ends \in Seq(Nat) /\ Len(ends) = Len(ev) /\ rest \in 0 .. Len(s)
      /\ \A k \in 1 .. Len(ev) : ends[k] + rest <= Len(s) /\ HoldsRun(ev[k], s, ends[k])
  BY DEF Cuts
<1>3. ASSUME NEW k \in 1 .. Len(ev)
      PROVE  ends[k] + more <= Len(s2) /\ HoldsRun(ev[k], s2, ends[k])
  <2>1. ends[k] \in Nat
    BY <1>2
  <2>2. ends[k] + rest <= Len(s) /\ HoldsRun(ev[k], s, ends[k])
    BY <1>2
  <2>3. ends[k] \in 0 .. Len(s) /\ ends[k] + more <= Len(s) + 1
    BY <1>1, <1>2, <2>1, <2>2
  <2>4. HoldsRun(ev[k], s2, ends[k])
    BY <2>2, <2>3, RunExtends
  <2> QED
    BY <1>1, <2>3, <2>4
<1>4. more \in 0 .. Len(s2)
  BY <1>1, <1>2
<1> HIDE DEF s2
<1>5. Cuts(ends, ev, more, s2)
  BY <1>2, <1>3, <1>4 DEF Cuts
<1> QED
  BY <1>5 DEF s2

\* An event that ships the rest.
LEMMA CutsShip ==
  ASSUME NEW s \in Seq(FrameSet), NEW C, NEW ev \in Seq(C), NEW ends, NEW e \in C,
         Cuts(ends, ev, e.frame_count, s), HoldsRun(e, s, Len(s)),
         Len(ev) > 0 /\ ev[Len(ev)].reason = "max_length"
           => ends[Len(ev)] + e.frame_count = Len(s)
  PROVE  Cuts(Append(ends, Len(s)), Append(ev, e), 0, s)
<1> DEFINE ends2 == Append(ends, Len(s))
           ev2 == Append(ev, e)
<1>1. PICK n \in Nat : n = Len(ev)
  OBVIOUS
<1>2. PICK z \in Nat : z = Len(s)
  OBVIOUS
<1>3. /\ ev2 \in Seq(C) /\ Len(ev2) = n + 1 /\ ev2[n + 1] = e
      /\ \A k \in 1 .. n : ev2[k] = ev[k]
  BY <1>1, AppendProperties
<1>4. /\ ends \in Seq(Nat) /\ Len(ends) = n
      /\ \A k \in 1 .. n : ends[k] + e.frame_count <= z /\ HoldsRun(ev[k], s, ends[k])
      /\ \A j, k \in 1 .. n : j < k => ends[j] + ev[k].frame_count <= ends[k]
      /\ \A k \in 1 .. n - 1 :
           ev[k].reason = "max_length" => ends[k] + ev[k + 1].frame_count = ends[k + 1]
  BY <1>1, <1>2 DEF Cuts
<1>5. /\ ends2 \in Seq(Nat) /\ Len(ends2) = n + 1 /\ ends2[n + 1] = z
      /\ \A k \in 1 .. n : ends2[k] = ends[k]
  BY <1>2, <1>4, AppendProperties
<1>6. e.frame_count \in Nat /\ \A k \in 1 .. n : ends[k] \in Nat
  <2>1. e.frame_count \in Nat
    BY DEF Cuts
  <2> QED
    BY <1>4, <2>1
<1>7. n > 0 /\ ev[n].reason = "max_length" => ends[n] + e.frame_count = z
  BY <1>1, <1>2
<1> HIDE DEF ends2, ev2
<1>8. ASSUME NEW k \in 1 .. n + 1
      PROVE  ends2[k] + 0 <= z /\ HoldsRun(ev2[k], s, ends2[k])
  <2>1. CASE k = n + 1
    BY <1>2, <1>3, <1>5, <2>1
  <2>2. CASE k \in 1 .. n
    <3>1. ends[k] <= z
      BY <1>4, <1>6, <2>2
    <3> QED
      BY <1>3, <1>4, <1>5, <1>6, <2>2, <3>1
  <2> QED
    BY <2>1, <2>2
<1>9. ASSUME NEW j \in 1 .. n + 1, NEW k \in 1 .. n + 1, j < k
      PROVE  ends2[j] + ev2[k].frame_count <= ends2[k]
  <2>1. j \in 1 .. n
    BY <1>9
  <2>2. CASE k = n + 1
    BY <1>3, <1>4, <1>5, <2>1, <2>2
  <2>3. CASE k \in 1 .. n
    BY <1>3, <1>4, <1>5, <1>9, <2>1, <2>3
  <2> QED
    BY <2>2, <2>3
<1>10. ASSUME NEW k \in 1 .. n, ev2[k].reason = "max_length"
       PROVE  ends2[k] + ev2[k + 1].frame_count = ends2[k + 1]
  <2>1. CASE k = n
    BY <1>3, <1>5, <1>7, <1>10, <2>1
  <2>2. CASE k \in 1 .. n - 1
    <3>1. k + 1 \in 1 .. n
      BY <2>2
    <3> QED
      BY <1>3, <1>4, <1>5, <1>10, <2>2, <3>1
  <2> QED
    BY <2>1, <2>2
<1>11. n + 1 - 1 = n /\ 0 \in 0 .. z
  OBVIOUS
<1>12. Cuts(ends2, ev2, 0, s)
  BY <1>2, <1>3, <1>5, <1>8, <1>9, <1>10, <1>11 DEF Cuts
<1> QED
  BY <1>12 DEF ends2, ev2

\* The next frame joins the rest, in a chunk that is open or opens on it.
LEMMA OpenCutGrows ==
  ASSUME NEW s \in Seq(FrameSet), NEW f \in FrameSet, NEW ev \in Seq(EventSet),
         NEW ends, NEW open, NEW rest, CutAt(ends, ev, open, rest, s)
  PROVE  CutAt(ends, ev, TRUE, rest + 1, Append(s, f))
<1> DEFINE s2 == Append(s, f)
<1>1. PICK n \in Nat : n = Len(ev)
  OBVIOUS
<1>2. Len(s) \in Nat /\ Len(s2) = Len(s) + 1
  BY AppendProperties
<1>3. /\ rest \in Nat /\ ends \in Seq(Nat) /\ Len(ends) = n
      /\ \A k \in 1 .. n : ends[k] \in Nat
  <2>1. rest \in Nat /\ ends \in Seq(Nat) /\ Len(ends) = n
    BY <1>1, <1>2 DEF CutAt, Cuts
  <2> QED
    BY <2>1
<1>4. Cuts(ends, ev, rest + 1, s2)
  BY <1>1, <1>3, CutsGrow DEF CutAt
<1> HIDE DEF s2
<1>5. n > 0 /\ ev[n].reason = "max_length" => ends[n] + rest = Len(s)
  BY <1>1 DEF CutAt, Resumes
<1>6. n > 0 => ends[n] \in Nat
  <2>1. n > 0 => n \in 1 .. n
    OBVIOUS
  <2> QED
    BY <1>3, <2>1
<1>7. ASSUME n > 0, ev[n].reason = "max_length"
      PROVE  ends[n] + (rest + 1) = Len(s2)
  <2>1. ends[n] + rest = Len(s) /\ ends[n] \in Nat
    BY <1>5, <1>6, <1>7
  <2>2. PICK x \in Nat, r \in Nat : x = ends[n] /\ r = rest
    BY <1>3, <2>1
  <2>3. x + (r + 1) = (x + r) + 1
    OBVIOUS
  <2> QED
    BY <1>2, <2>1, <2>2, <2>3
<1>8. rest + 1 # 0
  BY <1>3
<1>9. \A k \in 1 .. n : ev[k].reason = "max_length" => ev[k].frame_count > 0
  BY <1>1 DEF CutAt, Resumes
<1>10. Resumes(ends, ev, TRUE, rest + 1, s2)
  BY <1>1, <1>7, <1>8, <1>9 DEF Resumes
<1>11. CutAt(ends, ev, TRUE, rest + 1, s2)
  BY <1>4, <1>10 DEF CutAt
<1> QED
  BY <1>11 DEF s2

\* The next frame goes to the pre-roll.
LEMMA PreRollCutGrows ==
  ASSUME NEW s \in Seq(FrameSet), NEW f \in FrameSet, NEW ev \in Seq(EventSet),
         NEW ends, NEW rest, CutAt(ends, ev, FALSE, rest, s), rest <= pre_roll_frames,
         NEW more, more = IF rest < pre_roll_frames THEN rest + 1 ELSE rest
  PROVE  CutAt(ends, ev, FALSE, more, Append(s, f))
<1> DEFINE s2 == Append(s, f)
<1>1. PICK n \in Nat : n = Len(ev)
  OBVIOUS
<1>2. Len(s) \in Nat /\ Len(s2) = Len(s) + 1
  BY AppendProperties
<1>3. /\ rest \in Nat /\ ends \in Seq(Nat) /\ Len(ends) = n
      /\ \A k \in 1 .. n : ends[k] \in Nat
  <2>1. rest \in Nat /\ ends \in Seq(Nat) /\ Len(ends) = n
    BY <1>1, <1>2 DEF CutAt, Cuts
  <2> QED
    BY <2>1
<1>4. PICK m \in Nat : m = pre_roll_frames
  BY VadAssumption
<1>5. more \in Nat /\ more <= rest + 1 /\ (rest = m \/ more = rest + 1) /\ (rest = m => more = m)
  BY <1>3, <1>4
<1>6. Cuts(ends, ev, more, s2)
  BY <1>1, <1>3, <1>5, CutsGrow DEF CutAt
<1> HIDE DEF s2
<1>7. Resumes(ends, ev, FALSE, more, s2)
  BY DEF CutAt, Resumes
<1>8. ReachesBack(ends, ev, more, s2)
  <2>1. CASE rest = m
    BY <1>4, <1>5, <2>1 DEF ReachesBack
  <2>2. CASE more = rest + 1 /\ rest = Len(s)
    BY <1>2, <2>2 DEF ReachesBack
  <2>3. CASE more = rest + 1 /\ \E k \in 1 .. n : ev[k].frame_count > 0 /\ ends[k] + rest = Len(s)
    <3>1. PICK k \in 1 .. n : ev[k].frame_count > 0 /\ ends[k] + rest = Len(s)
      BY <2>3
    <3>2. ends[k] + more = Len(s2)
      BY <1>2, <1>3, <2>3, <3>1, SMTT(30)
    <3> QED
      BY <1>1, <3>1, <3>2 DEF ReachesBack
  <2>4. ReachesBack(ends, ev, rest, s)
    BY DEF CutAt
  <2> QED
    BY <1>1, <1>4, <1>5, <2>1, <2>2, <2>3, <2>4 DEF ReachesBack
<1>9. CutAt(ends, ev, FALSE, more, s2)
  BY <1>6, <1>7, <1>8 DEF CutAt
<1> QED
  BY <1>9 DEF s2

\* The chunk that holds the rest is closed: for good, or at the cap.
LEMMA CutShips ==
  ASSUME NEW s \in Seq(FrameSet), NEW ev \in Seq(EventSet), NEW e \in EventSet,
         NEW ends, CutAt(ends, ev, TRUE, e.frame_count, s), HoldsRun(e, s, Len(s)),
         NEW open \in BOOLEAN, open <=> e.reason = "max_length",
         open => e.frame_count > 0
  PROVE  CutAt(Append(ends, Len(s)), Append(ev, e), open, 0, s)
<1> DEFINE ends2 == Append(ends, Len(s))
           ev2 == Append(ev, e)
<1>1. PICK n \in Nat : n = Len(ev)
  OBVIOUS
<1>2. PICK z \in Nat : z = Len(s)
  OBVIOUS
<1>3. /\ Len(ev2) = n + 1 /\ ev2[n + 1] = e
      /\ \A k \in 1 .. n : ev2[k] = ev[k]
  BY <1>1, AppendProperties
<1>4. ends \in Seq(Nat) /\ Len(ends) = n
  BY <1>1 DEF CutAt, Cuts
<1>5. /\ ends2[n + 1] = z
      /\ \A k \in 1 .. n : ends2[k] = ends[k] /\ ends[k] \in Nat
  BY <1>2, <1>4, AppendProperties
<1>6. /\ n > 0 /\ ev[n].reason = "max_length" => ends[n] + e.frame_count = z
      /\ \A k \in 1 .. n : ev[k].reason = "max_length" => ev[k].frame_count > 0
      /\ e.frame_count = 0 => n > 0 /\ ev[n].reason = "max_length"
  BY <1>1, <1>2 DEF CutAt, Resumes
<1>7. Cuts(ends2, ev2, 0, s)
  BY <1>1, <1>2, <1>6, CutsShip DEF CutAt
<1> HIDE DEF ends2, ev2
<1>8. \A k \in 1 .. n + 1 : ev2[k].reason = "max_length" => ev2[k].frame_count > 0
  <2>1. \A k \in 1 .. n + 1 : k = n + 1 \/ k \in 1 .. n
    OBVIOUS
  <2> QED
    BY <1>3, <1>6, <2>1
<1>9. Resumes(ends2, ev2, open, 0, s)
  BY <1>2, <1>3, <1>5, <1>8 DEF Resumes
<1>10. ReachesBack(ends2, ev2, 0, s)
  <2>1. PICK c \in Nat : c = e.frame_count
    BY DEF EventSet
  <2>2. CASE c > 0
    <3>1. n + 1 \in 1 .. n + 1 /\ ends2[n + 1] + 0 = z
      BY <1>5
    <3> QED
      BY <1>2, <1>3, <2>1, <2>2, <3>1 DEF ReachesBack
  <2>3. CASE c = 0
    <3>1. n > 0 /\ ev[n].reason = "max_length" /\ ends[n] + 0 = z
      BY <1>6, <2>1, <2>3
    <3>2. n \in 1 .. n /\ n \in 1 .. n + 1
      BY <3>1
    <3>3. ev2[n].frame_count > 0 /\ ends2[n] + 0 = z
      BY <1>3, <1>5, <1>6, <3>1, <3>2
    <3> QED
      BY <1>2, <1>3, <3>2, <3>3 DEF ReachesBack
  <2> QED
    BY <2>1, <2>2, <2>3
<1>11. CutAt(ends2, ev2, open, 0, s)
  BY <1>7, <1>9, <1>10 DEF CutAt
<1> QED
  BY <1>11 DEF ends2, ev2

LEMMA InitCuts == Init => CutInv
<1> SUFFICES ASSUME Init PROVE CutInv
  OBVIOUS
<1>1. fed = <<>> /\ events = <<>> /\ ~ assembler.active /\ assembler.pre_roll.head = 0
  BY DEF Init, NewAssembler, NewPreRoll
<1>2. Unshipped(assembler) = 0
  BY <1>1, VadAssumption DEF Unshipped, PreRollSize
<1>3. /\ Cuts(<<>>, events, 0, fed) /\ Resumes(<<>>, events, assembler.active, 0, fed)
      /\ ReachesBack(<<>>, events, 0, fed)
  BY <1>1 DEF Cuts, Resumes, ReachesBack
<1> QED
  BY <1>2, <1>3 DEF CutInv, CutAt

LEMMA CutStep == StreamTypes /\ CutInv /\ [Next]_vars => CutInv'
<1> SUFFICES ASSUME StreamTypes, CutInv, [Next]_vars PROVE CutInv'
  OBVIOUS
<1>0. /\ fed \in Seq(FrameSet) /\ Len(fed) \in Nat /\ events \in Seq(EventSet)
      /\ assembler \in AssemblerSet
  BY DEF StreamTypes, Sound
<1>1. CASE UNCHANGED vars
  BY <1>1 DEF vars, CutInv, CutAt, Cuts, Resumes, ReachesBack, HoldsRun
<1>2. CASE Next
  <2>0. PICK ends : CutAt(ends, events, assembler.active, Unshipped(assembler), fed)
    BY DEF CutInv
  <2>1. PICK t \in Nat : EndsCall(t) \/ \E f \in FrameSet : TakesFrame(f, t)
    BY <1>2, NextKinds
  <2>2. CASE EndsCall(t)
    <3>1. CASE ~ assembler.active
      BY <2>0, <2>2, <3>1, EmitsLast DEF EndsCall, CutInv
    <3>2. CASE assembler.active
      <4>1. PICK e \in EventSet :
              /\ events' = Append(events, e) /\ HoldsRun(e, fed, Len(fed))
              /\ e.frame_count = Unshipped(assembler) /\ e.reason = "stream_end"
              /\ Unshipped(assembler') = 0 /\ assembler'.active = FALSE
        <5>1. assembler' \in AssemblerSet /\ ~ assembler'.active
          BY <2>2, EmitsLast DEF Sound
        <5>2. assembler'.active = FALSE
          BY <5>1 DEF AssemblerSet
        <5> QED
          BY <2>2, <3>2, <5>2, EmitsLast DEF Unshipped
      <4>2. assembler.active = TRUE
        BY <1>0, <3>2 DEF AssemblerSet
      <4>3. CutAt(Append(ends, Len(fed)), Append(events, e), FALSE, 0, fed)
        BY <1>0, <2>0, <4>1, <4>2, CutShips
      <4> QED
        BY <2>2, <4>1, <4>3 DEF EndsCall, CutInv
    <3> QED
      BY <3>1, <3>2
  <2>3. ASSUME NEW f \in FrameSet, TakesFrame(f, t)
        PROVE  CutInv'
    <3>1. fed' = Append(fed, f) /\ fed' \in Seq(FrameSet)
      BY <1>0, <2>3, AppendProperties DEF TakesFrame
    <3>2. assembler' \in AssemblerSet /\ assembler'.active \in BOOLEAN
      BY <2>3, Emits DEF Sound, AssemblerSet
    <3>3. CASE ~ (assembler.active \/ Onset(assembler.gate, f.loud, t))
      <4>1. /\ ~ assembler.active /\ ~ assembler'.active /\ events' = events
            /\ Unshipped(assembler') = IF Unshipped(assembler) < pre_roll_frames
                                         THEN Unshipped(assembler) + 1
                                         ELSE Unshipped(assembler)
        BY <2>3, <3>3, Emits
      <4>2. assembler.active = FALSE /\ assembler'.active = FALSE
        BY <1>0, <3>2, <4>1 DEF AssemblerSet
      <4>3. Unshipped(assembler) <= pre_roll_frames
        BY <1>0, <4>1, PreRollSizes, VadAssumption DEF Unshipped, AssemblerSet
      <4>4. CutAt(ends, events, FALSE, Unshipped(assembler'), Append(fed, f))
        BY <1>0, <2>0, <4>1, <4>2, <4>3, PreRollCutGrows
      <4> QED
        BY <3>1, <4>1, <4>2, <4>4 DEF CutInv
    <3>4. CASE assembler.active \/ Onset(assembler.gate, f.loud, t)
      <4>1. PICK j \in AssemblerSet :
              /\ j.frame_count = Unshipped(assembler) + 1
              /\ \/ events' = events /\ assembler' = j /\ j.active
                 \/ \E e \in EventSet :
                      /\ events' = Append(events, e)
                      /\ HoldsRun(e, fed', Len(fed')) /\ e.frame_count = j.frame_count
                      /\ Unshipped(assembler') = 0
                      /\ \/ e.reason = "hangover" /\ ~ assembler'.active
                         \/ e.reason = "max_length" /\ assembler'.active
        BY <2>3, <3>4, Emits
      <4>2. CutAt(ends, events, TRUE, j.frame_count, fed')
        BY <1>0, <2>0, <3>1, <4>1, OpenCutGrows
      <4>3. CASE events' = events /\ assembler' = j /\ j.active
        <5>1. assembler'.active = TRUE /\ Unshipped(assembler') = j.frame_count
          BY <3>2, <4>3 DEF Unshipped
        <5> QED
          BY <4>2, <4>3, <5>1 DEF CutInv
      <4>4. ASSUME NEW e \in EventSet,
                   events' = Append(events, e), HoldsRun(e, fed', Len(fed')),
                   e.frame_count = j.frame_count, Unshipped(assembler') = 0,
                   \/ e.reason = "hangover" /\ ~ assembler'.active
                   \/ e.reason = "max_length" /\ assembler'.active
            PROVE  CutInv'
        <5>1. PICK s \in Seq(FrameSet) : s = fed'
          BY <3>1
        <5>2. PICK open \in BOOLEAN : open = assembler'.active
          BY <3>2
        <5>3. (open <=> e.reason = "max_length") /\ e.frame_count > 0
          <6>1. Unshipped(assembler) \in Nat
            BY <2>0, <1>0 DEF CutAt, Cuts
          <6> QED
            BY <4>1, <4>4, <5>2, <6>1
        <5>4. CutAt(Append(ends, Len(s)), Append(events, e), open, 0, s)
          BY <1>0, <4>2, <4>4, <5>1, <5>3, CutShips
        <5> QED
          BY <4>4, <5>1, <5>2, <5>4 DEF CutInv
      <4> QED
        BY <4>1, <4>3, <4>4
    <3> QED
      BY <3>3, <3>4
  <2> QED
    BY <2>1, <2>2, <2>3
<1> QED
  BY <1>1, <1>2

LEMMA CutInvariant == Spec => []CutInv
<1>1. Init => CutInv
  BY InitCuts
<1>2. StreamTypes /\ CutInv /\ [Next]_vars => CutInv'
  BY CutStep
<1> QED
  BY <1>1, <1>2, StreamInvariant, PTL DEF Spec

\* What a run of the stream is as a chunk.
LEMMA RunIsChunk ==
  ASSUME NEW s \in Seq(FrameSet), \A i \in 1 .. Len(s) : s[i].id = i,
         NEW c, c.audio \in Seq(FrameSet), c.audio # <<>>,
         NEW end \in 0 .. Len(s), HoldsRun(c, s, end)
  PROVE  /\ c.frame_count \in 1 .. end
         /\ FirstId(c) = end - c.frame_count + 1 /\ LastId(c) = end
         /\ c.first_seq = s[FirstId(c)].seq /\ c.last_seq = s[LastId(c)].seq
         /\ c.audio = SubSeq(s, FirstId(c), FirstId(c) - 1 + Limit(c.frame_count))
<1>1. PICK n \in 0 .. end : n = c.frame_count
  BY DEF HoldsRun
<1>2. PICK z \in Nat : z = Len(s)
  OBVIOUS
<1>3. PICK l \in Nat : l = Limit(n) /\ l <= n
  BY <1>1, LimitBounds
<1>4. /\ Len(c.audio) = l
      /\ \A i \in 1 .. l : c.audio[i] = s[end - n + i]
      /\ n > 0 => c.first_seq = s[end - n + 1].seq /\ c.last_seq = s[end].seq
  BY <1>1, <1>3 DEF HoldsRun
<1>5. l > 0
  <2>1. ASSUME l = 0 PROVE FALSE
    BY <1>4, <2>1, EmptySeq
  <2> QED
    BY <1>3, <2>1
<1>6. n \in 1 .. end /\ end - n + 1 \in 1 .. z /\ 1 \in 1 .. l
  BY <1>1, <1>2, <1>3, <1>5
<1>7. FirstId(c) = end - n + 1
  BY <1>2, <1>4, <1>6 DEF FirstId
<1>8. LastId(c) = end
  BY <1>1, <1>2, <1>7 DEF LastId
<1>9. c.audio = SubSeq(s, end - n + 1, end - n + 1 - 1 + l)
  <2>1. PICK x \in Nat : x = end - n
    BY <1>1
  <2>2. x + l <= z
    BY <1>1, <1>2, <1>3, <2>1
  <2> DEFINE t == SubSeq(s, x + 1, x + l)
  <2>3. \A i \in x + 1 .. x + l : s[i] \in FrameSet
    BY <1>2, <2>2
  <2>4. /\ t \in Seq(FrameSet) /\ Len(t) = l
        /\ \A i \in 1 .. l : t[i] = s[x + i]
    <3>1. /\ t \in Seq(FrameSet)
          /\ Len(t) = IF x + 1 <= x + l THEN (x + l) - (x + 1) + 1 ELSE 0
          /\ \A i \in 1 .. (x + l) - (x + 1) + 1 : t[i] = s[x + 1 + i - 1]
      BY <2>3, SubSeqProperties
    <3>2. (x + l) - (x + 1) + 1 = l /\ x + 1 <= x + l /\ \A i \in 1 .. l : x + 1 + i - 1 = x + i
      BY <1>5
    <3> QED
      BY <3>1, <3>2
  <2> HIDE DEF t
  <2>5. \A i \in 1 .. l : c.audio[i] = t[i]
    BY <1>4, <2>1, <2>4
  <2>6. c.audio = t
    BY <1>4, <2>4, <2>5, SeqEqual
  <2>7. end - n + 1 = x + 1 /\ end - n + 1 - 1 + l = x + l
    BY <2>1
  <2> QED
    BY <2>6, <2>7 DEF t
<1>10. c.first_seq = s[FirstId(c)].seq /\ c.last_seq = s[LastId(c)].seq
  <2>1. n > 0
    BY <1>6
  <2> QED
    BY <1>4, <1>7, <1>8, <2>1
<1>11. c.audio = SubSeq(s, FirstId(c), FirstId(c) - 1 + Limit(c.frame_count))
  <2>1. Limit(c.frame_count) = l
    BY <1>1, <1>3
  <2>2. PICK x : x = end - n + 1
    OBVIOUS
  <2>3. c.audio = SubSeq(s, x, x - 1 + l) /\ FirstId(c) = x
    BY <1>7, <1>9, <2>2
  <2> QED
    BY <2>1, <2>3, Zenon
<1>12. c.frame_count \in 1 .. end /\ FirstId(c) = end - c.frame_count + 1
  BY <1>1, <1>6, <1>7
<1> QED
  BY <1>8, <1>10, <1>11, <1>12

ChunkSet == EventSet \cup {CurrentChunk(a) : a \in AssemblerSet}

\* The open chunk ends the stream.
LEMMA ChunksCut ==
  ASSUME StreamTypes, CutInv
  PROVE  /\ Chunks \in Seq(ChunkSet)
         /\ \E ends, rest : Cuts(ends, Chunks, rest, fed)
<1>1. /\ fed \in Seq(FrameSet) /\ events \in Seq(EventSet) /\ assembler \in AssemblerSet
      /\ assembler.active => HoldsRun(CurrentChunk(assembler), fed, Len(fed))
  BY DEF StreamTypes, Sound
<1>2. PICK ends : CutAt(ends, events, assembler.active, Unshipped(assembler), fed)
  BY DEF CutInv
<1>3. Chunks = IF assembler.active THEN Append(events, CurrentChunk(assembler)) ELSE events
  BY DEF Chunks, CurrentChunk
<1>4. events \in Seq(ChunkSet) /\ CurrentChunk(assembler) \in ChunkSet
  BY <1>1 DEF ChunkSet
<1> DEFINE c == CurrentChunk(assembler)
<1>5. CASE assembler.active
  <2>1. c.frame_count = Unshipped(assembler)
    BY <1>5 DEF CurrentChunk, Unshipped
  <2> HIDE DEF c
  <2>2. /\ Cuts(ends, events, c.frame_count, fed)
        /\ Len(events) > 0 /\ events[Len(events)].reason = "max_length"
             => ends[Len(events)] + c.frame_count = Len(fed)
    BY <1>2, <2>1 DEF CutAt, Resumes
  <2>3. HoldsRun(c, fed, Len(fed)) /\ c \in ChunkSet
    BY <1>1, <1>4, <1>5 DEF c
  <2>4. Cuts(Append(ends, Len(fed)), Append(events, c), 0, fed)
    BY <1>1, <1>4, <2>2, <2>3, CutsShip
  <2>5. Append(events, c) \in Seq(ChunkSet)
    BY <1>4, <2>3, AppendProperties
  <2> QED
    BY <1>3, <1>5, <2>4, <2>5 DEF c
<1>6. CASE ~ assembler.active
  BY <1>2, <1>3, <1>4, <1>6 DEF CutAt
<1> QED
  BY <1>5, <1>6

\* The chunks cut the stream of frames in the right places, whatever the gate,
\* the cap, the pre-roll and the ceiling of the buffer: each is a run of it that
\* its counters describe, none ships a frame of another, and a forced close
\* leaves nothing out (vad.hpp:118-153, test_chunker.cpp:127).
THEOREM ChunksAreCut == Spec => []ChunksCutStream
<1>1. ASSUME StreamTypes, CutInv PROVE ChunksCutStream
  <2>1. PICK cs \in Seq(ChunkSet) : cs = Chunks
    BY <1>1, ChunksCut
  <2>2. PICK s \in Seq(FrameSet) : s = fed /\ \A i \in 1 .. Len(s) : s[i].id = i
    BY <1>1 DEF StreamTypes
  <2>3. PICK ends, rest : Cuts(ends, cs, rest, s)
    BY <1>1, <2>1, <2>2, ChunksCut
  <2>4. PICK n \in Nat : n = Len(cs)
    OBVIOUS
  <2>5. ASSUME NEW k \in 1 .. n, cs[k].audio # <<>>
        PROVE  /\ ends[k] \in 1 .. Len(s) /\ cs[k].frame_count \in 1 .. ends[k]
               /\ FirstId(cs[k]) = ends[k] - cs[k].frame_count + 1 /\ LastId(cs[k]) = ends[k]
               /\ cs[k].first_seq = s[FirstId(cs[k])].seq
               /\ cs[k].last_seq = s[LastId(cs[k])].seq
               /\ cs[k].audio = SubSeq(s, FirstId(cs[k]),
                                       FirstId(cs[k]) - 1 + Limit(cs[k].frame_count))
    <3>1. cs[k] \in ChunkSet
      BY <2>4
    <3>2. cs[k].audio \in Seq(FrameSet)
      BY <3>1, SMTT(30) DEF ChunkSet, EventSet, CurrentChunk, AssemblerSet
    <3>3. ends[k] \in Nat /\ ends[k] + rest <= Len(s) /\ rest \in Nat /\ HoldsRun(cs[k], s, ends[k])
      <4>1. ends \in Seq(Nat) /\ Len(ends) = n
        BY <2>3, <2>4 DEF Cuts
      <4>2. ends[k] \in Nat
        BY <4>1
      <4> QED
        BY <2>3, <2>4, <4>2 DEF Cuts
    <3>4. ends[k] \in 0 .. Len(s)
      BY <3>3
    <3>5. /\ cs[k].frame_count \in 1 .. ends[k]
          /\ FirstId(cs[k]) = ends[k] - cs[k].frame_count + 1 /\ LastId(cs[k]) = ends[k]
          /\ cs[k].first_seq = s[FirstId(cs[k])].seq
          /\ cs[k].last_seq = s[LastId(cs[k])].seq
          /\ cs[k].audio = SubSeq(s, FirstId(cs[k]),
                                  FirstId(cs[k]) - 1 + Limit(cs[k].frame_count))
      <4>1. PICK c : c = cs[k]
        OBVIOUS
      <4>2. PICK end \in 0 .. Len(s) : end = ends[k]
        BY <3>4
      <4>3. c.audio \in Seq(FrameSet) /\ c.audio # <<>> /\ HoldsRun(c, s, end)
        BY <2>5, <3>2, <3>3, <4>1, <4>2
      <4>4. /\ c.frame_count \in 1 .. end
            /\ FirstId(c) = end - c.frame_count + 1 /\ LastId(c) = end
            /\ c.first_seq = s[FirstId(c)].seq /\ c.last_seq = s[LastId(c)].seq
            /\ c.audio = SubSeq(s, FirstId(c), FirstId(c) - 1 + Limit(c.frame_count))
        <5>1. \A i \in 1 .. Len(s) : s[i].id = i
          BY <2>2
        <5> HIDE <2>2
        <5> QED
          BY <4>3, <5>1, RunIsChunk
      <4> QED
        BY <4>1, <4>2, <4>4
    <3>6. ends[k] \in 1 .. Len(s)
      BY <3>4, <3>5
    <3> QED
      BY <3>5, <3>6
  <2>6. ChunksAreRuns
    <3>1. ASSUME NEW k \in 1 .. n, cs[k].audio # <<>>
          PROVE  LET c == cs[k]
                 IN  /\ c.first_seq = fed[FirstId(c)].seq
                     /\ c.last_seq = fed[LastId(c)].seq
                     /\ c.audio = SubSeq(fed, FirstId(c),
                                         FirstId(c) - 1 + (IF c.frame_count < max_chunk_frames
                                                             THEN c.frame_count
                                                             ELSE max_chunk_frames))
      BY <2>2, <2>5, <3>1 DEF Limit
    <3>2. \A c \in Range(Chunks) : \E k \in 1 .. n : c = cs[k]
      BY <2>1, <2>4 DEF Range
    <3> QED
      BY <3>1, <3>2 DEF ChunksAreRuns
  <2>7. ChunksInOrder
    <3>1. ASSUME NEW i \in 1 .. n, NEW j \in 1 .. n, i < j,
                 cs[i].audio # <<>>, cs[j].audio # <<>>
          PROVE  LastId(cs[i]) < FirstId(cs[j])
      <4>1. ends[i] + cs[j].frame_count <= ends[j]
        BY <2>3, <2>4, <3>1 DEF Cuts
      <4>2. /\ LastId(cs[i]) = ends[i] /\ FirstId(cs[j]) = ends[j] - cs[j].frame_count + 1
            /\ ends[i] \in Nat /\ ends[j] \in Nat /\ cs[j].frame_count \in Nat
        BY <2>5, <3>1
      <4> QED
        BY <4>1, <4>2
    <3> QED
      BY <2>1, <2>4, <3>1 DEF ChunksInOrder
  <2>8. MaxLengthGapless
    <3>1. ASSUME NEW i \in 1 .. n - 1, cs[i].reason = "max_length",
                 cs[i].audio # <<>>, cs[i + 1].audio # <<>>
          PROVE  FirstId(cs[i + 1]) = LastId(cs[i]) + 1
      <4>1. i \in 1 .. n /\ i + 1 \in 1 .. n
        OBVIOUS
      <4>2. ends[i] + cs[i + 1].frame_count = ends[i + 1]
        BY <2>3, <2>4, <3>1 DEF Cuts
      <4>3. /\ LastId(cs[i]) = ends[i]
            /\ FirstId(cs[i + 1]) = ends[i + 1] - cs[i + 1].frame_count + 1
            /\ ends[i] \in Nat /\ ends[i + 1] \in Nat /\ cs[i + 1].frame_count \in Nat
        BY <2>5, <3>1, <4>1
      <4> QED
        BY <4>2, <4>3
    <3> QED
      BY <2>1, <2>4, <3>1 DEF MaxLengthGapless
  <2> QED
    BY <2>6, <2>7, <2>8 DEF ChunksCutStream
<1> QED
  BY <1>1, StreamInvariant, CutInvariant, PTL

\* The chunk that an onset opens is the newest run of the stream.
LEMMA OnsetChunk ==
  ASSUME StreamTypes, [Next]_vars, ~ assembler.active, Len(Chunks') > Len(Chunks)
  PROVE  \E c :
           /\ c = Chunks'[Len(Chunks) + 1] /\ c.audio \in Seq(FrameSet)
           /\ HoldsRun(c, fed', Len(fed')) /\ c.frame_count = Unshipped(assembler) + 1
           /\ Len(fed') = Len(fed) + 1
<1>0. /\ fed \in Seq(FrameSet) /\ events \in Seq(EventSet) /\ Len(events) \in Nat
  BY DEF StreamTypes
<1>1. Chunks = events
  BY DEF Chunks
<1>2. Chunks' = IF assembler'.active THEN Append(events', CurrentChunk(assembler')) ELSE events'
  BY DEF Chunks, CurrentChunk
<1>3. Chunks' # Chunks
  BY <1>0, <1>1
<1>4. PICK t \in Nat, f \in FrameSet : TakesFrame(f, t)
  <2>1. CASE UNCHANGED vars
    BY <1>1, <1>2, <1>3, <2>1 DEF vars
  <2>2. ASSUME NEW t \in Nat, EndsCall(t) PROVE FALSE
    <3>1. events' = events /\ assembler' = assembler
      BY <2>2, EmitsLast
    <3> QED
      BY <1>1, <1>2, <1>3, <3>1
  <2>3. CASE Next
    BY <2>2, <2>3, NextKinds
  <2> QED
    BY <2>1, <2>3
<1>5. Len(fed') = Len(fed) + 1
  BY <1>4, Emits
<1>6. Onset(assembler.gate, f.loud, t)
  <2>1. ASSUME ~ Onset(assembler.gate, f.loud, t) PROVE FALSE
    <3>1. ~ assembler'.active /\ events' = events
      BY <1>4, <2>1, Emits
    <3> QED
      BY <1>1, <1>2, <1>3, <3>1
  <2> QED
    BY <2>1
<1>7. PICK j \in AssemblerSet :
        /\ HoldsRun(CurrentChunk(j), fed', Len(fed'))
        /\ j.frame_count = Unshipped(assembler) + 1
        /\ \/ events' = events /\ assembler' = j /\ j.active
           \/ \E e \in EventSet :
                /\ events' = Append(events, e)
                /\ HoldsRun(e, fed', Len(fed')) /\ e.frame_count = j.frame_count
  BY <1>4, <1>6, Emits
<1>8. CASE events' = events /\ assembler' = j /\ j.active
  <2>1. Chunks' = Append(events, CurrentChunk(j))
    BY <1>2, <1>8
  <2>2. Chunks'[Len(events) + 1] = CurrentChunk(j)
    BY <1>0, <2>1, AppendProperties
  <2>3. CurrentChunk(j).audio \in Seq(FrameSet)
    BY DEF CurrentChunk, AssemblerSet
  <2>4. CurrentChunk(j).frame_count = j.frame_count
    BY DEF CurrentChunk
  <2> QED
    BY <1>1, <1>5, <1>7, <2>2, <2>3, <2>4
<1>9. ASSUME NEW e \in EventSet, events' = Append(events, e),
             HoldsRun(e, fed', Len(fed')), e.frame_count = j.frame_count
      PROVE  /\ Chunks'[Len(events) + 1] = e /\ e.audio \in Seq(FrameSet)
             /\ HoldsRun(e, fed', Len(fed')) /\ e.frame_count = Unshipped(assembler) + 1
  <2>1. events' \in Seq(EventSet) /\ Len(events') = Len(events) + 1 /\ events'[Len(events) + 1] = e
    BY <1>0, <1>9, AppendProperties
  <2>2. CASE assembler'.active
    <3> DEFINE c == CurrentChunk(assembler')
    <3> HIDE DEF c
    <3>1. Chunks' = Append(events', c)
      BY <1>2, <2>2 DEF c
    <3>2. Append(events', c)[Len(events) + 1] = events'[Len(events) + 1]
      <4>1. PICK ev \in Seq(EventSet) : ev = events'
        BY <2>1
      <4>2. PICK C : C = EventSet \cup {c}
        OBVIOUS
      <4>3. ev \in Seq(C) /\ c \in C
        BY <4>1, <4>2
      <4>4. \A k \in 1 .. Len(ev) : Append(ev, c)[k] = ev[k]
        BY <4>3, AppendProperties
      <4>5. Len(events) + 1 \in 1 .. Len(ev)
        BY <1>0, <2>1, <4>1
      <4> QED
        BY <4>1, <4>4, <4>5
    <3> QED
      BY <1>7, <1>9, <2>1, <3>1, <3>2 DEF EventSet
  <2>3. CASE ~ assembler'.active
    BY <1>2, <1>7, <1>9, <2>1, <2>3 DEF EventSet
  <2> QED
    BY <2>2, <2>3
<1> QED
  BY <1>1, <1>5, <1>7, <1>8, <1>9

\* A chunk begins with the frames before its onset that no chunk has shipped,
\* as far back as the pre-roll reaches and no further, and with no other.
THEOREM PreRollIsExact == Spec => PreRollExact
<1>1. ASSUME StreamTypes, CutInv, [Next]_vars, ~ assembler.active,
             Len(Chunks') > Len(Chunks), max_chunk_frames > 0
      PROVE  LET opened  == Chunks'[Len(Chunks) + 1]
                 shipped == {LastId(c) : c \in {e \in Range(events) : e.audio # <<>>}}
                 wanted  == Len(fed') - pre_roll_frames
             IN  \A id \in 1 .. Len(fed') :
                   id >= FirstId(opened)
                     <=> id >= wanted /\ \A end \in shipped : id > end
  <2> DEFINE shipped == {LastId(c) : c \in {e \in Range(events) : e.audio # <<>>}}
  <2>1. PICK s \in Seq(FrameSet) : s = fed /\ \A i \in 1 .. Len(s) : s[i].id = i
    BY <1>1 DEF StreamTypes
  <2>2. PICK ev \in Seq(EventSet) : ev = events
    BY <1>1 DEF StreamTypes
  <2>3. PICK n \in Nat, z \in Nat, m \in Nat :
          n = Len(ev) /\ z = Len(s) /\ m = pre_roll_frames
    BY VadAssumption
  <2>4. PICK rest : rest = Unshipped(assembler)
    OBVIOUS
  <2>5. PICK ends : /\ Cuts(ends, ev, rest, s)
                    /\ ReachesBack(ends, ev, rest, s)
    BY <1>1, <2>1, <2>2, <2>4 DEF CutInv, CutAt
  <2>6. /\ rest \in 0 .. z /\ ends \in Seq(Nat) /\ Len(ends) = n
        /\ \A k \in 1 .. n : ends[k] + rest <= z /\ HoldsRun(ev[k], s, ends[k])
    BY <2>3, <2>5 DEF Cuts
  <2>7. rest <= m
    BY <1>1, <2>3, <2>4, PreRollSizes DEF Unshipped, StreamTypes, Sound, AssemblerSet
  <2>8. PICK c : /\ c = Chunks'[Len(Chunks) + 1] /\ c.audio \in Seq(FrameSet)
                 /\ HoldsRun(c, fed', Len(fed')) /\ c.frame_count = rest + 1
                 /\ Len(fed') = z + 1
    BY <1>1, <2>1, <2>3, <2>4, OnsetChunk
  <2>9. FirstId(c) = z + 1 - rest
    <3>1. PICK s2 \in Seq(FrameSet) : s2 = fed' /\ \A i \in 1 .. Len(s2) : s2[i].id = i
      BY <1>1, StreamTypesStep DEF StreamTypes
    <3>2. Limit(rest + 1) > 0
      <4>1. PICK cap \in Nat : cap = max_chunk_frames
        BY VadAssumption
      <4> QED
        BY <1>1, <2>6, <4>1 DEF Limit
    <3>3. Len(c.audio) = Limit(rest + 1)
      BY <2>8 DEF HoldsRun
    <3>4. c.audio # <<>>
      BY <3>2, <3>3
    <3>5. z + 1 \in 0 .. Len(s2) /\ HoldsRun(c, s2, z + 1)
      BY <2>8, <3>1
    <3>6. \A i \in 1 .. Len(s2) : s2[i].id = i
      BY <3>1
    <3>7. FirstId(c) = z + 1 - (rest + 1) + 1
      <4>1. c.audio \in Seq(FrameSet)
        BY <2>8
      <4>2. PICK end \in 0 .. Len(s2) : end = z + 1
        BY <3>5
      <4>3. HoldsRun(c, s2, end)
        BY <3>5, <4>2
      <4>4. FirstId(c) = end - c.frame_count + 1
        BY <3>4, <3>6, <4>1, <4>3, RunIsChunk
      <4>5. c.frame_count = rest + 1
        BY <2>8
      <4> QED
        BY <2>6, <4>2, <4>4, <4>5
    <3> QED
      BY <2>6, <3>7
  <2>10. ASSUME NEW k \in 1 .. n
         PROVE  /\ ends[k] \in Nat
                /\ ev[k].audio # <<>> <=> ev[k].frame_count > 0
                /\ ev[k].audio # <<>> => LastId(ev[k]) = ends[k]
    <3>1. ends[k] \in Nat
      BY <2>6
    <3>2. ends[k] \in 0 .. z
      BY <2>6, <3>1
    <3>3. PICK e \in EventSet, end \in 0 .. z : e = ev[k] /\ end = ends[k]
      BY <2>3, <3>2
    <3>4. e.audio \in Seq(FrameSet) /\ HoldsRun(e, s, end) /\ e.frame_count \in Nat
      BY <2>6, <3>3 DEF EventSet
    <3>5. e.audio # <<>> => LastId(e) = end
      <4>1. \A i \in 1 .. Len(s) : s[i].id = i
        BY <2>1
      <4> QED
        BY <2>3, <3>4, <4>1, RunIsChunk
    <3>6. e.frame_count > 0 <=> Limit(e.frame_count) > 0
      BY <1>1, <3>4, VadAssumption DEF Limit
    <3>7. Len(e.audio) = Limit(e.frame_count)
      BY <3>4 DEF HoldsRun
    <3>8. e.audio # <<>> <=> e.frame_count > 0
      <4>1. Limit(e.frame_count) \in Nat
        <5>1. Limit(e.frame_count) \in 0 .. e.frame_count
          BY <3>4, LimitBounds
        <5> QED
          BY <5>1
      <4>2. Len(e.audio) = 0 <=> e.audio = <<>>
        BY <3>4, EmptySeq
      <4> QED
        BY <3>6, <3>7, <4>1, <4>2
    <3> QED
      BY <3>1, <3>3, <3>5, <3>8
  <2>11. \A end : end \in shipped <=> \E k \in 1 .. n : ev[k].frame_count > 0 /\ end = ends[k]
    <3>1. \A e : e \in Range(events) <=> \E k \in 1 .. n : e = ev[k]
      BY <2>2, <2>3 DEF Range
    <3> QED
      BY <2>10, <3>1
  <2> HIDE DEF shipped
  <2>12. ASSUME NEW id \in 1 .. z + 1
         PROVE  id >= z + 1 - rest <=> id >= z + 1 - m /\ \A end \in shipped : id > end
    <3>1. ASSUME id >= z + 1 - rest, NEW end \in shipped PROVE id > end
      <4>1. PICK k \in 1 .. n : end = ends[k]
        BY <2>11
      <4>2. end \in Nat /\ end + rest <= z
        BY <2>6, <2>10, <4>1
      <4> QED
        BY <2>6, <3>1, <4>2
    <3>2. id >= z + 1 - rest => id >= z + 1 - m
      BY <2>6, <2>7
    <3>3. ASSUME id >= z + 1 - m, \A end \in shipped : id > end
          PROVE  id >= z + 1 - rest
      <4>1. CASE rest = m
        BY <3>3, <4>1
      <4>2. CASE rest = z
        BY <4>2
      <4>3. ASSUME NEW k \in 1 .. n, ev[k].frame_count > 0, ends[k] + rest = z
            PROVE  id >= z + 1 - rest
        <5>1. id > ends[k] /\ ends[k] \in Nat
          BY <2>10, <2>11, <3>3, <4>3
        <5> QED
          BY <2>6, <4>3, <5>1
      <4> QED
        BY <2>3, <2>5, <4>1, <4>2, <4>3 DEF ReachesBack
    <3> QED
      BY <3>1, <3>2, <3>3
  <2> QED
    BY <2>3, <2>8, <2>9, <2>12 DEF shipped
<1>2. StreamTypes /\ CutInv /\ [Next]_vars
        => [~ assembler.active /\ Len(Chunks') > Len(Chunks) /\ max_chunk_frames > 0 =>
             LET opened  == Chunks'[Len(Chunks) + 1]
                 shipped == {LastId(c) : c \in {e \in Range(events) : e.audio # <<>>}}
                 wanted  == Len(fed') - pre_roll_frames
             IN  \A id \in 1 .. Len(fed') :
                   id >= FirstId(opened)
                     <=> id >= wanted /\ \A end \in shipped : id > end]_vars
  BY <1>1
<1> QED
  BY <1>2, StreamInvariant, CutInvariant, PTL DEF Spec, PreRollExact

-----------------------------------------------------------------------------
(* What the callers see.                                                   *)

View(a) == [open |-> a.active, held |-> IF a.active THEN Unshipped(a) ELSE 0,
            kept |-> IF a.active THEN 0 ELSE Unshipped(a)]

Shipped(ev) == [i \in 1 .. Len(ev) |-> ev[i].frame_count]

\* The refinement mapping, for an assembler that was fed s.
LEMMA Views ==
  ASSUME NEW s, NEW a, Sound(a, s)
  PROVE  /\ [open |-> a.active, held |-> IF a.active THEN a.frame_count ELSE 0,
             kept |-> Len(PreRollFrames(a.pre_roll))] = View(a)
         /\ Unshipped(a) \in Nat /\ a.active \in BOOLEAN
<1>1. a.pre_roll \in PreRollSet /\ a.frame_count \in Nat /\ a.active \in BOOLEAN
  BY DEF Sound, AssemblerSet
<1>2. /\ Len(PreRollFrames(a.pre_roll)) = PreRollSize(a.pre_roll)
      /\ PreRollSize(a.pre_roll) \in Nat
  BY <1>1, PreRollSizes, VadAssumption
<1>3. CASE a.active
  <2>1. PreRollSize(a.pre_roll) = 0
    BY <1>3, VadAssumption DEF Sound, PreRollSize
  <2> QED
    BY <1>1, <1>2, <1>3, <2>1 DEF View, Unshipped
<1>4. CASE ~ a.active
  BY <1>1, <1>2, <1>4 DEF View, Unshipped
<1> QED
  BY <1>3, <1>4

LEMMA ShippedType ==
  ASSUME NEW ev \in Seq(EventSet)
  PROVE  Shipped(ev) \in Seq(Nat) /\ Shipped(ev) \o <<>> = Shipped(ev)
<1>1. \A x \in EventSet : x.frame_count \in Nat
  BY DEF EventSet
<1>2. Shipped(ev) \in Seq(Nat)
  BY <1>1 DEF Shipped
<1> QED
  BY <1>2, ConcatEmptySeq

LEMMA ShippedMore ==
  ASSUME NEW ev \in Seq(EventSet), NEW e \in EventSet
  PROVE  Shipped(Append(ev, e)) = Shipped(ev) \o <<e.frame_count>>
<1>1. \A x \in EventSet : x.frame_count \in Nat
  BY DEF EventSet
<1>2. PICK n \in Nat : n = Len(ev)
  OBVIOUS
<1>3. /\ Append(ev, e) \in Seq(EventSet) /\ Len(Append(ev, e)) = n + 1
      /\ Append(ev, e)[n + 1] = e /\ \A i \in 1 .. n : Append(ev, e)[i] = ev[i]
  BY <1>2, AppendProperties
<1> DEFINE a == Shipped(ev)
           b == Shipped(Append(ev, e))
<1>4. /\ a \in Seq(Nat) /\ Len(a) = n /\ \A i \in 1 .. n : a[i] = ev[i].frame_count
  BY <1>1, <1>2 DEF Shipped
<1>5. /\ b \in Seq(Nat) /\ Len(b) = n + 1
      /\ \A i \in 1 .. n + 1 : b[i] = Append(ev, e)[i].frame_count
  BY <1>1, <1>3 DEF Shipped
<1> HIDE DEF a, b
<1>6. /\ Append(a, e.frame_count) \in Seq(Nat) /\ Len(Append(a, e.frame_count)) = n + 1
      /\ Append(a, e.frame_count)[n + 1] = e.frame_count
      /\ \A i \in 1 .. n : Append(a, e.frame_count)[i] = a[i]
  BY <1>1, <1>4, AppendProperties
<1>7. \A i \in 1 .. n + 1 : i = n + 1 \/ i \in 1 .. n
  OBVIOUS
<1>8. \A i \in 1 .. n + 1 : b[i] = Append(a, e.frame_count)[i]
  BY <1>3, <1>4, <1>5, <1>6, <1>7
<1>9. b = Append(a, e.frame_count)
  BY <1>5, <1>6, <1>8, SeqEqual
<1> QED
  BY <1>1, <1>4, <1>9, AppendIsConcat DEF a, b

\* A step of the assembler, as the callers see it.
Moves(step) == View(assembler') = step.chunker /\ Shipped(events') = Shipped(events) \o step.out

LEMMA FrameMoves ==
  ASSUME StreamTypes, NEW t \in Nat, NEW f \in FrameSet, TakesFrame(f, t)
  PROVE  \E step \in Counts!FrameSteps(View(assembler)) : Moves(step)
<1>0. /\ Sound(assembler, fed) /\ events \in Seq(EventSet)
      /\ Unshipped(assembler) \in Nat /\ assembler.active \in BOOLEAN
  BY Views DEF StreamTypes
<1>1. Unshipped(assembler') \in Nat /\ assembler'.active \in BOOLEAN
  <2>1. Sound(assembler', fed')
    BY Emits
  <2> QED
    BY <2>1, Views
<1> DEFINE c == View(assembler)
           n == Unshipped(assembler) + 1
           kept == IF c.kept < pre_roll_frames THEN c.kept + 1 ELSE c.kept
<1>2. /\ c.open = assembler.active /\ c.held + c.kept + 1 = n
      /\ ~ assembler.active => c.kept = Unshipped(assembler)
  BY <1>0 DEF View
<1>3. /\ Counts!Step(TRUE, n, 0, <<>>) \in Counts!FrameSteps(c)
      /\ Counts!Step(TRUE, 0, 0, <<n>>) \in Counts!FrameSteps(c)
      /\ Counts!Step(FALSE, 0, 0, <<n>>) \in Counts!FrameSteps(c)
      /\ ~ c.open => Counts!Step(FALSE, 0, kept, <<>>) \in Counts!FrameSteps(c)
  BY <1>2 DEF Counts!FrameSteps
<1> HIDE DEF c
<1>4. Shipped(events) \o <<>> = Shipped(events)
  BY <1>0, ShippedType
<1>5. CASE ~ (assembler.active \/ Onset(assembler.gate, f.loud, t))
  <2>1. /\ ~ assembler.active /\ ~ assembler'.active /\ events' = events
        /\ Unshipped(assembler') = IF Unshipped(assembler) < pre_roll_frames
                                     THEN Unshipped(assembler) + 1
                                     ELSE Unshipped(assembler)
    BY <1>5, Emits
  <2>2. View(assembler') = [open |-> FALSE, held |-> 0, kept |-> kept]
    BY <1>1, <1>2, <2>1 DEF View
  <2>3. Moves(Counts!Step(FALSE, 0, kept, <<>>))
    BY <1>4, <2>1, <2>2 DEF Moves, Counts!Step
  <2> QED
    BY <1>2, <1>3, <2>1, <2>3 DEF c
<1>6. CASE assembler.active \/ Onset(assembler.gate, f.loud, t)
  <2>1. PICK j \in AssemblerSet :
          /\ j.frame_count = Unshipped(assembler) + 1
          /\ \/ events' = events /\ assembler' = j /\ j.active
             \/ \E e \in EventSet :
                  /\ events' = Append(events, e) /\ e.frame_count = j.frame_count
                  /\ Unshipped(assembler') = 0
    BY <1>6, Emits
  <2>2. CASE events' = events /\ assembler' = j /\ j.active
    <3>1. View(assembler') = [open |-> TRUE, held |-> n, kept |-> 0]
      BY <1>1, <2>1, <2>2 DEF View, Unshipped
    <3>2. Moves(Counts!Step(TRUE, n, 0, <<>>))
      BY <1>4, <2>2, <3>1 DEF Moves, Counts!Step
    <3> QED
      BY <1>3, <3>2 DEF c
  <2>3. ASSUME NEW e \in EventSet, events' = Append(events, e),
               e.frame_count = j.frame_count, Unshipped(assembler') = 0
        PROVE  \E step \in Counts!FrameSteps(View(assembler)) : Moves(step)
    <3>1. Shipped(events') = Shipped(events) \o <<n>>
      BY <1>0, <2>1, <2>3, ShippedMore
    <3>2. CASE assembler'.active
      <4>1. View(assembler') = [open |-> TRUE, held |-> 0, kept |-> 0]
        BY <1>1, <2>3, <3>2 DEF View
      <4>2. Moves(Counts!Step(TRUE, 0, 0, <<n>>))
        BY <3>1, <4>1 DEF Moves, Counts!Step
      <4> QED
        BY <1>3, <4>2 DEF c
    <3>3. CASE ~ assembler'.active
      <4>1. View(assembler') = [open |-> FALSE, held |-> 0, kept |-> 0]
        BY <1>1, <2>3, <3>3 DEF View
      <4>2. Moves(Counts!Step(FALSE, 0, 0, <<n>>))
        BY <3>1, <4>1 DEF Moves, Counts!Step
      <4> QED
        BY <1>3, <4>2 DEF c
    <3> QED
      BY <3>2, <3>3
  <2> QED
    BY <2>1, <2>2, <2>3
<1> QED
  BY <1>5, <1>6

LEMMA FlushMoves ==
  ASSUME StreamTypes, NEW t \in Nat, EndsCall(t)
  PROVE  Moves(Counts!FlushStep(View(assembler)))
<1>0. /\ Sound(assembler, fed) /\ events \in Seq(EventSet)
      /\ Unshipped(assembler) \in Nat /\ assembler.active \in BOOLEAN
  BY Views DEF StreamTypes
<1>1. Unshipped(assembler') \in Nat /\ assembler'.active = FALSE
  <2>1. Sound(assembler', fed) /\ ~ assembler'.active
    BY EmitsLast
  <2> QED
    BY <2>1, Views
<1>2. CASE assembler.active
  <2>1. PICK e \in EventSet :
          /\ events' = Append(events, e) /\ e.frame_count = Unshipped(assembler)
          /\ Unshipped(assembler') = 0
    BY <1>2, EmitsLast DEF Unshipped
  <2>2. Shipped(events') = Shipped(events) \o <<Unshipped(assembler)>>
    BY <1>0, <2>1, ShippedMore
  <2>3. View(assembler') = [open |-> FALSE, held |-> 0, kept |-> 0]
    BY <1>1, <2>1 DEF View
  <2>4. Counts!FlushStep(View(assembler)) = Counts!Step(FALSE, 0, 0, <<Unshipped(assembler)>>)
    BY <1>0, <1>2 DEF View, Counts!FlushStep
  <2>5. Moves(Counts!Step(FALSE, 0, 0, <<Unshipped(assembler)>>))
    BY <2>2, <2>3 DEF Moves, Counts!Step
  <2> QED
    BY <2>4, <2>5
<1>3. CASE ~ assembler.active
  <2>1. events' = events /\ assembler' = assembler
    BY <1>3, EmitsLast
  <2>3. Shipped(events') = Shipped(events) \o <<>>
    BY <1>0, <2>1, ShippedType
  <2>4. View(assembler') = [open |-> FALSE, held |-> 0, kept |-> Unshipped(assembler)]
    BY <1>1, <2>1 DEF View
  <2>5. Counts!FlushStep(View(assembler)) = Counts!Step(FALSE, 0, Unshipped(assembler), <<>>)
    BY <1>0, <1>3 DEF View, Counts!FlushStep
  <2>6. Moves(Counts!Step(FALSE, 0, Unshipped(assembler), <<>>))
    BY <2>3, <2>4 DEF Moves, Counts!Step
  <2> QED
    BY <2>5, <2>6
<1> QED
  BY <1>2, <1>3

\* To its callers the assembler is no more than ChunkStream, whatever its
\* configuration: HotPath may stand on that.
THEOREM AssemblerImplementsChunkStream == Spec => ChunkStreamSpec
<1> DEFINE chunker == [open |-> assembler.active,
                       held |-> IF assembler.active THEN assembler.frame_count ELSE 0,
                       kept |-> Len(PreRollFrames(assembler.pre_roll))]
           shipped == [i \in 1 .. Len(events) |-> events[i].frame_count]
<1>1. StreamTypes => chunker = View(assembler) /\ shipped = Shipped(events)
  BY Views DEF StreamTypes, Shipped
<1>2. Init => Counts!Init
  <2> SUFFICES ASSUME Init PROVE Counts!Init
    OBVIOUS
  <2>1. StreamTypes
    BY InitStream
  <2>2. Unshipped(assembler) = 0 /\ ~ assembler.active /\ assembler.active \in BOOLEAN
    <3>1. ~ assembler.active /\ assembler.pre_roll.head = 0 /\ assembler.active = FALSE
      BY DEF Init, NewAssembler, NewPreRoll
    <3>2. PreRollSize(assembler.pre_roll) = 0
      <4>1. pre_roll_frames \in Nat
        BY VadAssumption
      <4> QED
        BY <3>1, <4>1 DEF PreRollSize
    <3> QED
      BY <3>1, <3>2 DEF Unshipped
  <2>3. Shipped(events) = <<>>
    BY DEF Init, Shipped
  <2>4. View(assembler) = [open |-> FALSE, held |-> 0, kept |-> 0]
    BY <2>2 DEF View
  <2> QED
    BY <1>1, <2>1, <2>3, <2>4 DEF Counts!Init, Counts!NewChunker
<1>3. StreamTypes /\ StreamTypes' /\ [Next]_vars => [Counts!Next]_(Counts!chunkVars)
  <2> SUFFICES ASSUME StreamTypes, StreamTypes', [Next]_vars
               PROVE  [Counts!Next]_(Counts!chunkVars)
    OBVIOUS
  <2>1. /\ chunker = View(assembler) /\ shipped = Shipped(events)
        /\ chunker' = View(assembler') /\ shipped' = Shipped(events')
    <3>1. Sound(assembler', fed')
      BY DEF StreamTypes
    <3>2. chunker' = View(assembler')
      BY <3>1, Views
    <3> QED
      BY <1>1, <3>2 DEF Shipped
  <2>2. CASE UNCHANGED vars
    BY <2>2 DEF vars, Counts!chunkVars
  <2>3. CASE Next
    <3>1. PICK t \in Nat : EndsCall(t) \/ \E f \in FrameSet : TakesFrame(f, t)
      BY <2>3, NextKinds
    <3>2. CASE EndsCall(t)
      <4>1. Moves(Counts!FlushStep(View(assembler)))
        BY <3>2, FlushMoves
      <4>2. Counts!Take(Counts!FlushStep(chunker))
        BY <2>1, <4>1 DEF Moves, Counts!Take
      <4> QED
        BY <4>2 DEF Counts!Next
    <3>3. CASE \E f \in FrameSet : TakesFrame(f, t)
      <4>1. PICK step \in Counts!FrameSteps(View(assembler)) : Moves(step)
        BY <3>3, FrameMoves
      <4>2. Counts!Take(step) /\ step \in Counts!FrameSteps(chunker)
        BY <2>1, <4>1 DEF Moves, Counts!Take
      <4> QED
        BY <4>2 DEF Counts!Next
    <3> QED
      BY <3>1, <3>2, <3>3
  <2> QED
    BY <2>2, <2>3
<1> QED
  BY <1>2, <1>3, StreamInvariant, PTL DEF Spec, ChunkStreamSpec, Counts!Spec

-----------------------------------------------------------------------------
(* What the gate hears.                                                    *)

LastOf(B) == IF B = {} THEN 0 ELSE CHOOSE i \in B : \A j \in B : j <= i

\* The frames that break a run of quiet frames, and those that break a run of
\* loud frames of call c.
LoudIn(s) == {i \in 1 .. Len(s) : s[i].loud}
NotHeardIn(s, c) == {i \in 1 .. Len(s) : ~ (s[i].loud /\ s[i].call = c)}

LEMMA LastBreak ==
  ASSUME NEW n \in Nat, NEW B \in SUBSET (1 .. n)
  PROVE  LastOf(B) \in 0 .. n /\ LastOf(B \cup {n + 1}) = n + 1
<1>1. LastOf(B) \in 0 .. n
  <2>1. CASE B = {}
    BY <2>1 DEF LastOf
  <2>2. CASE B # {}
    <3> DEFINE D == {d \in Nat : \E i \in B : d = n - i}
    <3>1. PICK i0 \in B : TRUE
      BY <2>2
    <3>2. n - i0 \in D
      OBVIOUS
    <3>3. D # {} /\ D \subseteq Nat
      BY <3>2
    <3> HIDE DEF D
    <3>4. PICK d \in D : \A e \in D : ~ (<<e, d>> \in OpToRel(<, Nat))
      BY <3>3, NatLessThanWellFounded, WFMin
    <3>5. \A e \in D : <<e, d>> \in OpToRel(<, Nat) <=> e < d
      BY <3>3 DEF OpToRel
    <3>6. \A e \in D : e \in Nat /\ d \in Nat /\ e >= d
      <4>1. \A e \in D : ~ (e < d)
        BY <3>4, <3>5, Zenon
      <4> QED
        BY <3>3, <4>1
    <3>7. PICK i \in B : d = n - i
      BY <3>6 DEF D
    <3>8. ASSUME NEW j \in B PROVE j <= i
      <4>1. n - j \in D
        BY DEF D
      <4> QED
        BY <3>6, <3>7, <4>1
    <3>9. PICK k : k = CHOOSE m \in B : \A j \in B : j <= m
      OBVIOUS
    <3>10. k \in B
      BY <3>8, <3>9
    <3>11. LastOf(B) = k
      BY <2>2, <3>9 DEF LastOf
    <3>12. k \in 0 .. n
      BY <3>10
    <3> QED
      BY <3>11, <3>12
  <2> QED
    BY <2>1, <2>2
<1>2. LastOf(B \cup {n + 1}) = n + 1
  <2> DEFINE C == B \cup {n + 1}
  <2>1. n + 1 \in C /\ \A j \in C : j \in Nat /\ j <= n + 1
    OBVIOUS
  <2> HIDE DEF C
  <2>2. PICK k : k = CHOOSE i \in C : \A j \in C : j <= i
    OBVIOUS
  <2>3. k \in C /\ \A j \in C : j <= k
    BY <2>1, <2>2
  <2>4. k = n + 1
    BY <2>1, <2>3
  <2>5. LastOf(C) = k
    BY <2>1, <2>2 DEF LastOf
  <2> QED
    BY <2>4, <2>5 DEF C
<1> QED
  BY <1>1, <1>2

\* The runs that end the stream, when one more frame is heard.
LEMMA RunsGrow ==
  ASSUME NEW s \in Seq(FrameSet), NEW f \in FrameSet, NEW c
  PROVE  LET s2 == Append(s, f)
             quiet(z) == Len(z) - LastOf(LoudIn(z))
             heard(z) == Len(z) - LastOf(NotHeardIn(z, c))
         IN  /\ quiet(s) \in Nat /\ heard(s) \in Nat
             /\ quiet(s2) = IF f.loud THEN 0 ELSE quiet(s) + 1
             /\ heard(s2) = IF f.loud /\ f.call = c THEN heard(s) + 1 ELSE 0
<1> DEFINE s2 == Append(s, f)
<1>1. PICK n \in Nat : n = Len(s)
  OBVIOUS
<1>2. Len(s2) = n + 1 /\ s2[n + 1] = f /\ \A i \in 1 .. n : s2[i] = s[i]
  BY <1>1, AppendProperties
<1> HIDE DEF s2
<1>3. LoudIn(s) \in SUBSET (1 .. n) /\ NotHeardIn(s, c) \in SUBSET (1 .. n)
  BY <1>1 DEF LoudIn, NotHeardIn
<1>4. \A i \in 1 .. n + 1 : i = n + 1 \/ i \in 1 .. n
  OBVIOUS
<1>5. n + 1 \in 1 .. n + 1 /\ 1 .. n \subseteq 1 .. n + 1 /\ n + 1 \notin 1 .. n
  OBVIOUS
<1>6. LoudIn(s2) = IF f.loud THEN LoudIn(s) \cup {n + 1} ELSE LoudIn(s)
  BY <1>1, <1>2, <1>4, <1>5 DEF LoudIn
<1>7. NotHeardIn(s2, c) = IF f.loud /\ f.call = c THEN NotHeardIn(s, c)
                                                  ELSE NotHeardIn(s, c) \cup {n + 1}
  BY <1>1, <1>2, <1>4, <1>5 DEF NotHeardIn
<1>8. PICK x \in 0 .. n : x = LastOf(LoudIn(s)) /\ LastOf(LoudIn(s) \cup {n + 1}) = n + 1
  BY <1>3, LastBreak
<1>9. PICK y \in 0 .. n :
        y = LastOf(NotHeardIn(s, c)) /\ LastOf(NotHeardIn(s, c) \cup {n + 1}) = n + 1
  BY <1>3, LastBreak
<1>10. Len(s2) - LastOf(LoudIn(s2)) = IF f.loud THEN 0 ELSE (n - x) + 1
  BY <1>2, <1>6, <1>8
<1>11. Len(s2) - LastOf(NotHeardIn(s2, c)) = IF f.loud /\ f.call = c THEN (n - y) + 1 ELSE 0
  BY <1>2, <1>7, <1>9
<1> QED
  BY <1>1, <1>8, <1>9, <1>10, <1>11 DEF s2

QuietRun(s) == Len(s) - LastOf(LoudIn(s))
HeardRun(s, c) == Len(s) - LastOf(NotHeardIn(s, c))

LEMMA TrailingRuns ==
  /\ TrailingRun(Quiet) = QuietRun(fed)
  /\ TrailingRun(LoudInThisCall) = HeardRun(fed, call)
  /\ TrailingRun(Quiet)' = QuietRun(fed')
  /\ TrailingRun(LoudInThisCall)' = HeardRun(fed', call')
  BY DEF TrailingRun, Quiet, LoudInThisCall, QuietRun, HeardRun, LastOf, LoudIn, NotHeardIn

\* While a chunk is open its gate is speaking and has counted the quiet frames
\* at the end of the stream.  As long as the session has had no other call, the
\* gate has counted the loud frames too, and is waiting for more of them.
HearingInv ==
  /\ assembler.active => assembler.gate.quiet_frames = QuietRun(fed)
  /\ call = 1 /\ silence_frames > 0 =>
       /\ assembler.gate.loud_frames = HeardRun(fed, call)
       /\ ~ assembler.active =>
            /\ ~ assembler.gate.speaking
            /\ \/ assembler.gate.loud_frames < speech_frames
               \/ InCooldown(assembler.gate, now)

LEMMA InitHearing == Init => HearingInv
<1> SUFFICES ASSUME Init PROVE HearingInv
  OBVIOUS
<1>1. /\ ~ assembler.active /\ assembler.gate.loud_frames = 0
      /\ ~ assembler.gate.speaking /\ fed = <<>>
  BY DEF Init, NewAssembler, NewGate
<1>2. HeardRun(fed, call) = 0
  <2>1. NotHeardIn(<<>>, call) = {} /\ Len(<<>>) = 0
    BY DEF NotHeardIn
  <2> QED
    BY <1>1, <2>1 DEF HeardRun, LastOf
<1>3. 0 < speech_frames
  BY VadAssumption
<1> QED
  BY <1>1, <1>2, <1>3 DEF HearingInv

\* What a frame does to the runs and to the gate.
LEMMA FrameHeard ==
  ASSUME StreamTypes, HearingInv, NEW t \in Nat, NEW f \in FrameSet, TakesFrame(f, t)
  PROVE  /\ HearingInv'
         /\ assembler.active \/ assembler'.active =>
              (assembler'.gate.speaking <=> QuietRun(fed') < silence_frames)
<1> DEFINE g == assembler.gate
           k == assembler'.gate
<1>1. /\ fed \in Seq(FrameSet) /\ fed' = Append(fed, f) /\ f.call = call
      /\ call' = call /\ now' = t /\ f.loud \in BOOLEAN
  BY DEF StreamTypes, TakesFrame, FrameSet
<1>2. /\ QuietRun(fed) \in Nat /\ HeardRun(fed, call) \in Nat
      /\ QuietRun(fed') = IF f.loud THEN 0 ELSE QuietRun(fed) + 1
      /\ HeardRun(fed', call') = IF f.loud THEN HeardRun(fed, call) + 1 ELSE 0
  BY <1>1, RunsGrow DEF QuietRun, HeardRun
<1>3. /\ g \in GateSet /\ Hanging(g) /\ (assembler.active => g.speaking)
      /\ k = Accept(g, f.loud, t)
  BY Emits DEF StreamTypes, Sound, AssemblerSet
<1>4. /\ speech_frames \in Nat /\ speech_frames >= 1 /\ silence_frames \in Nat
      /\ g.loud_frames \in Nat /\ g.quiet_frames \in Nat
      /\ g.speaking \in BOOLEAN
  BY <1>3, VadAssumption DEF GateSet
<1>5. /\ k \in GateSet
      /\ f.loud => k.quiet_frames = 0
      /\ f.loud /\ silence_frames > 0 => k.loud_frames = g.loud_frames + 1
      /\ f.loud /\ g.speaking => k.speaking
      /\ f.loud /\ ~ g.speaking /\ ~ Onset(g, f.loud, t) =>
           /\ ~ k.speaking
           /\ k.loud_frames = g.loud_frames + 1
           /\ k.has_triggered = g.has_triggered
           /\ k.last_trigger = g.last_trigger
      /\ ~ f.loud => k.loud_frames = 0
      /\ ~ f.loud /\ g.speaking => /\ k.quiet_frames = g.quiet_frames + 1
                                   /\ k.speaking <=> k.quiet_frames < silence_frames
      /\ ~ f.loud /\ ~ g.speaking => ~ k.speaking
      /\ Onset(g, f.loud, t) => /\ f.loud /\ ~ g.speaking
                                /\ k.speaking <=> silence_frames > 0
  BY <1>1, <1>3, AcceptFields
<1>6. /\ assembler'.active => assembler.active \/ Onset(g, f.loud, t)
      /\ (assembler.active \/ Onset(g, f.loud, t)) /\ ~ assembler'.active => ~ k.speaking
      /\ assembler'.active => k.speaking
  <2>1. CASE ~ (assembler.active \/ Onset(assembler.gate, f.loud, t))
    BY <2>1, Emits
  <2>2. CASE assembler.active \/ Onset(assembler.gate, f.loud, t)
    <3>1. \/ assembler'.active /\ assembler'.gate.speaking
          \/ ~ assembler'.active /\ ~ assembler'.gate.speaking
      BY <2>2, Emits
    <3> QED
      BY <2>2, <3>1
  <2> QED
    BY <2>1, <2>2
<1>7. assembler.active => g.quiet_frames = QuietRun(fed)
  BY DEF HearingInv
<1> HIDE DEF g, k
<1>8. assembler'.active => k.quiet_frames = QuietRun(fed')
  BY <1>2, <1>3, <1>5, <1>6, <1>7
<1>9. ASSUME assembler.active \/ assembler'.active
      PROVE  k.speaking <=> QuietRun(fed') < silence_frames
  <2>1. CASE f.loud /\ assembler.active
    <3>1. g.quiet_frames < silence_frames /\ k.speaking
      BY <1>3, <1>5, <2>1 DEF Hanging
    <3> QED
      BY <1>2, <1>4, <2>1, <3>1
  <2>2. CASE ~ f.loud /\ assembler.active
    BY <1>2, <1>3, <1>5, <1>7, <2>2
  <2>3. CASE ~ assembler.active
    BY <1>2, <1>5, <1>6, <1>9, <2>3
  <2> QED
    BY <2>1, <2>2, <2>3
<1>10. ASSUME call = 1, silence_frames > 0
       PROVE  /\ k.loud_frames = HeardRun(fed', call')
              /\ ~ assembler'.active =>
                   /\ ~ k.speaking
                   /\ k.loud_frames < speech_frames \/ InCooldown(k, t)
  <2>1. /\ g.loud_frames = HeardRun(fed, call)
        /\ ~ assembler.active =>
             /\ ~ g.speaking
             /\ g.loud_frames < speech_frames \/ InCooldown(g, now)
    BY <1>10 DEF HearingInv, g
  <2>2. k.loud_frames = HeardRun(fed', call')
    BY <1>2, <1>5, <1>10, <2>1
  <2>3. ASSUME ~ assembler'.active
        PROVE  /\ ~ k.speaking
               /\ k.loud_frames < speech_frames \/ InCooldown(k, t)
    <3>1. CASE ~ f.loud
      <4>1. ~ k.speaking
        BY <1>5, <1>6, <2>1, <2>3, <3>1
      <4> QED
        BY <1>4, <1>5, <3>1, <4>1
    <3>2. CASE f.loud
      <4>1. ~ Onset(g, f.loud, t) /\ ~ assembler.active
        BY <1>3, <1>5, <1>6, <1>10, <2>3, <3>2
      <4>2. /\ ~ k.speaking /\ k.loud_frames = g.loud_frames + 1 /\ ~ g.speaking
            /\ k.has_triggered = g.has_triggered /\ k.last_trigger = g.last_trigger
        BY <1>5, <2>1, <3>2, <4>1
      <4>3. ~ (g.loud_frames + 1 >= speech_frames) \/ InCooldown(g, t)
        BY <3>2, <4>1, <4>2 DEF Onset, Triggers
      <4>4. InCooldown(g, t) => InCooldown(k, t)
        BY <4>2 DEF InCooldown
      <4> QED
        BY <1>4, <4>2, <4>3, <4>4
    <3> QED
      BY <3>1, <3>2
  <2> QED
    BY <2>2, <2>3
<1>11. HearingInv'
  BY <1>1, <1>8, <1>10 DEF HearingInv, k
<1> QED
  BY <1>9, <1>11 DEF k

LEMMA HearingStep == StreamTypes /\ HearingInv /\ [Next]_vars => HearingInv'
<1> SUFFICES ASSUME StreamTypes, HearingInv, [Next]_vars PROVE HearingInv'
  OBVIOUS
<1>1. CASE UNCHANGED vars
  BY <1>1 DEF vars, HearingInv
<1>2. ASSUME NEW t \in Nat, EndsCall(t) PROVE HearingInv'
  <2>1. ~ assembler'.active
    BY <1>2, EmitsLast
  <2>2. call' # 1
    BY <1>2 DEF EndsCall, StreamTypes
  <2> QED
    BY <2>1, <2>2 DEF HearingInv
<1>3. CASE Next
  BY <1>2, <1>3, NextKinds, FrameHeard
<1> QED
  BY <1>1, <1>3

LEMMA HearingInvariant == Spec => []HearingInv
<1>1. Init => HearingInv
  BY InitHearing
<1>2. StreamTypes /\ HearingInv /\ [Next]_vars => HearingInv'
  BY HearingStep
<1> QED
  BY <1>1, <1>2, StreamInvariant, PTL DEF Spec

\* The call that gets a new session object is heard: speech_frames loud frames
\* in a row open a chunk, the cooldown apart (vad.hpp:31).
THEOREM FirstCallIsHeard == Spec => []SpeechHeardInFirstCall
<1>1. ASSUME StreamTypes, HearingInv PROVE SpeechHeardInFirstCall
  BY <1>1, TrailingRuns DEF HearingInv, SpeechHeardInFirstCall, SpeechHeard
<1> QED
  BY <1>1, StreamInvariant, HearingInvariant, PTL

\* The endpoint fires on exactly the silence_frames-th quiet frame in a row
\* (test_chunker.cpp:164), for every configuration and whatever was cut before.
THEOREM EndpointIsExact == Spec => EndpointExact
<1>1. ASSUME StreamTypes, HearingInv, [Next]_vars,
             fed' # fed, assembler.active \/ assembler'.active
      PROVE  (events' # events /\ Last(events').reason = "hangover")
               <=> TrailingRun(Quiet)' >= silence_frames
  <2>1. PICK t \in Nat, f \in FrameSet : TakesFrame(f, t)
    <3>1. \A t \in Nat : ~ EndsCall(t)
      BY <1>1 DEF EndsCall
    <3>2. Next
      BY <1>1 DEF vars
    <3> QED
      BY <1>1, <3>1, <3>2, NextKinds
  <2>2. assembler'.gate.speaking <=> QuietRun(fed') < silence_frames
    BY <1>1, <2>1, FrameHeard
  <2>3. assembler.active \/ Onset(assembler.gate, f.loud, t)
    BY <1>1, <2>1, Emits
  <2>4. events \in Seq(EventSet)
    BY <1>1 DEF StreamTypes
  <2>5. \/ events' = events /\ assembler'.gate.speaking
        \/ \E e \in EventSet :
             /\ events' = Append(events, e)
             /\ \/ e.reason = "hangover" /\ ~ assembler'.gate.speaking
                \/ e.reason = "max_length" /\ assembler'.gate.speaking
    BY <1>1, <2>1, <2>3, Emits
  <2>6. ASSUME NEW e \in EventSet, events' = Append(events, e)
        PROVE  events' # events /\ Last(events') = e
    <3>1. Len(events') = Len(events) + 1 /\ events'[Len(events) + 1] = e /\ Len(events) \in Nat
      BY <2>4, <2>6, AppendProperties
    <3> QED
      BY <3>1 DEF Last
  <2>7. (events' # events /\ Last(events').reason = "hangover") <=> ~ assembler'.gate.speaking
    BY <2>5, <2>6
  <2>8. QuietRun(fed') \in Nat /\ silence_frames \in Nat
    <3>1. fed' \in Seq(FrameSet)
      BY <1>1, <2>1, Emits
    <3>2. PICK s \in Seq(FrameSet) : s = fed'
      BY <3>1
    <3>3. QuietRun(s) \in Nat
      BY RunsGrow, <2>1 DEF QuietRun
    <3> QED
      BY <3>2, <3>3, VadAssumption
  <2> QED
    BY <2>2, <2>7, <2>8, TrailingRuns
<1>2. StreamTypes /\ HearingInv /\ [Next]_vars
        => [fed' # fed /\ (assembler.active \/ assembler'.active) =>
             ((events' # events /\ Last(events').reason = "hangover")
                <=> TrailingRun(Quiet)' >= silence_frames)]_vars
  BY <1>1
<1> QED
  BY <1>2, StreamInvariant, HearingInvariant, PTL DEF Spec, EndpointExact

-----------------------------------------------------------------------------
(* Induction, in the form of a set.                                        *)

LEMMA LeastNat ==
  ASSUME NEW B \in SUBSET Nat, B # {}
  PROVE  \E x \in B : \A y \in B : x <= y
<1>1. PICK x \in B : \A y \in B : ~ (<<y, x>> \in OpToRel(<, Nat))
  BY NatLessThanWellFounded, WFMin
<1>2. \A y \in B : <<y, x>> \in OpToRel(<, Nat) <=> y < x
  BY DEF OpToRel
<1>3. \A y \in B : ~ (y < x)
  BY <1>1, <1>2, Zenon
<1> QED
  BY <1>3

LEMMA Induction ==
  ASSUME NEW S, 0 \in S, \A n \in Nat : n \in S => n + 1 \in S
  PROVE  \A n \in Nat : n \in S
<1> DEFINE B == {n \in Nat : n \notin S}
<1>1. ASSUME B # {} PROVE FALSE
  <2>1. PICK x \in B : \A y \in B : x <= y
    <3>1. B \in SUBSET Nat
      OBVIOUS
    <3> HIDE DEF B
    <3> QED
      BY <1>1, <3>1, LeastNat
  <2>2. x # 0 /\ x \in Nat
    OBVIOUS
  <2>3. x - 1 \in Nat /\ x - 1 \notin B
    BY <2>1, <2>2
  <2>4. x - 1 + 1 \in S
    BY <2>3
  <2> QED
    BY <2>2, <2>4
<1> QED
  BY <1>1

-----------------------------------------------------------------------------
(* Sums of the first values of a function.                                 *)

IsTotal(g, f, n) == g = [k \in 0 .. n |-> IF k = 0 THEN 0 ELSE g[k - 1] + f[k]]

Totals(f, n) == CHOOSE g : IsTotal(g, f, n)

LEMMA TotalOfTotals ==
  ASSUME NEW f, NEW n
  PROVE  Total(f, n) = Totals(f, n)[n]
BY DEF Total, Totals, IsTotal

LEMMA TotalsExist ==
  ASSUME NEW f, NEW n \in Nat
  PROVE  IsTotal(Totals(f, n), f, n)
<1> DEFINE S == {m \in Nat : \E g : IsTotal(g, f, m)}
<1>1. 0 \in S
  <2>1. IsTotal([k \in 0 .. 0 |-> 0], f, 0)
    BY DEF IsTotal
  <2> QED
    BY <2>1
<1>2. ASSUME NEW m \in Nat, m \in S PROVE m + 1 \in S
  <2>1. PICK g : IsTotal(g, f, m)
    BY <1>2
  <2> DEFINE h == [k \in 0 .. m + 1 |-> IF k = m + 1 THEN g[m] + f[m + 1] ELSE g[k]]
  <2>2. \A k \in 0 .. m : g[k] = IF k = 0 THEN 0 ELSE g[k - 1] + f[k]
    BY <2>1 DEF IsTotal
  <2>3. \A k \in 0 .. m + 1 : h[k] = IF k = 0 THEN 0 ELSE h[k - 1] + f[k]
    BY <2>2
  <2>4. DOMAIN h = 0 .. m + 1 /\ h = [k \in DOMAIN h |-> h[k]]
    OBVIOUS
  <2> HIDE DEF h
  <2>5. h = [k \in 0 .. m + 1 |-> IF k = 0 THEN 0 ELSE h[k - 1] + f[k]]
    BY <2>3, <2>4
  <2>6. IsTotal(h, f, m + 1)
    BY <2>5 DEF IsTotal
  <2> QED
    BY <2>6
<1> HIDE DEF S
<1>3. n \in S
  BY <1>1, <1>2, Induction
<1> QED
  BY <1>3 DEF S, Totals

LEMMA TotalsAgree ==
  ASSUME NEW f, NEW n \in Nat
  PROVE  Totals(f, n + 1)[n] = Totals(f, n)[n]
<1> DEFINE g == Totals(f, n)
           h == Totals(f, n + 1)
           S == {k \in Nat : k <= n => h[k] = g[k]}
<1>1. IsTotal(g, f, n) /\ IsTotal(h, f, n + 1)
  BY TotalsExist
<1> HIDE DEF g, h
<1>2. \A k \in 0 .. n : g[k] = IF k = 0 THEN 0 ELSE g[k - 1] + f[k]
  BY <1>1 DEF IsTotal
<1>3. \A k \in 0 .. n + 1 : h[k] = IF k = 0 THEN 0 ELSE h[k - 1] + f[k]
  BY <1>1 DEF IsTotal
<1>4. 0 \in S
  BY <1>2, <1>3
<1>5. ASSUME NEW k \in Nat, k \in S PROVE k + 1 \in S
  <2> SUFFICES ASSUME k + 1 <= n PROVE h[k + 1] = g[k + 1]
    OBVIOUS
  <2>1. h[k] = g[k] /\ k + 1 - 1 = k /\ k + 1 # 0
    BY <1>5
  <2>2. h[k + 1] = h[k] + f[k + 1] /\ g[k + 1] = g[k] + f[k + 1]
    BY <1>2, <1>3, <2>1
  <2> QED
    BY <2>1, <2>2
<1> HIDE DEF S
<1>6. \A k \in Nat : k \in S
  BY <1>4, <1>5, Induction
<1> QED
  BY <1>6 DEF S, g, h

\* One step of the sum.
LEMMA TotalUnfold ==
  ASSUME NEW f
  PROVE  /\ Total(f, 0) = 0
         /\ \A n \in Nat : Total(f, n + 1) = Total(f, n) + f[n + 1]
<1>1. Total(f, 0) = 0
  <2>1. IsTotal(Totals(f, 0), f, 0)
    BY TotalsExist
  <2>2. Totals(f, 0)[0] = 0
    BY <2>1 DEF IsTotal
  <2> QED
    BY <2>2, TotalOfTotals
<1>2. ASSUME NEW n \in Nat PROVE Total(f, n + 1) = Total(f, n) + f[n + 1]
  <2>1. IsTotal(Totals(f, n + 1), f, n + 1)
    BY TotalsExist
  <2>2. Totals(f, n + 1)[n + 1] = Totals(f, n + 1)[n] + f[n + 1]
    BY <2>1 DEF IsTotal
  <2>3. Totals(f, n + 1)[n] = Totals(f, n)[n]
    BY TotalsAgree
  <2> QED
    BY <2>2, <2>3, TotalOfTotals
<1> QED
  BY <1>1, <1>2

LEMMA TotalType ==
  ASSUME NEW f, NEW n \in Nat, \A i \in 1 .. n : f[i] \in Nat
  PROVE  Total(f, n) \in Nat
<1> DEFINE S == {m \in Nat : m <= n => Total(f, m) \in Nat}
<1>1. 0 \in S
  BY TotalUnfold
<1>2. ASSUME NEW m \in Nat, m \in S PROVE m + 1 \in S
  <2> SUFFICES ASSUME m + 1 <= n PROVE Total(f, m + 1) \in Nat
    OBVIOUS
  <2>1. Total(f, m) \in Nat /\ f[m + 1] \in Nat
    BY <1>2
  <2> QED
    BY <2>1, TotalUnfold
<1> HIDE DEF S
<1>3. n \in S
  BY <1>1, <1>2, Induction
<1> QED
  BY <1>3 DEF S

\* The sum looks at no other value.
LEMMA TotalSame ==
  ASSUME NEW f, NEW g, NEW n \in Nat, \A i \in 1 .. n : g[i] = f[i]
  PROVE  Total(g, n) = Total(f, n)
<1> DEFINE S == {m \in Nat : m <= n => Total(g, m) = Total(f, m)}
<1>1. 0 \in S
  BY TotalUnfold
<1>2. ASSUME NEW m \in Nat, m \in S PROVE m + 1 \in S
  <2> SUFFICES ASSUME m + 1 <= n PROVE Total(g, m + 1) = Total(f, m + 1)
    OBVIOUS
  <2>1. Total(g, m) = Total(f, m) /\ g[m + 1] = f[m + 1]
    BY <1>2
  <2>2. /\ Total(g, m + 1) = Total(g, m) + g[m + 1]
        /\ Total(f, m + 1) = Total(f, m) + f[m + 1]
    BY TotalUnfold
  <2> QED
    BY <2>1, <2>2
<1> HIDE DEF S
<1>3. n \in S
  BY <1>1, <1>2, Induction
<1> QED
  BY <1>3 DEF S

-----------------------------------------------------------------------------
(* What the chunks say of the loss.                                        *)

Reported(ev) == Total([i \in 1 .. Len(ev) |-> ev[i].dropped_frames], Len(ev))
Lost(s) == Total([i \in 1 .. Len(s) |-> s[i].lost], Len(s))
Pending(a) == IF a.active THEN a.gap_frames ELSE 0

\* The sum over a sequence that grows.
LEMMA TotalGrows ==
  ASSUME NEW n \in Nat, NEW f, NEW g, \A i \in 1 .. n : g[i] = f[i]
  PROVE  Total(g, n + 1) = Total(f, n) + g[n + 1]
<1>1. Total(g, n) = Total(f, n)
  BY TotalSame
<1> QED
  BY <1>1, TotalUnfold

LEMMA ReportedMore ==
  ASSUME NEW ev \in Seq(EventSet), NEW e \in EventSet
  PROVE  Reported(Append(ev, e)) = Reported(ev) + e.dropped_frames
<1>1. \A x \in EventSet : x.dropped_frames \in Nat
  BY DEF EventSet
<1>2. PICK n \in Nat : n = Len(ev)
  OBVIOUS
<1>3. /\ Len(Append(ev, e)) = n + 1 /\ Append(ev, e)[n + 1] = e
      /\ \A i \in 1 .. n : Append(ev, e)[i] = ev[i] /\ ev[i] \in EventSet
  BY <1>2, AppendProperties
<1> DEFINE f == [i \in 1 .. n |-> ev[i].dropped_frames]
           g == [i \in 1 .. n + 1 |-> Append(ev, e)[i].dropped_frames]
<1>4. /\ \A i \in 1 .. n : f[i] \in Nat /\ g[i] = f[i]
      /\ g[n + 1] = e.dropped_frames /\ g[n + 1] \in Nat
  BY <1>1, <1>3
<1>5. Reported(ev) = Total(f, n) /\ Reported(Append(ev, e)) = Total(g, n + 1)
  BY <1>2, <1>3 DEF Reported
<1> HIDE DEF f, g
<1>6. Total(g, n + 1) = Total(f, n) + g[n + 1]
  BY <1>4, TotalGrows
<1> QED
  BY <1>4, <1>5, <1>6

LEMMA LostMore ==
  ASSUME NEW s \in Seq(FrameSet), NEW f \in FrameSet
  PROVE  f.lost \in Nat /\ Lost(Append(s, f)) = Lost(s) + f.lost
<1>1. \A x \in FrameSet : x.lost \in Nat
  BY StreamAssumption DEF FrameSet
<1>2. PICK n \in Nat : n = Len(s)
  OBVIOUS
<1>3. /\ Len(Append(s, f)) = n + 1 /\ Append(s, f)[n + 1] = f
      /\ \A i \in 1 .. n : Append(s, f)[i] = s[i] /\ s[i] \in FrameSet
  BY <1>2, AppendProperties
<1> DEFINE g == [i \in 1 .. n |-> s[i].lost]
           h == [i \in 1 .. n + 1 |-> Append(s, f)[i].lost]
<1>4. /\ \A i \in 1 .. n : g[i] \in Nat /\ h[i] = g[i]
      /\ h[n + 1] = f.lost /\ h[n + 1] \in Nat
  BY <1>1, <1>3
<1>5. Lost(s) = Total(g, n) /\ Lost(Append(s, f)) = Total(h, n + 1)
  BY <1>2, <1>3 DEF Lost
<1> HIDE DEF g, h
<1>6. Total(h, n + 1) = Total(g, n) + h[n + 1]
  BY <1>4, TotalGrows
<1> QED
  BY <1>4, <1>5, <1>6

LEMMA TotalTypes ==
  ASSUME NEW ev \in Seq(EventSet), NEW s \in Seq(FrameSet)
  PROVE  Reported(ev) \in Nat /\ Lost(s) \in Nat
<1>1. \A x \in EventSet : x.dropped_frames \in Nat
  BY DEF EventSet
<1>2. \A x \in FrameSet : x.lost \in Nat
  BY StreamAssumption DEF FrameSet
<1> DEFINE d == [i \in 1 .. Len(ev) |-> ev[i].dropped_frames]
           l == [i \in 1 .. Len(s) |-> s[i].lost]
<1>3. (\A i \in 1 .. Len(ev) : d[i] \in Nat) /\ (\A i \in 1 .. Len(s) : l[i] \in Nat)
  BY <1>1, <1>2
<1>4. Len(ev) \in Nat /\ Len(s) \in Nat
  OBVIOUS
<1> HIDE DEF d, l
<1>5. Total(d, Len(ev)) \in Nat /\ Total(l, Len(s)) \in Nat
  BY <1>3, <1>4, TotalType
<1> QED
  BY <1>5 DEF Reported, Lost, d, l

\* An open chunk has seen the newest frame of its call, so the gap before the
\* next one is what was lost there; what the chunks reported and the open one
\* will report was lost.
LossInv ==
  /\ assembler.active => /\ assembler.last_seq_seen \in Nat
                         /\ next_seq = assembler.last_seq_seen + 1
  /\ Reported(events) + Pending(assembler) <= Lost(fed)

LEMMA InitLoss == Init => LossInv
<1> SUFFICES ASSUME Init PROVE LossInv
  OBVIOUS
<1>1. fed = <<>> /\ events = <<>> /\ ~ assembler.active
  BY DEF Init, NewAssembler
<1>2. Len(<<>>) = 0
  OBVIOUS
<1>3. Reported(<<>>) = 0 /\ Lost(<<>>) = 0
  BY <1>2, TotalUnfold DEF Reported, Lost
<1> QED
  BY <1>1, <1>3 DEF LossInv, Pending

LEMMA LossStep == StreamTypes /\ LossInv /\ [Next]_vars => LossInv'
<1> SUFFICES ASSUME StreamTypes, LossInv, [Next]_vars PROVE LossInv'
  OBVIOUS
<1>0. /\ fed \in Seq(FrameSet) /\ events \in Seq(EventSet) /\ next_seq \in Nat
      /\ assembler \in AssemblerSet /\ assembler.gap_frames \in Nat
      /\ assembler.last_seq_seen \in Nat \cup {None}
      /\ Pending(assembler) \in Nat
  BY DEF StreamTypes, Sound, AssemblerSet, Pending
<1>1. CASE UNCHANGED vars
  BY <1>1 DEF vars, LossInv
<1>2. PICK r \in Nat, l \in Nat, p \in Nat :
        /\ r = Reported(events) /\ l = Lost(fed) /\ p = Pending(assembler) /\ r + p <= l
        /\ \A e \in EventSet : Reported(Append(events, e)) = r + e.dropped_frames
        /\ \A f \in FrameSet : f.lost \in Nat /\ Lost(Append(fed, f)) = l + f.lost
  <2>1. Reported(events) \in Nat /\ Lost(fed) \in Nat
    BY <1>0, TotalTypes
  <2> QED
    BY <1>0, <2>1, ReportedMore, LostMore DEF LossInv
<1>3. ASSUME NEW t \in Nat, EndsCall(t) PROVE LossInv'
  <2>1. ~ assembler'.active /\ fed' = fed
    BY <1>3, EmitsLast DEF EndsCall
  <2>2. Reported(events') = r + p
    <3>1. CASE assembler.active
      <4>1. PICK e \in EventSet : events' = Append(events, e) /\ e.dropped_frames = p
        BY <1>2, <1>3, <3>1, EmitsLast DEF Pending
      <4> QED
        BY <1>2, <4>1
    <3>2. CASE ~ assembler.active
      BY <1>2, <1>3, <3>2, EmitsLast DEF Pending
    <3> QED
      BY <3>1, <3>2
  <2> QED
    BY <1>2, <2>1, <2>2 DEF LossInv, Pending
<1>4. ASSUME NEW t \in Nat, NEW f \in FrameSet, TakesFrame(f, t) PROVE LossInv'
  <2>1. /\ f.lost \in Nat /\ f.seq = next_seq + f.lost /\ next_seq' = f.seq + 1
        /\ assembler'.last_seq_seen = f.seq
    BY <1>4, Emits DEF TakesFrame
  <2>2. Lost(fed') = l + f.lost
    BY <1>2, <1>4 DEF TakesFrame
  <2>3. assembler.active => GapBefore(assembler, f) = f.lost
    <3>1. ASSUME assembler.active PROVE GapBefore(assembler, f) = f.lost
      <4>1. PICK last \in Nat : last = assembler.last_seq_seen /\ next_seq = last + 1
        BY <3>1 DEF LossInv
      <4>2. last # None
        BY DEF None
      <4>3. GapBefore(assembler, f) = IF f.seq > last + 1 THEN f.seq - last - 1 ELSE 0
        BY <4>1, <4>2 DEF GapBefore
      <4>4. f.seq = last + 1 + f.lost
        BY <2>1, <4>1
      <4> QED
        BY <2>1, <4>3, <4>4
    <3> QED
      BY <3>1
  <2>4. Reported(events') + Pending(assembler') <= l + f.lost
    <3>1. CASE ~ (assembler.active \/ Onset(assembler.gate, f.loud, t))
      <4>1. ~ assembler'.active /\ events' = events
        BY <1>4, <3>1, Emits
      <4> QED
        BY <1>2, <2>1, <4>1 DEF Pending
    <3>2. CASE assembler.active \/ Onset(assembler.gate, f.loud, t)
      <4>1. PICK j \in AssemblerSet :
              /\ j.gap_frames = IF assembler.active
                                  THEN assembler.gap_frames + GapBefore(assembler, f)
                                  ELSE 0
              /\ \/ events' = events /\ assembler' = j /\ j.active
                 \/ \E e \in EventSet :
                      /\ events' = Append(events, e) /\ e.dropped_frames = j.gap_frames
                      /\ ~ assembler'.active \/ assembler'.gap_frames = 0
        BY <1>4, <3>2, Emits
      <4>2. j.gap_frames \in Nat /\ j.gap_frames <= p + f.lost
        BY <1>0, <1>2, <2>1, <2>3, <4>1, SMTT(30) DEF Pending
      <4>3. CASE events' = events /\ assembler' = j /\ j.active
        BY <1>2, <2>1, <4>2, <4>3 DEF Pending
      <4>4. ASSUME NEW e \in EventSet, events' = Append(events, e),
                   e.dropped_frames = j.gap_frames,
                   ~ assembler'.active \/ assembler'.gap_frames = 0
            PROVE  Reported(events') + Pending(assembler') <= l + f.lost
        <5>1. Reported(events') = r + j.gap_frames /\ Pending(assembler') = 0
          BY <1>2, <4>4 DEF Pending
        <5> QED
          BY <1>2, <2>1, <4>2, <5>1
      <4> QED
        BY <4>1, <4>3, <4>4
    <3> QED
      BY <3>1, <3>2
  <2>5. assembler'.last_seq_seen \in Nat /\ next_seq' = assembler'.last_seq_seen + 1
    BY <1>0, <2>1
  <2> QED
    BY <2>2, <2>4, <2>5 DEF LossInv
<1> QED
  BY <1>1, <1>3, <1>4, NextKinds

\* Every loss a chunk reports happened, and no other chunk reports it too
\* (audio_frame.hpp:32), whatever calls the session has had.
THEOREM LossIsReal == Spec => []ReportedLossIsReal
<1>1. ASSUME StreamTypes, LossInv PROVE ReportedLossIsReal
  <2>1. /\ Reported(events) + Pending(assembler) <= Lost(fed)
        /\ Pending(assembler) \in Nat
    BY <1>1 DEF LossInv, Pending, StreamTypes, Sound, AssemblerSet
  <2>2. Reported(events) <= Lost(fed)
    BY <1>1, <2>1, TotalTypes DEF StreamTypes
  <2> QED
    BY <2>2 DEF ReportedLossIsReal, Reported, Lost
<1>2. Init => LossInv
  BY InitLoss
<1>3. StreamTypes /\ LossInv /\ [Next]_vars => LossInv'
  BY LossStep
<1> QED
  BY <1>1, <1>2, <1>3, StreamInvariant, PTL DEF Spec
=============================================================================
