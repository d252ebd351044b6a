----------------------------- MODULE Histogram -----------------------------
(***************************************************************************)
(* include/vhp/histogram.hpp as operators: a layout L (what the            *)
(* constructor computes), the arithmetic of bucket indices, and what       *)
(* record, the back-fill, merge and the percentile do to a histogram h.    *)
(* Words are WordBits wide; the code's are 64.                             *)
(***************************************************************************)
EXTENDS Shift, Integers, FiniteSetsExt, SequencesExt

CONSTANT WordBits

ASSUME WordAssumption == WordBits \in Nat /\ WordBits >= 1

Word == 0 .. Bit(WordBits) - 1

\* WordBits less the leading zeros.
BitLength(v) == Cardinality({e \in 0 .. WordBits - 1 : Bit(e) <= v})

-----------------------------------------------------------------------------
(* The layout, for 2^sub sub-buckets and a resolution of 2^unit.           *)

LayoutWith(buckets, sub, unit) == [sub |-> sub, unit |-> unit, buckets |-> 1 + buckets]

\* Slip: the power of two that is highest_trackable itself gets no bucket.
Layout_StopsShort(highest_trackable, sub, unit) ==
  LayoutWith(Cardinality({e \in sub + unit .. WordBits - 1 : Bit(e) < highest_trackable}), sub, unit)

\* Buckets are added while a power of two is still to be tracked; the last one
\* that a word can hold ends the loop.
Layout(highest_trackable, sub, unit) ==
  LayoutWith(Cardinality({e \in sub + unit .. WordBits - 1 : Bit(e) <= highest_trackable}), sub, unit)

Half(L) == Bit(L.sub - 1)
Size(L) == (L.buckets + 1) * Half(L)
Indices(L) == 0 .. Size(L) - 1

\* Values below the mask share bucket 0.
BucketIndex(L, v) ==
  IF v < Bit(L.sub + L.unit) THEN 0 ELSE BitLength(v) - (L.sub + L.unit)

CountsIndex(L, v) ==
  LET b == BucketIndex(L, v)
  IN  (b + 1) * Half(L) + (v \div Bit(b + L.unit)) - Half(L)

ValueFromIndex(L, i) ==
  LET b == i \div Half(L) - 1
      s == i % Half(L)
  IN  IF b < 0 THEN s * Bit(L.unit) ELSE (s + Half(L)) * Bit(b + L.unit)

EquivalentRange(L, v) == Bit(L.unit + BucketIndex(L, v))

HighestEquivalent(L, v) == v + EquivalentRange(L, v) - 1

-----------------------------------------------------------------------------
(* Recording.                                                              *)

NewHistogram(L) ==
  [counts |-> [i \in Indices(L) |-> 0], total |-> 0, overflow |-> 0, min |-> 0, max |-> 0]

Record(L, h, v) ==
  LET i == CountsIndex(L, v)
  IN  IF i \notin Indices(L)
        THEN [h EXCEPT !.overflow = @ + 1]
        ELSE [h EXCEPT !.counts[i] = @ + 1,
                       !.total = @ + 1,
                       !.max = IF v > @ THEN v ELSE @,
                       !.min = IF h.total = 0 \/ v < @ THEN v ELSE @]

\* v - interval, v - 2 * interval, ... as long as they are at least `least'.
Down(v, interval, least) ==
  LET n == Cardinality({k \in 1 .. v : v - k * interval >= least})
  IN  [k \in 1 .. n |-> v - k * interval]

\* Slip: the wait of exactly one interval is left out.
Missing_StopsEarly(v, interval) ==
  IF interval = 0 \/ v <= interval THEN <<>> ELSE Down(v, interval, interval + 1)

\* The samples that a stall of length v kept from being taken.
Missing(v, interval) ==
  IF interval = 0 \/ v <= interval THEN <<>> ELSE Down(v, interval, interval)

RecordAll(L, h, values) ==
  LET after[n \in 0 .. Len(values)] ==
        IF n = 0 THEN h ELSE Record(L, after[n - 1], values[n])
  IN  after[Len(values)]

RecordWithExpectedInterval(L, h, v, interval) ==
  RecordAll(L, h, <<v>> \o Missing(v, interval))

Larger(m, n) == IF m >= n THEN m ELSE n
Smaller(m, n) == IF m <= n THEN m ELSE n

\* Another layout is left alone.
Merge(h, other) ==
  IF DOMAIN other.counts # DOMAIN h.counts THEN h ELSE
  [counts |-> [i \in DOMAIN h.counts |-> h.counts[i] + other.counts[i]],
   total |-> h.total + other.total,
   overflow |-> h.overflow + other.overflow,
   max |-> IF other.total = 0 THEN h.max ELSE Larger(h.max, other.max),
   min |-> IF other.total = 0 THEN h.min
             ELSE IF h.total = 0 THEN other.min ELSE Smaller(h.min, other.min)]

-----------------------------------------------------------------------------
(* Reading.                                                                *)

\* The sum of the first n of a table that starts at 0.
SumOfFirst(table, n) ==
  LET running[k \in 0 .. n] == IF k = 0 THEN 0 ELSE running[k - 1] + table[k - 1]
  IN  running[n]

\* The buckets that hold a sample and at which the running count is up to target.
Reaching(h, target) ==
  {i \in DOMAIN h.counts : h.counts[i] # 0 /\ SumOfFirst(h.counts, i + 1) >= target}

\* Slip: the bucket's upper bound is not clamped.
ValueAtRank_Unclamped(L, h, target) ==
  IF Reaching(h, target) = {} THEN h.max
    ELSE HighestEquivalent(L, ValueFromIndex(L, Min(Reaching(h, target))))

\* value_at_percentile, for the rank that the percentile stands for: the upper
\* bound of the bucket, but never more than was recorded.
ValueAtRank(L, h, target) ==
  IF Reaching(h, target) = {} THEN h.max
    ELSE Smaller(HighestEquivalent(L, ValueFromIndex(L, Min(Reaching(h, target)))), h.max)

MedianEquivalent(L, v) == v + EquivalentRange(L, v) \div 2

\* The mean, times the number of samples.
SumOfMedians(L, h) ==
  SumOfFirst([i \in Indices(L) |-> h.counts[i] * MedianEquivalent(L, ValueFromIndex(L, i))],
             Size(L))

-----------------------------------------------------------------------------
(* Properties.                                                             *)

\* A sample is counted in the bucket that contains it, no value up to
\* highest_trackable is out of range, and no index stands for another's value: at
\* powers of two, at zero and at the top of the range too.
IndexExact ==
  \A sub \in 1 .. 3, unit \in 0 .. 2, highest \in Word :
    sub + unit < WordBits =>
      LET L == Layout(highest, sub, unit)
          Lowest == [i \in Indices(L) |-> ValueFromIndex(L, i)]
      IN  /\ \A i \in Indices(L) : CountsIndex(L, Lowest[i]) = i
          /\ \A v \in Word :
               LET i == CountsIndex(L, v)
               IN  /\ v <= highest => i \in Indices(L)
                   /\ i \in Indices(L) => Lowest[i] <= v /\ v <= HighestEquivalent(L, Lowest[i])

\* Histograms of two runs, either of them empty perhaps, merge into that of both.
MergeExact ==
  LET L == Layout(5, 2, 0)
      Recorded(values) == RecordAll(L, NewHistogram(L), values)
      Runs == UNION {[1 .. n -> 0 .. 9] : n \in 0 .. 2}
  IN  \A r, s \in Runs : Merge(Recorded(r), Recorded(s)) = Recorded(r \o s)
=============================================================================
