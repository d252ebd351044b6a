-------------------------- MODULE VhpProducerProofs --------------------------
(***************************************************************************)
(* Proofs about VhpProducer for every number of calls, every interval,     *)
(* every time a tick may take and every length of the run: a late tick     *)
(* delays no later one, the frames of a call are tried in turn, and the    *)
(* histogram counts every sample where its layout says, so that what it    *)
(* reports for a rank is within the resolution of the sample of that rank. *)
(* The codec is proved too, its samples and bytes being finitely many.     *)
(***************************************************************************)
EXTENDS VhpProducer, FiniteSetTheorems, SequenceTheorems, WellFoundedInduction, TLAPS

-----------------------------------------------------------------------------
(* Induction, in the form of a set.                                        *)

LEMMA LeastNat ==
  ASSUME NEW B \in SUBSET Nat, B # {}
  PROVE  \E x \in B : \A y \in B : x <= y
<1>1. PICK x \in B : \A y \in B : ~ (<<y, x>> \in OpToRel(<, Nat))
  BY NatLessThanWellFounded, WFMin
<1>2. \A y \in B : <<y, x>> \in OpToRel(<, Nat) <=> y < x
  BY DEF OpToRel
<1>3. \A y \in B : ~ (y < x)
  BY <1>1, <1>2, Zenon
<1> QED
  BY <1>3

LEMMA Induction ==
  ASSUME NEW S, 0 \in S, \A n \in Nat : n \in S => n + 1 \in S
  PROVE  \A n \in Nat : n \in S
<1> DEFINE B == {n \in Nat : n \notin S}
<1>1. ASSUME B # {} PROVE FALSE
  <2>1. PICK x \in B : \A y \in B : x <= y
    <3>1. B \in SUBSET Nat
      OBVIOUS
    <3> HIDE DEF B
    <3> QED
      BY <1>1, <3>1, LeastNat
  <2>2. x # 0 /\ x \in Nat
    OBVIOUS
  <2>3. x - 1 \in Nat /\ x - 1 \notin B
    BY <2>1, <2>2
  <2>4. x - 1 + 1 \in S
    BY <2>3
  <2> QED
    BY <2>2, <2>4
<1> QED
  BY <1>1

-----------------------------------------------------------------------------
(* Powers of two.                                                          *)

IsBit(g, n) == g = [k \in 0 .. n |-> IF k = 0 THEN 1 ELSE 2 * g[k - 1]]

Bits(n) == CHOOSE g : IsBit(g, n)

LEMMA BitOfBits ==
  ASSUME NEW n
  PROVE  Bit(n) = Bits(n)[n]
BY DEF Bit, Bits, IsBit

LEMMA BitsExist ==
  ASSUME NEW n \in Nat
  PROVE  IsBit(Bits(n), n)
<1> DEFINE S == {m \in Nat : \E g : IsBit(g, m)}
<1>1. 0 \in S
  <2>1. IsBit([k \in 0 .. 0 |-> 1], 0)
    BY DEF IsBit
  <2> QED
    BY <2>1
<1>2. ASSUME NEW m \in Nat, m \in S PROVE m + 1 \in S
  <2>1. PICK g : IsBit(g, m)
    BY <1>2
  <2> DEFINE h == [k \in 0 .. m + 1 |-> IF k = m + 1 THEN 2 * g[m] ELSE g[k]]
  <2>2. \A k \in 0 .. m : g[k] = IF k = 0 THEN 1 ELSE 2 * g[k - 1]
    BY <2>1 DEF IsBit
  <2>3. \A k \in 0 .. m + 1 : h[k] = IF k = 0 THEN 1 ELSE 2 * h[k - 1]
    BY <2>2
  <2>4. DOMAIN h = 0 .. m + 1 /\ h = [k \in DOMAIN h |-> h[k]]
    OBVIOUS
  <2> HIDE DEF h
  <2>5. h = [k \in 0 .. m + 1 |-> IF k = 0 THEN 1 ELSE 2 * h[k - 1]]
    BY <2>3, <2>4
  <2>6. IsBit(h, m + 1)
    BY <2>5 DEF IsBit
  <2> QED
    BY <2>6
<1> HIDE DEF S
<1>3. n \in S
  BY <1>1, <1>2, Induction
<1> QED
  BY <1>3 DEF S, Bits

LEMMA BitsAgree ==
  ASSUME NEW n \in Nat
  PROVE  \A k \in Nat : k <= n => Bits(n + 1)[k] = Bits(n)[k]
<1> DEFINE g == Bits(n)
           h == Bits(n + 1)
           S == {k \in Nat : k <= n => h[k] = g[k]}
<1>1. IsBit(g, n) /\ IsBit(h, n + 1)
  BY BitsExist
<1> HIDE DEF g, h
<1>2. \A k \in 0 .. n : g[k] = IF k = 0 THEN 1 ELSE 2 * g[k - 1]
  BY <1>1 DEF IsBit
<1>3. \A k \in 0 .. n + 1 : h[k] = IF k = 0 THEN 1 ELSE 2 * h[k - 1]
  BY <1>1 DEF IsBit
<1>4. 0 \in S
  BY <1>2, <1>3
<1>5. ASSUME NEW k \in Nat, k \in S PROVE k + 1 \in S
  <2> SUFFICES ASSUME k + 1 <= n PROVE h[k + 1] = g[k + 1]
    OBVIOUS
  <2>1. h[k] = g[k] /\ k + 1 - 1 = k /\ k + 1 # 0
    BY <1>5
  <2>2. h[k + 1] = 2 * h[k] /\ g[k + 1] = 2 * g[k]
    BY <1>2, <1>3, <2>1
  <2> QED
    BY <2>1, <2>2
<1> HIDE DEF S
<1>6. \A k \in Nat : k \in S
  BY <1>4, <1>5, Induction
<1> QED
  BY <1>6 DEF S, g, h

LEMMA BitUnfold ==
  /\ Bit(0) = 1
  /\ \A n \in Nat : Bit(n + 1) = 2 * Bit(n)
<1>1. Bit(0) = 1
  <2>1. IsBit(Bits(0), 0)
    BY BitsExist
  <2>2. Bits(0)[0] = 1
    BY <2>1 DEF IsBit
  <2> QED
    BY <2>2, BitOfBits
<1>2. ASSUME NEW n \in Nat PROVE Bit(n + 1) = 2 * Bit(n)
  <2>1. IsBit(Bits(n + 1), n + 1)
    BY BitsExist
  <2>2. Bits(n + 1)[n + 1] = 2 * Bits(n + 1)[n]
    BY <2>1 DEF IsBit
  <2>3. Bits(n + 1)[n] = Bits(n)[n]
    BY BitsAgree
  <2> QED
    BY <2>2, <2>3, BitOfBits
<1> QED
  BY <1>1, <1>2

LEMMA BitType == \A n \in Nat : Bit(n) \in Nat /\ Bit(n) >= 1
<1> DEFINE S == {n \in Nat : Bit(n) \in Nat /\ Bit(n) >= 1}
<1>1. 0 \in S
  BY BitUnfold
<1>2. ASSUME NEW n \in Nat, n \in S PROVE n + 1 \in S
  <2>1. Bit(n + 1) = 2 * Bit(n)
    BY BitUnfold
  <2> QED
    BY <1>2, <2>1
<1> HIDE DEF S
<1>3. \A n \in Nat : n \in S
  BY <1>1, <1>2, Induction
<1> QED
  BY <1>3 DEF S

LEMMA BitGrows ==
  ASSUME NEW m \in Nat
  PROVE  \A n \in Nat : m <= n => Bit(m) <= Bit(n)
<1> DEFINE S == {n \in Nat : m <= n => Bit(m) <= Bit(n)}
<1>0. Bit(m) \in Nat
  BY BitType
<1>1. 0 \in S
  BY <1>0
<1>2. ASSUME NEW n \in Nat, n \in S PROVE n + 1 \in S
  <2>1. Bit(n + 1) = 2 * Bit(n) /\ Bit(n) \in Nat
    BY BitUnfold, BitType
  <2>2. m <= n + 1 => m <= n \/ m = n + 1
    OBVIOUS
  <2> QED
    BY <1>0, <1>2, <2>1, <2>2
<1> HIDE DEF S
<1>3. \A n \in Nat : n \in S
  BY <1>1, <1>2, Induction
<1> QED
  BY <1>3 DEF S

LEMMA BitStrict ==
  ASSUME NEW m \in Nat, NEW n \in Nat, m < n
  PROVE  2 * Bit(m) <= Bit(n)
<1>1. Bit(m + 1) = 2 * Bit(m) /\ m + 1 \in Nat /\ m + 1 <= n
  BY BitUnfold
<1> QED
  BY <1>1, BitGrows

LEMMA BitSum ==
  ASSUME NEW m \in Nat
  PROVE  \A n \in Nat : Bit(m + n) = Bit(m) * Bit(n)
<1> DEFINE S == {n \in Nat : Bit(m + n) = Bit(m) * Bit(n)}
<1>0. Bit(m) \in Nat
  BY BitType
<1>1. 0 \in S
  BY <1>0, BitUnfold
<1>2. ASSUME NEW n \in Nat, n \in S PROVE n + 1 \in S
  <2>1. Bit(n + 1) = 2 * Bit(n) /\ Bit(n) \in Nat
    BY BitUnfold, BitType
  <2>2. m + (n + 1) = (m + n) + 1 /\ m + n \in Nat
    OBVIOUS
  <2>3. Bit(m + (n + 1)) = 2 * (Bit(m) * Bit(n))
    BY <1>2, <2>2, BitUnfold
  <2>4. 2 * (Bit(m) * Bit(n)) = Bit(m) * (2 * Bit(n))
    BY <1>0, <2>1
  <2> QED
    BY <2>1, <2>3, <2>4
<1> HIDE DEF S
<1>3. \A n \in Nat : n \in S
  BY <1>1, <1>2, Induction
<1> QED
  BY <1>3 DEF S

-----------------------------------------------------------------------------
(* Counting from the front.                                                *)

\* A set of the first numbers, with no gap, is as many as it holds.
LEMMA NoGap ==
  ASSUME NEW a \in Int, NEW n \in Nat, NEW S \in SUBSET (a .. a + n - 1),
         \A e \in S : \A d \in a .. a + n - 1 : d < e => d \in S
  PROVE  /\ Cardinality(S) \in 0 .. n
         /\ S = a .. a + Cardinality(S) - 1
<1> DEFINE B == {k \in Nat : k = n \/ a + k \notin S}
<1>1. PICK k \in B : \A j \in B : k <= j
  <2>1. n \in B /\ B \in SUBSET Nat
    OBVIOUS
  <2> HIDE DEF B
  <2> QED
    BY <2>1, LeastNat
<1>2. k \in 0 .. n /\ (k = n \/ a + k \notin S)
  <2>1. n \in B
    OBVIOUS
  <2> QED
    BY <1>1, <2>1
<1>3. ASSUME NEW e \in S PROVE e \in a .. a + k - 1
  <2>1. e \in a .. a + n - 1
    OBVIOUS
  <2>2. CASE e >= a + k
    <3>1. a + k \in a .. a + n - 1 /\ a + k \notin S
      BY <1>2, <2>1, <2>2
    <3>2. a + k < e
      BY <2>1, <2>2, <3>1
    <3> QED
      BY <3>1, <3>2
  <2> QED
    BY <1>2, <2>1, <2>2
<1>4. ASSUME NEW e \in a .. a + k - 1 PROVE e \in S
  <2>1. e - a \in Nat /\ e - a < k /\ a + (e - a) = e
    OBVIOUS
  <2>2. e - a \notin B
    <3> HIDE DEF B
    <3> QED
      BY <1>1, <1>2, <2>1
  <2> QED
    BY <2>1, <2>2
<1>5. S = a .. a + k - 1
  BY <1>3, <1>4
<1>6. Cardinality(a .. a + k - 1) = k
  BY <1>2, FS_Interval
<1> QED
  BY <1>2, <1>5, <1>6

-----------------------------------------------------------------------------
(* Division.                                                               *)

LEMMA Quotient ==
  ASSUME NEW a \in Nat, NEW c \in Nat, c >= 1
  PROVE  /\ a \div c \in Nat /\ a % c \in 0 .. c - 1
         /\ a = (a \div c) * c + (a % c)
<1>1. a \div c \in Int /\ a % c \in 0 .. c - 1 /\ a = c * (a \div c) + (a % c)
  BY SMT
<1>2. PICK q \in Int, r \in 0 .. c - 1 : q = a \div c /\ r = a % c /\ a = c * q + r
  BY <1>1
<1>3. q >= 0
  <2>1. CASE q <= -1
    <3>1. c * q <= -c
      BY <2>1
    <3> QED
      BY <1>2, <3>1
  <2> QED
    BY <2>1
<1>4. c * q = q * c
  OBVIOUS
<1> QED
  BY <1>2, <1>3, <1>4

\* Quotient and remainder are what they were built from.
LEMMA Division ==
  ASSUME NEW c \in Nat, c >= 1, NEW q \in Nat, NEW r \in 0 .. c - 1,
         NEW a, a = q * c + r
  PROVE  a \div c = q /\ a % c = r
<1>1. a \in Nat
  OBVIOUS
<1>2. PICK q2 \in Nat, r2 \in 0 .. c - 1 : q2 = a \div c /\ r2 = a % c /\ a = q2 * c + r2
  BY <1>1, Quotient
<1>4. (q - q2) * c = r2 - r
  BY <1>2, SMT
<1>5. CASE q - q2 >= 1
  <2>1. (q - q2) * c >= c
    BY <1>2, <1>5, SMT
  <2> QED
    BY <1>2, <1>4, <2>1, SMT
<1>6. CASE q - q2 <= -1
  <2>1. (q - q2) * c <= -c
    BY <1>2, <1>6, SMT
  <2> QED
    BY <1>2, <1>4, <2>1, SMT
<1>7. CASE q - q2 = 0
  <2>1. q = q2
    BY <1>2, <1>7
  <2>2. r = r2
    BY <1>2, <2>1
  <2> QED
    BY <1>2, <2>1, <2>2
<1> QED
  BY <1>2, <1>5, <1>6, <1>7

\* The factor is kept by an order.
LEMMA TimesGrows ==
  ASSUME NEW c \in Nat, NEW m \in Int, NEW n \in Int, m <= n
  PROVE  m * c <= n * c
<1>1. PICK d \in Nat : n = m + d
  <2>1. n - m \in Nat /\ n = m + (n - m)
    OBVIOUS
  <2> QED
    BY <2>1
<1>2. d * c \in Nat /\ n * c = m * c + d * c
  BY <1>1
<1> QED
  BY <1>2

-----------------------------------------------------------------------------
(* The layout.                                                             *)

\* What the constructor makes: the buckets are of a word, and the first one fits.
Fits(L) ==
  /\ L = [sub |-> L.sub, unit |-> L.unit, buckets |-> L.buckets]
  /\ L.sub \in Nat /\ L.sub >= 1 /\ L.unit \in Nat /\ L.buckets \in Nat /\ L.buckets >= 1
  /\ L.sub + L.unit < WordBits /\ L.sub + L.unit + L.buckets - 1 <= WordBits

\* The first value that a layout does not track.
Untracked(L) == Bit(L.sub + L.unit + L.buckets - 1)

LEMMA LayoutFits ==
  ASSUME NEW top \in Nat, NEW sub \in Nat, sub >= 1, NEW unit \in Nat, sub + unit < WordBits,
         NEW L, L = Layout(top, sub, unit)
  PROVE  /\ Fits(L) /\ L.sub = sub /\ L.unit = unit
         /\ top < Bit(WordBits) => top < Untracked(L)
<1> DEFINE S == {e \in sub + unit .. WordBits - 1 : Bit(e) <= top}
           m == sub + unit
           n == WordBits - m
<1>0. WordBits \in Nat
  BY WordAssumption
<1>1. m \in Nat /\ m \in Int /\ n \in Nat /\ S \in SUBSET (m .. m + n - 1)
  BY <1>0
<1>2. ASSUME NEW e \in S, NEW d \in m .. m + n - 1, d < e PROVE d \in S
  <2>1. e \in Nat /\ d \in Nat /\ Bit(e) <= top
    OBVIOUS
  <2>2. Bit(d) <= Bit(e) /\ Bit(d) \in Nat /\ Bit(e) \in Nat
    BY <1>2, <2>1, BitGrows, BitType
  <2>3. Bit(d) <= top
    BY <2>1, <2>2
  <2> QED
    BY <1>0, <2>3
<1>3. PICK k \in Nat : k = Cardinality(S) /\ k <= n /\ S = m .. m + k - 1
  <2> HIDE DEF S, m, n
  <2>1. \A e \in S : \A d \in m .. m + n - 1 : d < e => d \in S
    BY <1>2
  <2>2. Cardinality(S) \in 0 .. n /\ S = m .. m + Cardinality(S) - 1
    BY <1>1, <2>1, NoGap, Zenon
  <2>3. Cardinality(S) \in Nat /\ Cardinality(S) <= n
    BY <1>1, <2>2
  <2> QED
    BY <2>2, <2>3
<1>4. L = [sub |-> sub, unit |-> unit, buckets |-> 1 + k]
  BY <1>3 DEF Layout, LayoutWith
<1> HIDE DEF S
<1>5. L.sub = sub /\ L.unit = unit /\ L.buckets = 1 + k
  BY <1>4
<1>6. Fits(L)
  <2>1. sub + unit + (1 + k) - 1 <= WordBits
    BY <1>0, <1>3
  <2> QED
    BY <1>3, <1>4, <1>5, <2>1 DEF Fits
<1>7. ASSUME top < Bit(WordBits) PROVE top < Untracked(L)
  <2>1. Untracked(L) = Bit(m + k)
    <3>1. sub + unit + (1 + k) - 1 = m + k
      BY <1>3
    <3> QED
      BY <1>5, <3>1 DEF Untracked
  <2>2. CASE k = n
    <3>1. m + k = WordBits
      BY <1>0, <2>2
    <3> QED
      BY <1>7, <2>1, <3>1
  <2>3. CASE k < n
    <3>1. m + k \in m .. m + n - 1 /\ m + k \notin m .. m + k - 1
      BY <1>1, <1>3, <2>3
    <3>2. ~ (Bit(m + k) <= top)
      <4>1. m + k \notin S
        BY <1>3, <3>1
      <4>2. m + k \in sub + unit .. WordBits - 1
        BY <1>0, <2>3
      <4> QED
        BY <4>1, <4>2 DEF S
    <3>3. Bit(m + k) \in Nat
      <4>1. m + k \in Nat
        OBVIOUS
      <4> QED
        BY <4>1, BitType
    <3> QED
      BY <2>1, <3>2, <3>3
  <2> QED
    BY <1>1, <1>3, <2>2, <2>3
<1> QED
  BY <1>5, <1>6, <1>7

LEMMA Halves ==
  ASSUME NEW L, Fits(L)
  PROVE  /\ Half(L) \in Nat /\ Half(L) >= 1 /\ Bit(L.sub) = 2 * Half(L)
         /\ Size(L) = (L.buckets + 1) * Half(L) /\ Size(L) \in Nat /\ Size(L) >= 1
         /\ \A n \in Nat : Bit(L.sub - 1 + n) = Half(L) * Bit(n)
<1>1. L.sub - 1 \in Nat /\ L.sub - 1 + 1 = L.sub
  BY DEF Fits
<1>2. PICK h \in Nat : h = Half(L) /\ h >= 1
  BY <1>1, BitType DEF Half
<1>3. Bit(L.sub) = 2 * h
  BY <1>1, <1>2, BitUnfold DEF Half
<1>4. PICK n \in Nat : n = L.buckets + 1 /\ n >= 1
  BY DEF Fits
<1>5. n * h \in Nat /\ n * h >= h
  <2>1. 1 * h <= n * h
    BY <1>4, TimesGrows
  <2> QED
    BY <2>1
<1>6. Size(L) = n * h
  BY <1>2, <1>4 DEF Size
<1>7. \A j \in Nat : Bit(L.sub - 1 + j) = Bit(L.sub - 1) * Bit(j)
  BY <1>1, BitSum
<1> QED
  BY <1>2, <1>3, <1>4, <1>5, <1>6, <1>7 DEF Half

\* The bucket of an index: the first two halves are of bucket 0.
BucketOf(L, i) == IF i \div Half(L) = 0 THEN 0 ELSE i \div Half(L) - 1

Width(L, i) == Bit(BucketOf(L, i) + L.unit)

\* Where an index is, and its value.
LEMMA ValueAt ==
  ASSUME NEW L, Fits(L), NEW q \in Nat, NEW r \in 0 .. Half(L) - 1, NEW i, i = q * Half(L) + r
  PROVE  /\ i \in Nat
         /\ BucketOf(L, i) = IF q = 0 THEN 0 ELSE q - 1
         /\ ValueFromIndex(L, i) = IF q = 0 THEN r * Bit(L.unit)
                                            ELSE (r + Half(L)) * Bit(q - 1 + L.unit)
<1>1. Half(L) \in Nat /\ Half(L) >= 1
  BY Halves
<1>2. i \div Half(L) = q /\ i % Half(L) = r
  BY <1>1, Division
<1>3. i \in Nat
  BY <1>1
<1>4. BucketOf(L, i) = IF q = 0 THEN 0 ELSE q - 1
  BY <1>2 DEF BucketOf
<1>5. q - 1 < 0 <=> q = 0
  OBVIOUS
<1>6. ValueFromIndex(L, i) = IF q - 1 < 0 THEN r * Bit(L.unit) ELSE (r + Half(L)) * Bit(q - 1 + L.unit)
  BY <1>2 DEF ValueFromIndex
<1> QED
  BY <1>3, <1>4, <1>5, <1>6

LEMMA IndexParts ==
  ASSUME NEW L, Fits(L), NEW i \in Nat
  PROVE  \E q \in Nat : \E r \in 0 .. Half(L) - 1 : i = q * Half(L) + r
<1>1. Half(L) \in Nat /\ Half(L) >= 1
  BY Halves
<1>2. /\ i \div Half(L) \in Nat /\ i % Half(L) \in 0 .. Half(L) - 1
      /\ i = (i \div Half(L)) * Half(L) + (i % Half(L))
  BY <1>1, Quotient
<1> QED
  BY <1>2

\* The next index is of the value after the bucket's.
LEMMA NextValue ==
  ASSUME NEW L, Fits(L), NEW i \in Nat
  PROVE  /\ Width(L, i) \in Nat /\ Width(L, i) >= 1
         /\ ValueFromIndex(L, i) \in Nat
         /\ ValueFromIndex(L, i + 1) = ValueFromIndex(L, i) + Width(L, i)
<1>1. PICK h \in Nat : h = Half(L) /\ h >= 1
  BY Halves
<1>2. PICK q \in Nat, r \in 0 .. h - 1 : i = q * h + r
  BY <1>1, IndexParts
<1>3. L.unit \in Nat
  BY DEF Fits
<1>4. /\ BucketOf(L, i) = IF q = 0 THEN 0 ELSE q - 1
      /\ ValueFromIndex(L, i) = IF q = 0 THEN r * Bit(L.unit) ELSE (r + h) * Bit(q - 1 + L.unit)
  BY <1>1, <1>2, ValueAt
<1>5. PICK w \in Nat : w >= 1 /\ w = Width(L, i) /\ w = Bit(IF q = 0 THEN L.unit ELSE q - 1 + L.unit)
  <2>1. BucketOf(L, i) + L.unit = (IF q = 0 THEN L.unit ELSE q - 1 + L.unit)
    BY <1>3, <1>4
  <2>2. (IF q = 0 THEN L.unit ELSE q - 1 + L.unit) \in Nat
    BY <1>3
  <2> QED
    BY <2>1, <2>2, BitType DEF Width
<1>6. ValueFromIndex(L, i) = IF q = 0 THEN r * w ELSE (r + h) * w
  BY <1>4, <1>5
<1>7. CASE r + 1 < h
  <2>1. i + 1 = q * h + (r + 1) /\ r + 1 \in 0 .. h - 1
    BY <1>2, <1>7
  <2>2. ValueFromIndex(L, i + 1)
          = IF q = 0 THEN (r + 1) * Bit(L.unit) ELSE (r + 1 + h) * Bit(q - 1 + L.unit)
    BY <1>1, <2>1, ValueAt
  <2>3. ValueFromIndex(L, i + 1) = IF q = 0 THEN (r + 1) * w ELSE (r + 1 + h) * w
    BY <1>5, <2>2
  <2>4. (r + 1) * w = r * w + w /\ (r + 1 + h) * w = (r + h) * w + w
    BY <1>5
  <2>5. r * w \in Nat /\ (r + h) * w \in Nat
    BY <1>5
  <2> QED
    BY <1>5, <1>6, <2>3, <2>4, <2>5
<1>8. CASE r + 1 = h
  <2>1. i + 1 = (q + 1) * h + 0 /\ 0 \in 0 .. h - 1 /\ q + 1 \in Nat /\ q + 1 # 0 /\ q + 1 - 1 = q
    BY <1>1, <1>2, <1>8
  <2>2. ValueFromIndex(L, i + 1) = (0 + h) * Bit(q + L.unit)
    BY <1>1, <2>1, ValueAt
  <2>3. CASE q = 0
    <3>1. q + L.unit = L.unit
      BY <1>3, <2>3
    <3>2. ValueFromIndex(L, i + 1) = h * w
      BY <1>5, <2>2, <2>3, <3>1
    <3>3. h * w = r * w + w /\ r * w \in Nat
      BY <1>8
    <3> QED
      BY <1>5, <1>6, <2>3, <3>2, <3>3
  <2>4. CASE q # 0
    <3>1. Bit(q + L.unit) = 2 * w
      <4>1. q - 1 + L.unit \in Nat /\ (q - 1 + L.unit) + 1 = q + L.unit
        BY <1>3, <2>4
      <4> QED
        BY <1>5, <2>4, <4>1, BitUnfold
    <3>2. ValueFromIndex(L, i + 1) = h * (2 * w)
      BY <2>2, <3>1
    <3>3. h * (2 * w) = (r + h) * w + w /\ (r + h) * w \in Nat
      BY <1>8
    <3> QED
      BY <1>5, <1>6, <2>4, <3>2, <3>3
  <2> QED
    BY <2>3, <2>4
<1> QED
  BY <1>7, <1>8

LEMMA FirstValue ==
  ASSUME NEW L, Fits(L)
  PROVE  ValueFromIndex(L, 0) = 0
<1>1. PICK h \in Nat : h = Half(L) /\ h >= 1
  BY Halves
<1>2. 0 = 0 * h + 0 /\ 0 \in 0 .. h - 1
  BY <1>1
<1>3. ValueFromIndex(L, 0) = 0 * Bit(L.unit)
  BY <1>1, <1>2, ValueAt
<1>4. Bit(L.unit) \in Nat
  BY BitType DEF Fits
<1> QED
  BY <1>3, <1>4

LEMMA ValuesGrow ==
  ASSUME NEW L, Fits(L), NEW i \in Nat
  PROVE  \A j \in Nat : i <= j => ValueFromIndex(L, i) <= ValueFromIndex(L, j)
<1> DEFINE S == {j \in Nat : i <= j => ValueFromIndex(L, i) <= ValueFromIndex(L, j)}
<1>0. ValueFromIndex(L, i) \in Nat
  BY NextValue
<1>1. 0 \in S
  BY <1>0
<1>2. ASSUME NEW j \in Nat, j \in S PROVE j + 1 \in S
  <2>1. ValueFromIndex(L, j + 1) = ValueFromIndex(L, j) + Width(L, j)
        /\ Width(L, j) \in Nat /\ ValueFromIndex(L, j) \in Nat
    BY NextValue
  <2>2. i <= j + 1 => i <= j \/ i = j + 1
    OBVIOUS
  <2> QED
    BY <1>0, <1>2, <2>1, <2>2
<1> HIDE DEF S
<1>3. \A j \in Nat : j \in S
  BY <1>1, <1>2, Induction
<1> QED
  BY <1>3 DEF S

\* The table ends where the first value that is not tracked would be.
LEMMA LastValue ==
  ASSUME NEW L, Fits(L)
  PROVE  ValueFromIndex(L, Size(L)) = Untracked(L)
<1>1. PICK h \in Nat : h = Half(L) /\ h >= 1
  BY Halves
<1>2. PICK n \in Nat : n = L.buckets + 1 /\ n >= 2 /\ L.unit \in Nat /\ L.sub \in Nat /\ L.buckets \in Nat
  BY DEF Fits
<1>3. Size(L) = n * h + 0 /\ 0 \in 0 .. h - 1 /\ n # 0
  BY <1>1, <1>2, Halves
<1>4. ValueFromIndex(L, Size(L)) = (0 + h) * Bit(n - 1 + L.unit)
  BY <1>1, <1>3, ValueAt
<1>5. n - 1 + L.unit \in Nat /\ L.sub - 1 + (n - 1 + L.unit) = L.sub + L.unit + L.buckets - 1
  BY <1>2
<1>6. Bit(L.sub - 1 + (n - 1 + L.unit)) = h * Bit(n - 1 + L.unit)
  BY <1>1, <1>5, Halves
<1> QED
  BY <1>1, <1>4, <1>5, <1>6 DEF Untracked

LEMMA BitLengthIs ==
  ASSUME NEW v \in Nat, v >= 1
  PROVE  /\ BitLength(v) \in 1 .. WordBits
         /\ Bit(BitLength(v) - 1) <= v
         /\ v < Bit(WordBits) => v < Bit(BitLength(v))
         /\ v >= Bit(WordBits) => BitLength(v) = WordBits
<1> DEFINE S == {e \in 0 .. WordBits - 1 : Bit(e) <= v}
<1>0. WordBits \in Nat /\ WordBits >= 1
  BY WordAssumption
<1>1. 0 \in Int /\ S \in SUBSET (0 .. 0 + WordBits - 1)
  BY <1>0
<1>2. ASSUME NEW e \in S, NEW d \in 0 .. 0 + WordBits - 1, d < e PROVE d \in S
  <2>1. e \in Nat /\ d \in Nat /\ Bit(e) <= v
    BY <1>0
  <2>2. Bit(d) <= Bit(e) /\ Bit(d) \in Nat /\ Bit(e) \in Nat
    BY <1>2, <2>1, BitGrows, BitType
  <2>3. Bit(d) <= v
    BY <2>1, <2>2
  <2> QED
    BY <1>0, <2>3
<1>3. PICK k \in Nat : k = BitLength(v) /\ k <= WordBits /\ S = 0 .. k - 1
  <2>0. BitLength(v) = Cardinality(S)
    BY DEF BitLength
  <2> HIDE DEF S
  <2>1. \A e \in S : \A d \in 0 .. 0 + WordBits - 1 : d < e => d \in S
    BY <1>2
  <2>2. Cardinality(S) \in 0 .. WordBits /\ S = 0 .. 0 + Cardinality(S) - 1
    BY <1>0, <1>1, <2>1, NoGap, Zenon
  <2>3. Cardinality(S) \in Nat /\ Cardinality(S) <= WordBits /\ 0 + Cardinality(S) - 1 = Cardinality(S) - 1
    BY <1>0, <2>2
  <2> QED
    BY <2>0, <2>2, <2>3
<1>4. k >= 1
  <2>1. 0 \in S
    BY <1>0, BitUnfold
  <2> HIDE DEF S
  <2> QED
    BY <1>3, <2>1
<1>5. Bit(k - 1) <= v
  <2>1. k - 1 \in S
    <3> HIDE DEF S
    <3> QED
      BY <1>3, <1>4
  <2> QED
    BY <2>1
<1>6. ASSUME k < WordBits PROVE v < Bit(k)
  <2>1. k \notin S
    <3> HIDE DEF S
    <3> QED
      BY <1>3
  <2>2. Bit(k) \in Nat
    BY <1>3, BitType
  <2> QED
    BY <1>0, <1>3, <1>6, <2>1, <2>2
<1>7. ASSUME v >= Bit(WordBits) PROVE k = WordBits
  <2>1. CASE k < WordBits
    <3>1. Bit(k) <= Bit(WordBits) /\ Bit(k) \in Nat /\ Bit(WordBits) \in Nat
      BY <1>0, <1>3, <2>1, BitGrows, BitType
    <3> QED
      BY <1>6, <1>7, <2>1, <3>1
  <2> QED
    BY <1>0, <1>3, <2>1
<1>8. k = WordBits \/ k < WordBits
  BY <1>0, <1>3
<1>9. v < Bit(WordBits) => v < Bit(k)
  BY <1>6, <1>8
<1>10. k \in 1 .. WordBits
  BY <1>0, <1>3, <1>4
<1> QED
  BY <1>3, <1>5, <1>7, <1>9, <1>10

\* The sub-bucket of a value: where it is among the buckets, and how wide they are.
LEMMA SubBucket ==
  ASSUME NEW L, Fits(L), NEW v \in Nat
  PROVE  \E b \in Nat, q \in Nat, w \in Nat :
           /\ BucketIndex(L, v) = b /\ w = Bit(b + L.unit) /\ w >= 1
           /\ q = v \div w /\ q * w <= v /\ v < (q + 1) * w
           /\ CountsIndex(L, v) = b * Half(L) + q
           /\ b = 0 => w = Bit(L.unit)
           /\ b >= 1 => q >= Half(L)
           /\ v < Bit(WordBits) => q < 2 * Half(L)
           /\ v >= Bit(WordBits) => b = WordBits - (L.sub + L.unit) /\ q >= 2 * Half(L)
<1>1. PICK h \in Nat : h = Half(L) /\ h >= 1
  BY Halves
<1>2. PICK m \in Nat : m = L.sub + L.unit /\ m < WordBits /\ L.unit \in Nat /\ L.sub \in Nat /\ L.sub >= 1
  BY DEF Fits
<1>3. PICK b \in Nat : /\ BucketIndex(L, v) = b
                       /\ b = IF v < Bit(m) THEN 0 ELSE BitLength(v) - m
                       /\ v < Bit(WordBits) => v < Bit(m + b)
                       /\ b >= 1 => Bit(m + b - 1) <= v
                       /\ v >= Bit(WordBits) => b = WordBits - m
  <2>0. WordBits \in Nat /\ Bit(m) \in Nat /\ Bit(m) >= 1 /\ Bit(WordBits) \in Nat
        /\ Bit(m) <= Bit(WordBits)
    BY <1>2, BitType, BitGrows, WordAssumption
  <2>1. BucketIndex(L, v) = IF v < Bit(m) THEN 0 ELSE BitLength(v) - m
    BY <1>2 DEF BucketIndex
  <2>2. CASE v < Bit(m)
    <3>1. m + 0 = m /\ 0 \in Nat /\ ~ (v >= Bit(WordBits)) /\ ~ (0 >= 1)
      BY <2>0, <2>2
    <3> QED
      BY <2>1, <2>2, <3>1
  <2>3. CASE ~ (v < Bit(m))
    <3>1. v >= 1
      BY <2>0, <2>3
    <3>2. PICK k \in 1 .. WordBits :
            /\ k = BitLength(v) /\ Bit(k - 1) <= v
            /\ v < Bit(WordBits) => v < Bit(k)
            /\ v >= Bit(WordBits) => k = WordBits
      BY <3>1, BitLengthIs
    <3>3. k >= m
      <4>1. CASE k < m
        <5>1. Bit(k) <= Bit(m) /\ Bit(k) \in Nat
          BY <1>2, <2>0, <3>2, <4>1, BitGrows, BitType
        <5>2. v < Bit(WordBits)
          <6>1. k # WordBits
            BY <1>2, <2>0, <4>1
          <6> QED
            BY <2>0, <3>2, <6>1
        <5> QED
          BY <2>0, <2>3, <3>2, <5>1, <5>2
      <4> QED
        BY <1>2, <2>0, <4>1
    <3>4. k - m \in Nat /\ m + (k - m) = k /\ m + (k - m) - 1 = k - 1
      BY <1>2, <2>0, <3>3
    <3> QED
      BY <2>1, <2>3, <3>2, <3>4
  <2> QED
    BY <2>2, <2>3
<1>4. PICK w \in Nat : w = Bit(b + L.unit) /\ w >= 1
  <2>1. b + L.unit \in Nat
    BY <1>2
  <2> QED
    BY <2>1, BitType
<1>5. PICK q \in Nat : q = v \div w /\ q * w <= v /\ v < (q + 1) * w
  <2>1. v \div w \in Nat /\ v % w \in 0 .. w - 1 /\ v = (v \div w) * w + (v % w)
    BY <1>4, Quotient
  <2>2. PICK q \in Nat, r \in 0 .. w - 1 : q = v \div w /\ v = q * w + r
    BY <2>1
  <2>3. q * w \in Nat /\ (q + 1) * w = q * w + w
    BY <1>4
  <2>4. q * w <= v /\ v < (q + 1) * w
    BY <1>4, <2>2, <2>3
  <2> QED
    BY <2>2, <2>4
<1>6. CountsIndex(L, v) = b * h + q
  <2>1. CountsIndex(L, v) = (b + 1) * h + q - h
    BY <1>1, <1>3, <1>4, <1>5 DEF CountsIndex
  <2> QED
    BY <2>1
<1>7. Bit(m + b) = (2 * h) * w
  <2>1. L.sub + (b + L.unit) = m + b /\ b + L.unit \in Nat
    BY <1>2
  <2>2. Bit(L.sub + (b + L.unit)) = Bit(L.sub) * Bit(b + L.unit)
    BY <1>2, <2>1, BitSum
  <2>3. Bit(L.sub) = 2 * h
    BY <1>1, Halves
  <2> QED
    BY <1>4, <2>1, <2>2, <2>3
<1>8. ASSUME b >= 1 PROVE q >= h
  <2>1. L.sub - 1 + (b + L.unit) = m + b - 1 /\ b + L.unit \in Nat
    BY <1>2
  <2>2. Bit(m + b - 1) = h * w
    BY <1>1, <1>4, <2>1, Halves
  <2>3. h * w <= v
    BY <1>3, <1>8, <2>2
  <2>4. CASE q + 1 <= h
    <3>1. (q + 1) * w <= h * w
      BY <2>4, TimesGrows
    <3>2. (q + 1) * w \in Int /\ h * w \in Int
      OBVIOUS
    <3> QED
      BY <1>5, <2>3, <3>1, <3>2
  <2> QED
    BY <2>4
<1>9. ASSUME v < Bit(WordBits) PROVE q < 2 * h
  <2>1. v < (2 * h) * w
    BY <1>3, <1>7, <1>9
  <2>2. CASE 2 * h <= q
    <3>1. (2 * h) * w <= q * w
      BY <2>2, TimesGrows
    <3>2. (2 * h) * w \in Int /\ q * w \in Int
      OBVIOUS
    <3> QED
      BY <1>5, <2>1, <3>1, <3>2
  <2> QED
    BY <2>2
<1>10. ASSUME v >= Bit(WordBits) PROVE b = WordBits - m /\ q >= 2 * h
  <2>1. b = WordBits - m /\ m + b = WordBits
    BY <1>2, <1>3, <1>10, WordAssumption
  <2>2. (2 * h) * w <= v
    BY <1>7, <1>10, <2>1
  <2>3. CASE q + 1 <= 2 * h
    <3>1. (q + 1) * w <= (2 * h) * w
      BY <2>3, TimesGrows
    <3>2. (q + 1) * w \in Int /\ (2 * h) * w \in Int
      OBVIOUS
    <3> QED
      BY <1>5, <2>2, <3>1, <3>2
  <2> QED
    BY <2>1, <2>3
<1>11. b = 0 => w = Bit(L.unit)
  <2>1. 0 + L.unit = L.unit
    BY <1>2
  <2> QED
    BY <1>4, <2>1
<1> QED
  BY <1>1, <1>2, <1>3, <1>4, <1>5, <1>6, <1>8, <1>9, <1>10, <1>11

LEMMA IndexOfValue ==
  ASSUME NEW L, Fits(L), NEW v \in Nat, v < Bit(WordBits), NEW i, i = CountsIndex(L, v)
  PROVE  /\ i \in Nat
         /\ ValueFromIndex(L, i) <= v /\ v < ValueFromIndex(L, i + 1)
         /\ BucketIndex(L, v) = BucketOf(L, i)
<1>1. PICK h \in Nat : h = Half(L) /\ h >= 1
  BY Halves
<1>2. PICK b \in Nat, q \in Nat, w \in Nat :
           /\ BucketIndex(L, v) = b /\ w = Bit(b + L.unit) /\ w >= 1
           /\ q * w <= v /\ v < (q + 1) * w
           /\ i = b * h + q
           /\ b = 0 => w = Bit(L.unit)
           /\ b >= 1 => q >= h
           /\ q < 2 * h
  BY <1>1, SubBucket
<1>3. i \in Nat /\ BucketOf(L, i) = b /\ ValueFromIndex(L, i) = q * w
  <2>1. CASE b = 0 /\ q < h
    <3>1. q \in 0 .. h - 1 /\ i = 0 * h + q
      BY <1>1, <1>2, <2>1
    <3>2. i \in Nat /\ BucketOf(L, i) = 0 /\ ValueFromIndex(L, i) = q * Bit(L.unit)
      BY <1>1, <3>1, ValueAt
    <3> QED
      BY <1>2, <2>1, <3>2
  <2>2. CASE q >= h
    <3>1. PICK n \in Nat : n = b + 1 /\ n # 0 /\ n - 1 = b
      OBVIOUS
    <3>2. PICK r \in 0 .. h - 1 : r = q - h /\ r + h = q
      BY <1>1, <1>2, <2>2
    <3>3. i = n * h + r
      BY <1>2, <3>1, <3>2
    <3>4. i \in Nat /\ BucketOf(L, i) = b /\ ValueFromIndex(L, i) = (r + h) * Bit(b + L.unit)
      BY <1>1, <3>1, <3>3, ValueAt
    <3> QED
      BY <1>2, <3>2, <3>4
  <2> QED
    BY <1>1, <1>2, <2>1, <2>2
<1>4. ValueFromIndex(L, i + 1) = q * w + w
  <2>1. ValueFromIndex(L, i + 1) = ValueFromIndex(L, i) + Width(L, i)
    BY <1>3, NextValue
  <2>2. Width(L, i) = w
    BY <1>2, <1>3 DEF Width
  <2> QED
    BY <1>3, <2>1, <2>2
<1>5. (q + 1) * w = q * w + w
  OBVIOUS
<1> QED
  BY <1>2, <1>3, <1>4, <1>5

\* A value is in one bucket only.
LEMMA IndexIs ==
  ASSUME NEW L, Fits(L), NEW v \in Nat, v < Bit(WordBits), NEW i \in Nat,
         ValueFromIndex(L, i) <= v, v < ValueFromIndex(L, i + 1)
  PROVE  CountsIndex(L, v) = i
<1>1. PICK j : j = CountsIndex(L, v)
  OBVIOUS
<1>2. j \in Nat /\ ValueFromIndex(L, j) <= v /\ v < ValueFromIndex(L, j + 1)
  BY <1>1, IndexOfValue
<1>3. /\ ValueFromIndex(L, i) \in Nat /\ ValueFromIndex(L, i + 1) \in Nat
      /\ ValueFromIndex(L, j) \in Nat /\ ValueFromIndex(L, j + 1) \in Nat
  BY <1>2, NextValue
<1>4. CASE i < j
  <2>1. ValueFromIndex(L, i + 1) <= ValueFromIndex(L, j)
    BY <1>2, <1>4, ValuesGrow
  <2> QED
    BY <1>2, <1>3, <2>1
<1>5. CASE j < i
  <2>1. ValueFromIndex(L, j + 1) <= ValueFromIndex(L, i)
    BY <1>2, <1>5, ValuesGrow
  <2> QED
    BY <1>2, <1>3, <2>1
<1> QED
  BY <1>1, <1>2, <1>4, <1>5

LEMMA BeyondTheWord ==
  ASSUME NEW L, Fits(L), NEW v \in Nat, v >= Bit(WordBits)
  PROVE  CountsIndex(L, v) \in Nat /\ CountsIndex(L, v) >= Size(L)
<1>1. PICK h \in Nat : h = Half(L) /\ h >= 1
  BY Halves
<1>2. PICK b \in Nat, q \in Nat : /\ CountsIndex(L, v) = b * h + q
                                  /\ b = WordBits - (L.sub + L.unit) /\ q >= 2 * h
  BY <1>1, SubBucket
<1>3. PICK n \in Nat : n = L.buckets + 1 /\ n <= b + 2
  BY <1>2, WordAssumption DEF Fits
<1>4. Size(L) = n * h
  BY <1>1, <1>3, Halves
<1>5. n * h <= (b + 2) * h
  BY <1>3, TimesGrows
<1>6. (b + 2) * h = b * h + 2 * h /\ b * h \in Nat /\ n * h \in Nat
  BY <1>1
<1> QED
  BY <1>2, <1>4, <1>5, <1>6

\* What is out of range is what the layout does not track, and the buckets partition
\* the rest.
LEMMA IndexRange ==
  ASSUME NEW L, Fits(L), NEW v \in Nat
  PROVE  /\ CountsIndex(L, v) \in Nat
         /\ CountsIndex(L, v) \in Indices(L) <=> v < Untracked(L)
         /\ \A i \in Indices(L) :
              v < Untracked(L) =>
                (CountsIndex(L, v) = i
                   <=> ValueFromIndex(L, i) <= v /\ v < ValueFromIndex(L, i + 1))
<1>1. PICK s \in Nat : s = Size(L) /\ s >= 1 /\ Indices(L) = 0 .. s - 1
  BY Halves DEF Indices
<1>2. PICK top \in Nat : top = Untracked(L) /\ top = ValueFromIndex(L, s) /\ top <= Bit(WordBits)
  <2>1. L.sub + L.unit + L.buckets - 1 \in Nat /\ L.sub + L.unit + L.buckets - 1 <= WordBits
        /\ WordBits \in Nat
    BY WordAssumption DEF Fits
  <2> QED
    BY <1>1, <2>1, BitType, BitGrows, LastValue DEF Untracked
<1>3. Bit(WordBits) \in Nat
  BY BitType, WordAssumption
<1>4. CASE v >= Bit(WordBits)
  BY <1>1, <1>2, <1>3, <1>4, BeyondTheWord
<1>5. CASE v < Bit(WordBits)
  <2>1. PICK j \in Nat : /\ j = CountsIndex(L, v)
                         /\ ValueFromIndex(L, j) <= v /\ v < ValueFromIndex(L, j + 1)
    BY <1>5, IndexOfValue
  <2>2. ValueFromIndex(L, j) \in Nat /\ ValueFromIndex(L, j + 1) \in Nat
    BY NextValue
  <2>3. j < s => v < top
    <3>1. CASE j < s
      <4>1. ValueFromIndex(L, j + 1) <= top
        BY <1>1, <1>2, <3>1, ValuesGrow
      <4> QED
        BY <1>2, <2>1, <2>2, <4>1
    <3> QED
      BY <3>1
  <2>4. j >= s => v >= top
    <3>1. CASE j >= s
      <4>1. top <= ValueFromIndex(L, j)
        BY <1>1, <1>2, <3>1, ValuesGrow
      <4> QED
        BY <1>2, <2>1, <2>2, <4>1
    <3> QED
      BY <3>1
  <2>5. j \in Indices(L) <=> v < top
    BY <1>1, <1>2, <2>3, <2>4
  <2>6. ASSUME NEW i \in Indices(L), ValueFromIndex(L, i) <= v, v < ValueFromIndex(L, i + 1)
        PROVE  CountsIndex(L, v) = i
    BY <1>1, <1>5, <2>6, IndexIs
  <2> QED
    BY <1>2, <2>1, <2>5, <2>6
<1> QED
  BY <1>3, <1>4, <1>5

\* A bucket's lowest value is in it, and its range is the bucket.
LEMMA RangeOfBucket ==
  ASSUME NEW L, Fits(L), NEW i \in Indices(L)
  PROVE  /\ i \in Nat
         /\ ValueFromIndex(L, i) < Untracked(L) /\ Untracked(L) \in Nat
         /\ Untracked(L) <= Bit(WordBits)
         /\ CountsIndex(L, ValueFromIndex(L, i)) = i
         /\ EquivalentRange(L, ValueFromIndex(L, i)) = Width(L, i)
         /\ HighestEquivalent(L, ValueFromIndex(L, i)) = ValueFromIndex(L, i + 1) - 1
<1>1. PICK s \in Nat : s = Size(L) /\ s >= 1 /\ Indices(L) = 0 .. s - 1
  BY Halves DEF Indices
<1>2. PICK top \in Nat : top = Untracked(L) /\ top = ValueFromIndex(L, s) /\ top <= Bit(WordBits)
  <2>1. L.sub + L.unit + L.buckets - 1 \in Nat /\ L.sub + L.unit + L.buckets - 1 <= WordBits
        /\ WordBits \in Nat
    BY WordAssumption DEF Fits
  <2> QED
    BY <1>1, <2>1, BitType, BitGrows, LastValue DEF Untracked
<1>3. i \in Nat /\ i + 1 \in Nat /\ i + 1 <= s
  BY <1>1
<1>4. PICK v \in Nat : v = ValueFromIndex(L, i)
  BY <1>3, NextValue
<1>5. /\ Width(L, i) \in Nat /\ Width(L, i) >= 1
      /\ ValueFromIndex(L, i + 1) = v + Width(L, i)
  BY <1>3, <1>4, NextValue
<1>6. ValueFromIndex(L, i + 1) <= top
  BY <1>1, <1>2, <1>3, ValuesGrow
<1>7. v < top /\ v < Bit(WordBits) /\ v < ValueFromIndex(L, i + 1)
  <2>1. Bit(WordBits) \in Nat
    BY BitType, WordAssumption
  <2> QED
    BY <1>2, <1>5, <1>6, <2>1
<1>8. CountsIndex(L, v) = i
  BY <1>3, <1>4, <1>7, IndexIs
<1>9. BucketIndex(L, v) = BucketOf(L, i) /\ BucketOf(L, i) \in Nat
  <2>1. BucketIndex(L, v) = BucketOf(L, i)
    BY <1>7, <1>8, IndexOfValue
  <2>2. BucketIndex(L, v) \in Nat
    BY SubBucket
  <2> QED
    BY <2>1, <2>2
<1>10. EquivalentRange(L, v) = Width(L, i)
  <2>1. L.unit + BucketIndex(L, v) = BucketOf(L, i) + L.unit
    BY <1>9 DEF Fits
  <2> QED
    BY <2>1 DEF EquivalentRange, Width
<1>11. HighestEquivalent(L, v) = v + Width(L, i) - 1
  BY <1>10 DEF HighestEquivalent
<1> QED
  BY <1>2, <1>3, <1>4, <1>5, <1>7, <1>8, <1>10, <1>11

\* A bucket is one unit wide, or a small part of its values.
LEMMA Resolution ==
  ASSUME NEW L, Fits(L), NEW i \in Nat
  PROVE  Width(L, i) = Bit(L.unit) \/ Half(L) * Width(L, i) <= ValueFromIndex(L, i)
<1>1. PICK h \in Nat : h = Half(L) /\ h >= 1
  BY Halves
<1>2. PICK q \in Nat, r \in 0 .. h - 1 : i = q * h + r
  BY <1>1, IndexParts
<1>3. /\ BucketOf(L, i) = IF q = 0 THEN 0 ELSE q - 1
      /\ ValueFromIndex(L, i) = IF q = 0 THEN r * Bit(L.unit) ELSE (r + h) * Bit(q - 1 + L.unit)
  BY <1>1, <1>2, ValueAt
<1>4. L.unit \in Nat /\ 0 + L.unit = L.unit
  BY DEF Fits
<1>5. CASE q <= 1
  <2>1. BucketOf(L, i) = 0
    BY <1>3, <1>5
  <2> QED
    BY <1>4, <2>1 DEF Width
<1>6. CASE q >= 2
  <2>1. q - 1 + L.unit \in Nat /\ BucketOf(L, i) = q - 1 /\ ValueFromIndex(L, i) = (r + h) * Bit(q - 1 + L.unit)
    BY <1>3, <1>4, <1>6
  <2>2. PICK w \in Nat : w = Width(L, i) /\ w = Bit(q - 1 + L.unit)
    BY <2>1, BitType DEF Width
  <2>3. h * w <= (r + h) * w
    BY <1>1, TimesGrows
  <2> QED
    BY <1>1, <2>1, <2>2, <2>3
<1> QED
  BY <1>5, <1>6

\* The table is exact whatever the layout and the width of a word.
LEMMA IndexIsExact == IndexExact
<1> SUFFICES ASSUME NEW sub \in 1 .. 3, NEW unit \in 0 .. 2, NEW top \in Word,
                    sub + unit < WordBits,
                    NEW L, L = Layout(top, sub, unit)
             PROVE  LET Low == [i \in Indices(L) |-> ValueFromIndex(L, i)]
                    IN  /\ \A i \in Indices(L) : CountsIndex(L, Low[i]) = i
                        /\ \A v \in Word :
                             LET i == CountsIndex(L, v)
                             IN  /\ v <= top => i \in Indices(L)
                                 /\ i \in Indices(L) =>
                                      Low[i] <= v /\ v <= HighestEquivalent(L, Low[i])
  BY DEF IndexExact
<1>1. Bit(WordBits) \in Nat /\ Word = 0 .. Bit(WordBits) - 1
  BY BitType, WordAssumption DEF Word
<1>2. top \in Nat /\ top < Bit(WordBits) /\ sub \in Nat /\ sub >= 1 /\ unit \in Nat
  BY <1>1
<1>3. Fits(L) /\ top < Untracked(L)
  BY <1>2, LayoutFits
<1>4. \A i \in Indices(L) : CountsIndex(L, ValueFromIndex(L, i)) = i
  BY <1>3, RangeOfBucket
<1>5. ASSUME NEW v \in Word, NEW i, i = CountsIndex(L, v)
      PROVE  /\ v <= top => i \in Indices(L)
             /\ i \in Indices(L) =>
                  ValueFromIndex(L, i) <= v /\ v <= HighestEquivalent(L, ValueFromIndex(L, i))
  <2>1. v \in Nat /\ v < Bit(WordBits)
    BY <1>1
  <2>2. i \in Indices(L) <=> v < Untracked(L)
    BY <1>3, <1>5, <2>1, IndexRange
  <2>3. v <= top => i \in Indices(L)
    <3>1. Untracked(L) \in Nat
      <4>1. L.sub + L.unit + L.buckets - 1 \in Nat
        BY <1>3 DEF Fits
      <4> QED
        BY <4>1, BitType DEF Untracked
    <3> QED
      BY <1>2, <1>3, <2>1, <2>2, <3>1
  <2>4. ASSUME i \in Indices(L)
        PROVE  ValueFromIndex(L, i) <= v /\ v <= HighestEquivalent(L, ValueFromIndex(L, i))
    <3>1. i \in Nat /\ ValueFromIndex(L, i) <= v /\ v < ValueFromIndex(L, i + 1)
      BY <1>3, <1>5, <2>1, IndexOfValue
    <3>2. HighestEquivalent(L, ValueFromIndex(L, i)) = ValueFromIndex(L, i + 1) - 1
      BY <1>3, <2>4, RangeOfBucket
    <3>3. ValueFromIndex(L, i + 1) \in Nat
      BY <1>3, <3>1, NextValue
    <3> QED
      BY <2>1, <3>1, <3>2, <3>3
  <2> QED
    BY <2>3, <2>4
<1> QED
  BY <1>4, <1>5

-----------------------------------------------------------------------------
(* Recording.                                                              *)

\* The histogram h counts the samples S, of values w.
TrackedOf(L, S, w) == {s \in S : w[s] < Untracked(L)}

InBucket(L, S, w, i) == {s \in TrackedOf(L, S, w) : CountsIndex(L, w[s]) = i}

CountsOf(L, h, S, w) ==
  /\ h.counts \in [Indices(L) -> Nat]
  /\ \A i \in Indices(L) : h.counts[i] = Cardinality(InBucket(L, S, w, i))

ExtremesOf(L, h, S, w) ==
  /\ h.max \in Nat /\ h.min \in Nat
  /\ \A s \in TrackedOf(L, S, w) : h.min <= w[s] /\ w[s] <= h.max
  /\ TrackedOf(L, S, w) = {} => h.max = 0 /\ h.min = 0
  /\ TrackedOf(L, S, w) # {} => \E s, t \in TrackedOf(L, S, w) : w[s] = h.max /\ w[t] = h.min

HistogramOf(L, h, S, w) ==
  /\ h = [counts |-> h.counts, total |-> h.total, overflow |-> h.overflow,
          min |-> h.min, max |-> h.max]
  /\ CountsOf(L, h, S, w)
  /\ h.total = Cardinality(TrackedOf(L, S, w))
  /\ h.overflow = Cardinality(S \ TrackedOf(L, S, w))
  /\ ExtremesOf(L, h, S, w)

LEMMA NothingRecorded ==
  ASSUME NEW L, NEW w
  PROVE  HistogramOf(L, NewHistogram(L), {}, w)
<1>1. TrackedOf(L, {}, w) = {} /\ {} \ TrackedOf(L, {}, w) = {} /\ \A i : InBucket(L, {}, w, i) = {}
  BY DEF TrackedOf, InBucket
<1>2. Cardinality({}) = 0
  BY FS_EmptySet
<1>3. PICK h : h = NewHistogram(L)
  OBVIOUS
<1>4. /\ h = [counts |-> h.counts, total |-> h.total, overflow |-> h.overflow,
              min |-> h.min, max |-> h.max]
      /\ h.counts \in [Indices(L) -> Nat] /\ \A i \in Indices(L) : h.counts[i] = 0
      /\ h.total = 0 /\ h.overflow = 0 /\ h.min = 0 /\ h.max = 0
  BY <1>3 DEF NewHistogram
<1> QED
  BY <1>1, <1>2, <1>3, <1>4 DEF HistogramOf, CountsOf, ExtremesOf

\* The records that Record makes.
LEMMA RecordFields ==
  ASSUME NEW L, NEW h, NEW v,
         h = [counts |-> h.counts, total |-> h.total, overflow |-> h.overflow,
              min |-> h.min, max |-> h.max],
         NEW i, i = CountsIndex(L, v), NEW g, g = Record(L, h, v)
  PROVE  /\ g = [counts |-> g.counts, total |-> g.total, overflow |-> g.overflow,
                 min |-> g.min, max |-> g.max]
         /\ i \notin Indices(L) =>
              /\ g.counts = h.counts /\ g.total = h.total /\ g.overflow = h.overflow + 1
              /\ g.min = h.min /\ g.max = h.max
         /\ i \in Indices(L) =>
              /\ g.counts = [h.counts EXCEPT ![i] = @ + 1]
              /\ g.total = h.total + 1 /\ g.overflow = h.overflow
              /\ g.max = (IF v > h.max THEN v ELSE h.max)
              /\ g.min = (IF h.total = 0 \/ v < h.min THEN v ELSE h.min)
<1>1. CASE i \notin Indices(L)
  BY <1>1 DEF Record
<1>2. CASE i \in Indices(L)
  <2>1. g = [h EXCEPT !.counts = [h.counts EXCEPT ![i] = @ + 1],
                      !.total = h.total + 1,
                      !.max = IF v > h.max THEN v ELSE h.max,
                      !.min = IF h.total = 0 \/ v < h.min THEN v ELSE h.min]
    BY <1>2 DEF Record
  <2> QED
    BY <1>2, <2>1
<1> QED
  BY <1>1, <1>2

\* The sets of the samples with one more.
GrownBy(L, S, w, x, u) ==
  /\ TrackedOf(L, S \cup {x}, u)
       = IF u[x] < Untracked(L) THEN TrackedOf(L, S, w) \cup {x} ELSE TrackedOf(L, S, w)
  /\ x \notin TrackedOf(L, S, w)
  /\ \A s \in TrackedOf(L, S, w) : u[s] = w[s]
  /\ \A j : /\ x \notin InBucket(L, S, w, j)
            /\ InBucket(L, S \cup {x}, u, j)
                 = IF u[x] < Untracked(L) /\ CountsIndex(L, u[x]) = j
                     THEN InBucket(L, S, w, j) \cup {x} ELSE InBucket(L, S, w, j)

LEMMA OneMoreSample ==
  ASSUME NEW L, NEW S, NEW w, NEW x, x \notin S, NEW u, \A s \in S : u[s] = w[s]
  PROVE  GrownBy(L, S, w, x, u)
<1>1. /\ TrackedOf(L, S \cup {x}, u)
           = IF u[x] < Untracked(L) THEN TrackedOf(L, S, w) \cup {x} ELSE TrackedOf(L, S, w)
      /\ x \notin TrackedOf(L, S, w)
      /\ \A s \in TrackedOf(L, S, w) : u[s] = w[s]
  BY DEF TrackedOf
<1>2. ASSUME NEW j
      PROVE  /\ x \notin InBucket(L, S, w, j)
             /\ InBucket(L, S \cup {x}, u, j)
                  = IF u[x] < Untracked(L) /\ CountsIndex(L, u[x]) = j
                      THEN InBucket(L, S, w, j) \cup {x} ELSE InBucket(L, S, w, j)
  BY <1>1 DEF InBucket
<1> QED
  BY <1>1, <1>2 DEF GrownBy

LEMMA FiniteSamples ==
  ASSUME NEW L, NEW S, NEW w, IsFiniteSet(S)
  PROVE  /\ IsFiniteSet(TrackedOf(L, S, w)) /\ Cardinality(TrackedOf(L, S, w)) \in Nat
         /\ IsFiniteSet(S \ TrackedOf(L, S, w)) /\ Cardinality(S \ TrackedOf(L, S, w)) \in Nat
         /\ \A i : /\ IsFiniteSet(InBucket(L, S, w, i))
                   /\ Cardinality(InBucket(L, S, w, i)) \in Nat
<1>1. TrackedOf(L, S, w) \in SUBSET S /\ S \ TrackedOf(L, S, w) \in SUBSET S
      /\ \A i : InBucket(L, S, w, i) \in SUBSET S
  BY DEF TrackedOf, InBucket
<1>2. \A T \in SUBSET S : IsFiniteSet(T) /\ Cardinality(T) \in Nat
  BY FS_Subset, FS_CardinalityType
<1> QED
  BY <1>1, <1>2

\* A sample more is counted in its bucket, or apart.
LEMMA RecordOne ==
  ASSUME NEW L, Fits(L), NEW S, IsFiniteSet(S), NEW w, \A s \in S : w[s] \in Nat,
         NEW h, HistogramOf(L, h, S, w),
         NEW x, x \notin S, NEW u, u[x] \in Nat, \A s \in S : u[s] = w[s],
         NEW g, g = Record(L, h, u[x])
  PROVE  HistogramOf(L, g, S \cup {x}, u)
<1>1. PICK v \in Nat : v = u[x]
  OBVIOUS
<1>2. PICK i \in Nat : i = CountsIndex(L, v) /\ (i \in Indices(L) <=> v < Untracked(L))
  BY IndexRange
<1> DEFINE T == TrackedOf(L, S, w)
           T2 == TrackedOf(L, S \cup {x}, u)
<1>3. /\ T2 = IF v < Untracked(L) THEN T \cup {x} ELSE T
      /\ x \notin T /\ \A s \in T : u[s] = w[s]
      /\ \A j : /\ x \notin InBucket(L, S, w, j)
                /\ InBucket(L, S \cup {x}, u, j)
                     = IF v < Untracked(L) /\ i = j
                         THEN InBucket(L, S, w, j) \cup {x} ELSE InBucket(L, S, w, j)
  <2>0. GrownBy(L, S, w, x, u)
    BY OneMoreSample
  <2>1. /\ T2 = IF u[x] < Untracked(L) THEN T \cup {x} ELSE T
        /\ x \notin T /\ \A s \in T : u[s] = w[s]
        /\ \A j : /\ x \notin InBucket(L, S, w, j)
                  /\ InBucket(L, S \cup {x}, u, j)
                       = IF u[x] < Untracked(L) /\ CountsIndex(L, u[x]) = j
                           THEN InBucket(L, S, w, j) \cup {x} ELSE InBucket(L, S, w, j)
    BY <2>0 DEF GrownBy
  <2> HIDE DEF T, T2
  <2> QED
    BY <1>1, <1>2, <2>1
<1>4. /\ IsFiniteSet(T) /\ Cardinality(T) \in Nat
      /\ IsFiniteSet(S \ T) /\ Cardinality(S \ T) \in Nat
      /\ \A j : /\ IsFiniteSet(InBucket(L, S, w, j))
                /\ Cardinality(InBucket(L, S, w, j)) \in Nat
  BY FiniteSamples
<1>5. T \subseteq S
  BY DEF TrackedOf
<1>6. \A s \in T : w[s] \in Nat
  BY <1>5
<1> HIDE DEF T, T2
<1>7. /\ h = [counts |-> h.counts, total |-> h.total, overflow |-> h.overflow,
              min |-> h.min, max |-> h.max]
      /\ h.counts \in [Indices(L) -> Nat]
      /\ \A j \in Indices(L) : h.counts[j] = Cardinality(InBucket(L, S, w, j))
      /\ h.total = Cardinality(T) /\ h.overflow = Cardinality(S \ T)
      /\ h.max \in Nat /\ h.min \in Nat
      /\ \A s \in T : h.min <= w[s] /\ w[s] <= h.max
      /\ T = {} => h.max = 0 /\ h.min = 0
      /\ T # {} => \E s, t \in T : w[s] = h.max /\ w[t] = h.min
  BY DEF HistogramOf, CountsOf, ExtremesOf, T
<1>8. /\ g = [counts |-> g.counts, total |-> g.total, overflow |-> g.overflow,
              min |-> g.min, max |-> g.max]
      /\ i \notin Indices(L) =>
           /\ g.counts = h.counts /\ g.total = h.total /\ g.overflow = h.overflow + 1
           /\ g.min = h.min /\ g.max = h.max
      /\ i \in Indices(L) =>
           /\ g.counts = [h.counts EXCEPT ![i] = @ + 1]
           /\ g.total = h.total + 1 /\ g.overflow = h.overflow
           /\ g.max = (IF v > h.max THEN v ELSE h.max)
           /\ g.min = (IF h.total = 0 \/ v < h.min THEN v ELSE h.min)
  BY <1>1, <1>2, <1>7, RecordFields
<1>9. CASE ~ (v < Untracked(L))
  <2>1. T2 = T /\ (S \cup {x}) \ T2 = (S \ T) \cup {x} /\ x \notin S \ T
        /\ \A j : InBucket(L, S \cup {x}, u, j) = InBucket(L, S, w, j)
    BY <1>3, <1>9
  <2>2. Cardinality((S \ T) \cup {x}) = Cardinality(S \ T) + 1
    BY <1>4, <2>1, FS_AddElement
  <2>3. CountsOf(L, g, S \cup {x}, u)
    BY <1>2, <1>7, <1>8, <1>9, <2>1 DEF CountsOf
  <2>4. /\ \A s \in T2 : g.min <= u[s] /\ u[s] <= g.max
        /\ g.max = h.max /\ g.min = h.min
    BY <1>2, <1>3, <1>7, <1>8, <1>9, <2>1
  <2>5. T2 # {} => \E s, t \in T2 : u[s] = g.max /\ u[t] = g.min
    <3> SUFFICES ASSUME T2 # {} PROVE \E s, t \in T2 : u[s] = g.max /\ u[t] = g.min
      OBVIOUS
    <3>1. PICK s, t \in T : w[s] = h.max /\ w[t] = h.min
      BY <1>7, <2>1
    <3>2. u[s] = g.max /\ u[t] = g.min
      BY <1>3, <2>4, <3>1
    <3> QED
      BY <2>1, <3>2
  <2>6. ExtremesOf(L, g, S \cup {x}, u)
    BY <1>7, <2>1, <2>4, <2>5 DEF ExtremesOf, T2
  <2>7. g.total = Cardinality(T2) /\ g.overflow = Cardinality((S \cup {x}) \ T2)
    BY <1>2, <1>7, <1>8, <1>9, <2>1, <2>2
  <2> QED
    BY <1>8, <2>3, <2>6, <2>7 DEF HistogramOf, T2
<1>10. CASE v < Untracked(L)
  <2>1. T2 = T \cup {x} /\ (S \cup {x}) \ T2 = S \ T /\ x \in T2
        /\ \A j : InBucket(L, S \cup {x}, u, j)
                    = IF i = j THEN InBucket(L, S, w, j) \cup {x} ELSE InBucket(L, S, w, j)
    BY <1>3, <1>10
  <2>2. Cardinality(T \cup {x}) = Cardinality(T) + 1
    BY <1>3, <1>4, FS_AddElement
  <2>3. Cardinality(InBucket(L, S, w, i) \cup {x}) = Cardinality(InBucket(L, S, w, i)) + 1
    BY <1>3, <1>4, FS_AddElement
  <2>4. /\ g.counts = [h.counts EXCEPT ![i] = @ + 1] /\ i \in Indices(L)
        /\ g.total = h.total + 1 /\ g.overflow = h.overflow
        /\ g.max = (IF v > h.max THEN v ELSE h.max)
        /\ g.min = (IF h.total = 0 \/ v < h.min THEN v ELSE h.min)
    BY <1>2, <1>8, <1>10
  <2>5. CountsOf(L, g, S \cup {x}, u)
    <3>1. g.counts \in [Indices(L) -> Nat]
      BY <1>7, <2>4
    <3>2. ASSUME NEW j \in Indices(L)
          PROVE  g.counts[j] = Cardinality(InBucket(L, S \cup {x}, u, j))
      <4>1. CASE i = j
        <5>1. g.counts[j] = h.counts[j] + 1
          BY <1>7, <2>4, <4>1
        <5> QED
          BY <1>7, <2>1, <2>3, <4>1, <5>1
      <4>2. CASE i # j
        <5>1. g.counts[j] = h.counts[j]
          BY <1>7, <2>4, <4>2
        <5> QED
          BY <1>7, <2>1, <4>2, <5>1
      <4> QED
        BY <4>1, <4>2
    <3> QED
      BY <3>1, <3>2 DEF CountsOf
  <2>6. g.total = Cardinality(T2) /\ g.overflow = Cardinality((S \cup {x}) \ T2)
    BY <1>7, <2>1, <2>2, <2>4
  <2>7. T = {} <=> h.total = 0
    BY <1>4, <1>7, FS_EmptySet
  <2>8. \A s \in T2 : g.min <= u[s] /\ u[s] <= g.max
    <3> SUFFICES ASSUME NEW s \in T2 PROVE g.min <= u[s] /\ u[s] <= g.max
      OBVIOUS
    <3>1. CASE s = x
      BY <1>1, <1>7, <2>4, <3>1
    <3>2. CASE s # x
      <4>1. s \in T /\ u[s] = w[s] /\ w[s] \in Nat /\ h.min <= w[s] /\ w[s] <= h.max /\ h.total # 0
        BY <1>3, <1>6, <1>7, <2>1, <2>7, <3>2
      <4> QED
        BY <1>7, <2>4, <4>1
    <3> QED
      BY <3>1, <3>2
  <2>9. \E s \in T2 : u[s] = g.max
    <3>1. CASE v > h.max
      BY <1>1, <2>1, <2>4, <3>1
    <3>2. CASE ~ (v > h.max) /\ T = {}
      BY <1>1, <1>7, <2>1, <2>4, <3>2
    <3>3. CASE ~ (v > h.max) /\ T # {}
      <4>1. PICK s \in T : w[s] = h.max
        BY <1>7, <3>3
      <4> QED
        BY <1>3, <2>1, <2>4, <3>3, <4>1
    <3> QED
      BY <3>1, <3>2, <3>3
  <2>10. \E t \in T2 : u[t] = g.min
    <3>1. CASE h.total = 0 \/ v < h.min
      BY <1>1, <2>1, <2>4, <3>1
    <3>2. CASE ~ (h.total = 0 \/ v < h.min)
      <4>1. PICK t \in T : w[t] = h.min
        BY <1>7, <2>7, <3>2
      <4> QED
        BY <1>3, <2>1, <2>4, <3>2, <4>1
    <3> QED
      BY <3>1, <3>2
  <2>11. g.max \in Nat /\ g.min \in Nat
    BY <1>7, <2>4
  <2>12. ExtremesOf(L, g, S \cup {x}, u)
    BY <2>1, <2>8, <2>9, <2>10, <2>11 DEF ExtremesOf, T2
  <2> QED
    BY <1>8, <2>5, <2>6, <2>12 DEF HistogramOf, T2
<1> QED
  BY <1>9, <1>10

\* Only the values of the samples matter.
LEMMA SameSamples ==
  ASSUME NEW L, NEW S, NEW w, NEW u, \A s \in S : u[s] = w[s], NEW h, HistogramOf(L, h, S, w)
  PROVE  HistogramOf(L, h, S, u)
<1>1. TrackedOf(L, S, u) = TrackedOf(L, S, w) /\ \A s \in TrackedOf(L, S, w) : u[s] = w[s]
  BY DEF TrackedOf
<1>2. \A i : InBucket(L, S, u, i) = InBucket(L, S, w, i)
  BY <1>1 DEF InBucket
<1>3. CountsOf(L, h, S, u)
  BY <1>2 DEF HistogramOf, CountsOf
<1>4. ExtremesOf(L, h, S, u)
  <2>1. PICK T : T = TrackedOf(L, S, w)
    OBVIOUS
  <2>2. /\ h.max \in Nat /\ h.min \in Nat
        /\ \A s \in T : h.min <= w[s] /\ w[s] <= h.max
        /\ T = {} => h.max = 0 /\ h.min = 0
        /\ T # {} => \E s, t \in T : w[s] = h.max /\ w[t] = h.min
    BY <2>1 DEF HistogramOf, ExtremesOf
  <2>3. T # {} => \E s, t \in T : u[s] = h.max /\ u[t] = h.min
    BY <1>1, <2>1, <2>2
  <2>4. \A s \in T : h.min <= u[s] /\ u[s] <= h.max
    BY <1>1, <2>1, <2>2
  <2> QED
    BY <1>1, <2>1, <2>2, <2>3, <2>4 DEF ExtremesOf
<1> QED
  BY <1>1, <1>3, <1>4 DEF HistogramOf

\* The histograms on the way through a list of values.
IsAfter(g, L, h, values, n) ==
  g = [k \in 0 .. n |-> IF k = 0 THEN h ELSE Record(L, g[k - 1], values[k])]

After(L, h, values, n) == CHOOSE g : IsAfter(g, L, h, values, n)

LEMMA RecordAllAfter ==
  ASSUME NEW L, NEW h, NEW values
  PROVE  RecordAll(L, h, values) = After(L, h, values, Len(values))[Len(values)]
BY DEF RecordAll, After, IsAfter

LEMMA AfterSteps ==
  ASSUME NEW L, NEW h, NEW values, NEW n \in Nat, NEW g, g = After(L, h, values, n)
  PROVE  /\ g[0] = h
         /\ \A k \in Nat : k < n => g[k + 1] = Record(L, g[k], values[k + 1])
<1> DEFINE S == {m \in Nat : \E f : IsAfter(f, L, h, values, m)}
<1>1. 0 \in S
  <2>1. IsAfter([k \in 0 .. 0 |-> h], L, h, values, 0)
    BY DEF IsAfter
  <2> QED
    BY <2>1
<1>2. ASSUME NEW m \in Nat, m \in S PROVE m + 1 \in S
  <2>1. PICK f : IsAfter(f, L, h, values, m)
    BY <1>2
  <2> DEFINE e == [k \in 0 .. m + 1 |-> IF k = m + 1 THEN Record(L, f[m], values[m + 1]) ELSE f[k]]
  <2>2. \A k \in 0 .. m : f[k] = IF k = 0 THEN h ELSE Record(L, f[k - 1], values[k])
    BY <2>1 DEF IsAfter
  <2>3. \A k \in 0 .. m + 1 : e[k] = IF k = 0 THEN h ELSE Record(L, e[k - 1], values[k])
    BY <2>2
  <2>4. DOMAIN e = 0 .. m + 1 /\ e = [k \in DOMAIN e |-> e[k]]
    OBVIOUS
  <2> HIDE DEF e
  <2>5. e = [k \in 0 .. m + 1 |-> IF k = 0 THEN h ELSE Record(L, e[k - 1], values[k])]
    BY <2>3, <2>4
  <2>6. IsAfter(e, L, h, values, m + 1)
    BY <2>5 DEF IsAfter
  <2> QED
    BY <2>6
<1>3. n \in S
  <2> HIDE DEF S
  <2> QED
    BY <1>1, <1>2, Induction
<1>4. IsAfter(g, L, h, values, n)
  BY <1>3 DEF After
<1>5. \A k \in 0 .. n : g[k] = IF k = 0 THEN h ELSE Record(L, g[k - 1], values[k])
  BY <1>4 DEF IsAfter
<1>6. g[0] = h
  BY <1>5
<1>7. ASSUME NEW k \in Nat, k < n PROVE g[k + 1] = Record(L, g[k], values[k + 1])
  <2>1. k + 1 \in 0 .. n /\ k + 1 # 0 /\ k + 1 - 1 = k
    BY <1>7
  <2> QED
    BY <1>5, <2>1
<1> QED
  BY <1>6, <1>7

\* New samples of these values, in order.
NamesOf(e, S, u, values, n) ==
  /\ \A k \in 1 .. n : e[k] \notin S /\ u[e[k]] \in Nat /\ u[e[k]] = values[k]
  /\ \A j, k \in 1 .. n : e[j] = e[k] => j = k

NamedBy(e, n) == {e[k] : k \in 1 .. n}

\* Samples more are counted one by one; e names them, in order.
LEMMA RecordMany ==
  ASSUME NEW L, Fits(L), NEW S, IsFiniteSet(S), NEW u, \A s \in S : u[s] \in Nat,
         NEW h, HistogramOf(L, h, S, u),
         NEW n \in Nat, NEW values, Len(values) = n,
         NEW e, NamesOf(e, S, u, values, n)
  PROVE  HistogramOf(L, RecordAll(L, h, values), S \cup NamedBy(e, n), u)
<1>0. /\ \A k \in 1 .. n : e[k] \notin S /\ u[e[k]] \in Nat /\ u[e[k]] = values[k]
      /\ \A j, k \in 1 .. n : e[j] = e[k] => j = k
  BY DEF NamesOf
<1>1. PICK g : g = After(L, h, values, n)
  OBVIOUS
<1>2. g[0] = h /\ \A k \in Nat : k < n => g[k + 1] = Record(L, g[k], values[k + 1])
  BY <1>1, AfterSteps
<1> DEFINE With(m) == S \cup {e[k] : k \in 1 .. m}
           B == {m \in Nat : m <= n => IsFiniteSet(With(m)) /\ HistogramOf(L, g[m], With(m), u)}
<1>3. 0 \in B
  <2>1. With(0) = S
    OBVIOUS
  <2> HIDE DEF With
  <2> QED
    BY <1>2, <2>1
<1>4. ASSUME NEW m \in Nat, m \in B PROVE m + 1 \in B
  <2> SUFFICES ASSUME m + 1 <= n
               PROVE  IsFiniteSet(With(m + 1)) /\ HistogramOf(L, g[m + 1], With(m + 1), u)
    OBVIOUS
  <2>1. m + 1 \in 1 .. n /\ m <= n /\ m < n
    OBVIOUS
  <2>2. PICK x : x = e[m + 1]
    OBVIOUS
  <2>3. x \notin With(m)
    <3>1. \A k \in 1 .. m : k \in 1 .. n /\ k # m + 1
      BY <2>1
    <3>2. \A k \in 1 .. m : e[k] # x
      BY <1>0, <2>1, <2>2, <3>1
    <3> QED
      BY <1>0, <2>1, <2>2, <3>2
  <2>4. With(m + 1) = With(m) \cup {x}
    <3>1. 1 .. m + 1 = (1 .. m) \cup {m + 1}
      OBVIOUS
    <3> QED
      BY <2>2, <3>1
  <2>5. \A s \in With(m) : u[s] \in Nat
    <3>1. \A k \in 1 .. m : k \in 1 .. n
      BY <2>1
    <3> QED
      BY <1>0, <3>1
  <2>6. IsFiniteSet(With(m)) /\ HistogramOf(L, g[m], With(m), u)
    BY <1>4, <2>1
  <2> HIDE DEF With
  <2>7. IsFiniteSet(With(m) \cup {x})
    BY <2>6, FS_AddElement
  <2>8. u[x] \in Nat /\ g[m + 1] = Record(L, g[m], u[x])
    BY <1>0, <1>2, <2>1, <2>2
  <2>9. HistogramOf(L, g[m + 1], With(m) \cup {x}, u)
    BY <2>3, <2>5, <2>6, <2>8, RecordOne
  <2> QED
    BY <2>4, <2>7, <2>9
<1>5. n \in B
  <2> HIDE DEF B
  <2> QED
    BY <1>3, <1>4, Induction
<1>6. HistogramOf(L, g[n], With(n), u)
  BY <1>5
<1>7. RecordAll(L, h, values) = g[n]
  BY <1>1, RecordAllAfter
<1> QED
  BY <1>6, <1>7 DEF NamedBy

-----------------------------------------------------------------------------
(* Merging.                                                                *)

\* A histogram, and what its extremes are before the first sample.
Counted(L, h) ==
  /\ h = [counts |-> h.counts, total |-> h.total, overflow |-> h.overflow,
          min |-> h.min, max |-> h.max]
  /\ h.counts \in [Indices(L) -> Nat]
  /\ h.total \in Nat /\ h.overflow \in Nat /\ h.min \in Nat /\ h.max \in Nat
  /\ h.total = 0 => h.max = 0

LEMMA NewCounted ==
  ASSUME NEW L, NEW h, h = NewHistogram(L)
  PROVE  Counted(L, h) /\ h.total = 0 /\ h.overflow = 0 /\ \A i \in Indices(L) : h.counts[i] = 0
BY DEF Counted, NewHistogram

LEMMA RecordCounted ==
  ASSUME NEW L, NEW h, Counted(L, h), NEW v \in Nat
  PROVE  Counted(L, Record(L, h, v))
<1>1. PICK i : i = CountsIndex(L, v)
  OBVIOUS
<1>2. PICK g : g = Record(L, h, v)
  OBVIOUS
<1>3. /\ g = [counts |-> g.counts, total |-> g.total, overflow |-> g.overflow,
              min |-> g.min, max |-> g.max]
      /\ i \notin Indices(L) =>
           /\ g.counts = h.counts /\ g.total = h.total /\ g.overflow = h.overflow + 1
           /\ g.min = h.min /\ g.max = h.max
      /\ i \in Indices(L) =>
           /\ g.counts = [h.counts EXCEPT ![i] = @ + 1]
           /\ g.total = h.total + 1 /\ g.overflow = h.overflow
           /\ g.max = (IF v > h.max THEN v ELSE h.max)
           /\ g.min = (IF h.total = 0 \/ v < h.min THEN v ELSE h.min)
  BY <1>1, <1>2, RecordFields DEF Counted
<1>4. CASE i \notin Indices(L)
  BY <1>2, <1>3, <1>4 DEF Counted
<1>5. CASE i \in Indices(L)
  <2>1. g.counts \in [Indices(L) -> Nat]
    BY <1>3, <1>5 DEF Counted
  <2>2. g.total \in Nat /\ g.overflow \in Nat /\ g.min \in Nat /\ g.max \in Nat /\ g.total # 0
    BY <1>3, <1>5 DEF Counted
  <2> QED
    BY <1>2, <1>3, <2>1, <2>2 DEF Counted
<1> QED
  BY <1>4, <1>5

LEMMA MergeFields ==
  ASSUME NEW L, NEW h, Counted(L, h), NEW g, Counted(L, g), NEW m, m = Merge(h, g)
  PROVE  /\ m = [counts |-> m.counts, total |-> m.total, overflow |-> m.overflow,
                 min |-> m.min, max |-> m.max]
         /\ m.counts = [i \in Indices(L) |-> h.counts[i] + g.counts[i]]
         /\ m.total = h.total + g.total /\ m.overflow = h.overflow + g.overflow
         /\ m.max = (IF g.total = 0 THEN h.max ELSE Larger(h.max, g.max))
         /\ m.min = (IF g.total = 0 THEN h.min
                       ELSE IF h.total = 0 THEN g.min ELSE Smaller(h.min, g.min))
<1>1. DOMAIN h.counts = Indices(L) /\ DOMAIN g.counts = Indices(L)
  BY DEF Counted
<1>2. m = [counts |-> [i \in Indices(L) |-> h.counts[i] + g.counts[i]],
           total |-> h.total + g.total,
           overflow |-> h.overflow + g.overflow,
           max |-> IF g.total = 0 THEN h.max ELSE Larger(h.max, g.max),
           min |-> IF g.total = 0 THEN h.min
                     ELSE IF h.total = 0 THEN g.min ELSE Smaller(h.min, g.min)]
  BY <1>1 DEF Merge
<1> QED
  BY <1>2

LEMMA MergeCounted ==
  ASSUME NEW L, NEW h, Counted(L, h), NEW g, Counted(L, g)
  PROVE  Counted(L, Merge(h, g))
<1>1. PICK m : m = Merge(h, g)
  OBVIOUS
<1>2. /\ m = [counts |-> m.counts, total |-> m.total, overflow |-> m.overflow,
              min |-> m.min, max |-> m.max]
      /\ m.counts = [i \in Indices(L) |-> h.counts[i] + g.counts[i]]
      /\ m.total = h.total + g.total /\ m.overflow = h.overflow + g.overflow
      /\ m.max = (IF g.total = 0 THEN h.max ELSE Larger(h.max, g.max))
      /\ m.min = (IF g.total = 0 THEN h.min
                    ELSE IF h.total = 0 THEN g.min ELSE Smaller(h.min, g.min))
  BY <1>1, MergeFields
<1>3. m.counts \in [Indices(L) -> Nat]
  BY <1>2 DEF Counted
<1>4. m.total \in Nat /\ m.overflow \in Nat /\ m.max \in Nat /\ m.min \in Nat
      /\ (m.total = 0 => m.max = 0)
  BY <1>2 DEF Counted, Larger, Smaller
<1> QED
  BY <1>1, <1>2, <1>3, <1>4 DEF Counted

\* A sample may be recorded before or after the merge.
LEMMA MergeRecord ==
  ASSUME NEW L, NEW h, Counted(L, h), NEW g, Counted(L, g), NEW v \in Nat
  PROVE  Merge(h, Record(L, g, v)) = Record(L, Merge(h, g), v)
<1>1. PICK i : i = CountsIndex(L, v)
  OBVIOUS
<1>2. PICK r : r = Record(L, g, v) /\ Counted(L, r)
  BY RecordCounted
<1>3. PICK m : m = Merge(h, g) /\ Counted(L, m)
  BY MergeCounted
<1>4. PICK a : a = Merge(h, r)
  OBVIOUS
<1>5. PICK b : b = Record(L, m, v)
  OBVIOUS
<1>6. /\ r = [counts |-> r.counts, total |-> r.total, overflow |-> r.overflow,
              min |-> r.min, max |-> r.max]
      /\ i \notin Indices(L) =>
           /\ r.counts = g.counts /\ r.total = g.total /\ r.overflow = g.overflow + 1
           /\ r.min = g.min /\ r.max = g.max
      /\ i \in Indices(L) =>
           /\ r.counts = [g.counts EXCEPT ![i] = @ + 1]
           /\ r.total = g.total + 1 /\ r.overflow = g.overflow
           /\ r.max = (IF v > g.max THEN v ELSE g.max)
           /\ r.min = (IF g.total = 0 \/ v < g.min THEN v ELSE g.min)
  <2>1. g = [counts |-> g.counts, total |-> g.total, overflow |-> g.overflow,
             min |-> g.min, max |-> g.max]
    BY DEF Counted
  <2>2. r = Record(L, g, v)
    BY <1>2
  <2> QED
    BY <1>1, <2>1, <2>2, RecordFields
<1>7. /\ b = [counts |-> b.counts, total |-> b.total, overflow |-> b.overflow,
              min |-> b.min, max |-> b.max]
      /\ i \notin Indices(L) =>
           /\ b.counts = m.counts /\ b.total = m.total /\ b.overflow = m.overflow + 1
           /\ b.min = m.min /\ b.max = m.max
      /\ i \in Indices(L) =>
           /\ b.counts = [m.counts EXCEPT ![i] = @ + 1]
           /\ b.total = m.total + 1 /\ b.overflow = m.overflow
           /\ b.max = (IF v > m.max THEN v ELSE m.max)
           /\ b.min = (IF m.total = 0 \/ v < m.min THEN v ELSE m.min)
  BY <1>1, <1>3, <1>5, RecordFields DEF Counted
<1>8. /\ m.counts = [j \in Indices(L) |-> h.counts[j] + g.counts[j]]
      /\ m.total = h.total + g.total /\ m.overflow = h.overflow + g.overflow
      /\ m.max = (IF g.total = 0 THEN h.max ELSE Larger(h.max, g.max))
      /\ m.min = (IF g.total = 0 THEN h.min
                    ELSE IF h.total = 0 THEN g.min ELSE Smaller(h.min, g.min))
  BY <1>3, MergeFields
<1>9. /\ a = [counts |-> a.counts, total |-> a.total, overflow |-> a.overflow,
              min |-> a.min, max |-> a.max]
      /\ a.counts = [j \in Indices(L) |-> h.counts[j] + r.counts[j]]
      /\ a.total = h.total + r.total /\ a.overflow = h.overflow + r.overflow
      /\ a.max = (IF r.total = 0 THEN h.max ELSE Larger(h.max, r.max))
      /\ a.min = (IF r.total = 0 THEN h.min
                    ELSE IF h.total = 0 THEN r.min ELSE Smaller(h.min, r.min))
  BY <1>2, <1>4, MergeFields
<1>10. /\ h.counts \in [Indices(L) -> Nat] /\ g.counts \in [Indices(L) -> Nat]
       /\ h.total \in Nat /\ h.overflow \in Nat /\ h.min \in Nat /\ h.max \in Nat
       /\ g.total \in Nat /\ g.overflow \in Nat /\ g.min \in Nat /\ g.max \in Nat
       /\ (g.total = 0 => g.max = 0) /\ (h.total = 0 => h.max = 0)
  BY DEF Counted
<1>11. CASE i \notin Indices(L)
  <2>1. a.counts = b.counts
    BY <1>6, <1>7, <1>8, <1>9, <1>11
  <2>2. a.total = b.total /\ a.max = b.max /\ a.min = b.min
    BY <1>6, <1>7, <1>8, <1>9, <1>11
  <2>3. a.overflow = b.overflow
    BY <1>6, <1>7, <1>8, <1>9, <1>10, <1>11
  <2> QED
    BY <1>2, <1>3, <1>4, <1>5, <1>7, <1>9, <2>1, <2>2, <2>3
<1>12. CASE i \in Indices(L)
  <2>1. a.counts = b.counts
    <3>1. \A j \in Indices(L) : r.counts[j] = IF i = j THEN g.counts[j] + 1 ELSE g.counts[j]
      BY <1>6, <1>10, <1>12
    <3>2. \A j \in Indices(L) :
            b.counts[j] = IF i = j THEN h.counts[j] + g.counts[j] + 1 ELSE h.counts[j] + g.counts[j]
      BY <1>7, <1>8, <1>12
    <3>3. \A j \in Indices(L) : a.counts[j] = b.counts[j]
      BY <1>9, <1>10, <3>1, <3>2
    <3>4. b.counts = [j \in Indices(L) |-> b.counts[j]] /\ a.counts = [j \in Indices(L) |-> a.counts[j]]
      BY <1>7, <1>8, <1>9, <1>12
    <3> QED
      BY <3>3, <3>4
  <2>2. a.total = b.total /\ a.overflow = b.overflow
    BY <1>6, <1>7, <1>8, <1>9, <1>10, <1>12
  <2>3. a.max = b.max
    BY <1>6, <1>7, <1>8, <1>9, <1>10, <1>12 DEF Larger
  <2>4. a.min = b.min
    BY <1>6, <1>7, <1>8, <1>9, <1>10, <1>12 DEF Smaller
  <2> QED
    BY <1>2, <1>3, <1>4, <1>5, <1>7, <1>9, <2>1, <2>2, <2>3, <2>4
<1> QED
  BY <1>11, <1>12

LEMMA MergeNew ==
  ASSUME NEW L, NEW h, Counted(L, h)
  PROVE  Merge(h, NewHistogram(L)) = h
<1>1. PICK g : g = NewHistogram(L)
  OBVIOUS
<1>2. Counted(L, g) /\ g.total = 0 /\ g.overflow = 0 /\ \A i \in Indices(L) : g.counts[i] = 0
  BY <1>1, NewCounted
<1>3. PICK m : m = Merge(h, g)
  OBVIOUS
<1>4. /\ m = [counts |-> m.counts, total |-> m.total, overflow |-> m.overflow,
              min |-> m.min, max |-> m.max]
      /\ m.counts = [i \in Indices(L) |-> h.counts[i] + g.counts[i]]
      /\ m.total = h.total + g.total /\ m.overflow = h.overflow + g.overflow
      /\ m.max = h.max /\ m.min = h.min
  BY <1>2, <1>3, MergeFields
<1>5. m.counts = h.counts
  <2>1. \A i \in Indices(L) : m.counts[i] = h.counts[i]
    BY <1>2, <1>4 DEF Counted
  <2>2. h.counts = [i \in Indices(L) |-> h.counts[i]] /\ m.counts = [i \in Indices(L) |-> m.counts[i]]
    BY <1>4 DEF Counted
  <2> QED
    BY <2>1, <2>2
<1>6. m.total = h.total /\ m.overflow = h.overflow
  BY <1>2, <1>4 DEF Counted
<1> QED
  BY <1>1, <1>3, <1>4, <1>5, <1>6 DEF Counted

LEMMA AfterCounted ==
  ASSUME NEW L, NEW values \in Seq(Nat), NEW n \in Nat, n = Len(values),
         NEW g, g = After(L, NewHistogram(L), values, n)
  PROVE  \A k \in Nat : k <= n => Counted(L, g[k])
<1> DEFINE S == {k \in Nat : k <= n => Counted(L, g[k])}
<1>1. g[0] = NewHistogram(L) /\ \A k \in Nat : k < n => g[k + 1] = Record(L, g[k], values[k + 1])
  BY AfterSteps
<1>2. 0 \in S
  BY <1>1, NewCounted
<1>3. ASSUME NEW k \in Nat, k \in S PROVE k + 1 \in S
  <2> SUFFICES ASSUME k + 1 <= n PROVE Counted(L, g[k + 1])
    OBVIOUS
  <2>1. Counted(L, g[k]) /\ k + 1 \in 1 .. n /\ k < n
    BY <1>3
  <2>2. values[k + 1] \in Nat
    BY <2>1, ElementOfSeq
  <2> QED
    BY <1>1, <2>1, <2>2, RecordCounted
<1> HIDE DEF S
<1>4. \A k \in Nat : k \in S
  BY <1>2, <1>3, Induction
<1> QED
  BY <1>4 DEF S

\* Histograms of two runs merge into that of both.
LEMMA MergeOfRuns ==
  ASSUME NEW L, NEW r \in Seq(Nat), NEW s \in Seq(Nat)
  PROVE  Merge(RecordAll(L, NewHistogram(L), r), RecordAll(L, NewHistogram(L), s))
           = RecordAll(L, NewHistogram(L), r \o s)
<1>1. PICK new : new = NewHistogram(L)
  OBVIOUS
<1>2. PICK m \in Nat : m = Len(r)
  BY LenProperties
<1>3. PICK n \in Nat : n = Len(s)
  BY LenProperties
<1>4. PICK t \in Seq(Nat) : /\ t = r \o s /\ Len(t) = m + n
                            /\ \A k \in 1 .. m : t[k] = r[k]
                            /\ \A k \in 1 .. n : t[m + k] = s[k]
  <2>1. r \o s \in Seq(Nat) /\ Len(r \o s) = Len(r) + Len(s)
        /\ \A k \in 1 .. Len(r) + Len(s) : (r \o s)[k] = IF k <= Len(r) THEN r[k] ELSE s[k - Len(r)]
    BY ConcatProperties
  <2>2. PICK t \in Seq(Nat) : t = r \o s
    BY <2>1
  <2>3. \A k \in 1 .. m + n : t[k] = IF k <= m THEN r[k] ELSE s[k - m]
    BY <1>2, <1>3, <2>1, <2>2
  <2>4. \A k \in 1 .. m : t[k] = r[k]
    BY <2>3
  <2>5. ASSUME NEW k \in 1 .. n PROVE t[m + k] = s[k]
    <3>1. m + k \in 1 .. m + n /\ ~ (m + k <= m) /\ m + k - m = k
      OBVIOUS
    <3> QED
      BY <2>3, <3>1
  <2> QED
    BY <1>2, <1>3, <2>1, <2>2, <2>4, <2>5
<1>5. PICK a : a = After(L, new, r, m)
  OBVIOUS
<1>6. PICK b : b = After(L, new, s, n)
  OBVIOUS
<1>7. PICK c : c = After(L, new, t, m + n)
  OBVIOUS
<1>8. /\ a[0] = new /\ \A k \in Nat : k < m => a[k + 1] = Record(L, a[k], r[k + 1])
      /\ \A k \in Nat : k <= m => Counted(L, a[k])
  <2>1. a[0] = new /\ \A k \in Nat : k < m => a[k + 1] = Record(L, a[k], r[k + 1])
    BY <1>5, AfterSteps
  <2>2. \A k \in Nat : k <= m => Counted(L, a[k])
    BY <1>1, <1>2, <1>5, AfterCounted
  <2> QED
    BY <2>1, <2>2
<1>9. /\ b[0] = new /\ \A k \in Nat : k < n => b[k + 1] = Record(L, b[k], s[k + 1])
      /\ \A k \in Nat : k <= n => Counted(L, b[k])
  <2>1. b[0] = new /\ \A k \in Nat : k < n => b[k + 1] = Record(L, b[k], s[k + 1])
    BY <1>6, AfterSteps
  <2>2. \A k \in Nat : k <= n => Counted(L, b[k])
    BY <1>1, <1>3, <1>6, AfterCounted
  <2> QED
    BY <2>1, <2>2
<1>10. c[0] = new /\ \A k \in Nat : k < m + n => c[k + 1] = Record(L, c[k], t[k + 1])
  <2>1. m + n \in Nat
    OBVIOUS
  <2> QED
    BY <1>7, <2>1, AfterSteps
<1>11. c[m] = a[m]
  <2> DEFINE S == {k \in Nat : k <= m => c[k] = a[k]}
  <2>1. 0 \in S
    BY <1>8, <1>10
  <2>2. ASSUME NEW k \in Nat, k \in S PROVE k + 1 \in S
    <3> SUFFICES ASSUME k + 1 <= m PROVE c[k + 1] = a[k + 1]
      OBVIOUS
    <3>1. c[k] = a[k] /\ k + 1 \in 1 .. m /\ k < m /\ k < m + n
      BY <2>2
    <3> QED
      BY <1>4, <1>8, <1>10, <3>1
  <2> HIDE DEF S
  <2>3. m \in S
    BY <2>1, <2>2, Induction
  <2> QED
    BY <2>3 DEF S
<1>12. c[m + n] = Merge(a[m], b[n])
  <2> DEFINE S == {k \in Nat : k <= n => c[m + k] = Merge(a[m], b[k])}
  <2>1. 0 \in S
    <3>1. m + 0 = m /\ Counted(L, a[m])
      BY <1>8
    <3>2. Merge(a[m], b[0]) = a[m]
      BY <1>1, <1>9, <3>1, MergeNew
    <3> QED
      BY <1>11, <3>1, <3>2
  <2>2. ASSUME NEW k \in Nat, k \in S PROVE k + 1 \in S
    <3> SUFFICES ASSUME k + 1 <= n PROVE c[m + (k + 1)] = Merge(a[m], b[k + 1])
      OBVIOUS
    <3>1. c[m + k] = Merge(a[m], b[k]) /\ k + 1 \in 1 .. n /\ k < n /\ k <= n /\ m + k < m + n
          /\ m + k \in Nat /\ m + (k + 1) = (m + k) + 1
      BY <2>2
    <3>2. c[(m + k) + 1] = Record(L, c[m + k], t[(m + k) + 1])
      BY <1>10, <3>1
    <3>3. PICK v \in Nat : v = s[k + 1] /\ v = t[(m + k) + 1]
      <4>1. s[k + 1] \in Nat
        BY <1>3, <3>1, ElementOfSeq
      <4>2. t[m + (k + 1)] = s[k + 1]
        BY <1>4, <3>1
      <4> QED
        BY <3>1, <4>1, <4>2
    <3>4. Counted(L, a[m]) /\ Counted(L, b[k])
      BY <1>8, <1>9, <3>1
    <3>5. Merge(a[m], Record(L, b[k], v)) = Record(L, Merge(a[m], b[k]), v)
      BY <3>4, MergeRecord
    <3>6. b[k + 1] = Record(L, b[k], v)
      BY <1>9, <3>1, <3>3
    <3> QED
      BY <3>1, <3>2, <3>3, <3>5, <3>6
  <2> HIDE DEF S
  <2>3. n \in S
    BY <2>1, <2>2, Induction
  <2> QED
    BY <2>3 DEF S
<1>13. RecordAll(L, new, r) = a[m] /\ RecordAll(L, new, s) = b[n] /\ RecordAll(L, new, t) = c[m + n]
  BY <1>2, <1>3, <1>4, <1>5, <1>6, <1>7, RecordAllAfter
<1> QED
  BY <1>1, <1>4, <1>12, <1>13

LEMMA MergeIsExact == MergeExact
<1>1. PICK L : L = Layout(5, 2, 0)
  OBVIOUS
<1> DEFINE Recorded(values) == RecordAll(L, NewHistogram(L), values)
           Runs == UNION {[1 .. n -> 0 .. 9] : n \in 0 .. 2}
<1>2. \A r \in Runs : r \in Seq(Nat)
  <2>1. \A n \in 0 .. 2 : \A r \in [1 .. n -> 0 .. 9] : r \in Seq(Nat)
    OBVIOUS
  <2> QED
    BY <2>1
<1>3. \A r, s \in Runs : Merge(Recorded(r), Recorded(s)) = Recorded(r \o s)
  BY <1>2, MergeOfRuns
<1> QED
  BY <1>1, <1>3 DEF MergeExact

-----------------------------------------------------------------------------
(* The loop: types, the grid and the order of the frames.                  *)

Frame == [seq : Nat, session : Nat, outcome : {"sent", "dropped", "cut"}]

\* The types of all but the histogram, and the histories'.
LoopTypes ==
  /\ g_running \in BOOLEAN /\ sink \in {"shm", "uds"} /\ queued \in 0 .. Capacity
  /\ peer_closed \in BOOLEAN /\ left \in 1 .. Cells /\ now \in 0 .. MaxTime
  /\ pc \in {"open", "head", "pace", "stall", "send", "closed", "failed"}
  /\ tries \in 0 .. Attempts /\ seq \in 0 .. total_frames /\ session \in 0 .. sessions
  /\ woke_ns \in 0 .. MaxTime /\ next_stall_ns \in Nat /\ dropped \in Nat
  /\ sent \in Seq(Frame) /\ late \in Seq(0 .. MaxTime) /\ due \in Nat /\ slowest \in Nat

\* What the loop's conditions and its end of a tick rely on.
LoopControl ==
  /\ pc = "open" => tries < Attempts
  /\ pc \in {"open", "failed"} => seq = 0 /\ sent = <<>>
  /\ pc \in {"pace", "stall", "send"} => seq < total_frames
  /\ pc = "stall" => session = 0
  /\ woke_ns <= now

\* While no tick took the interval, each begins on the grid.
OnTheGrid == slowest < frame_ns => due = seq * frame_ns

LoopInv == LoopTypes /\ LoopControl /\ OnTheGrid

LEMMA Constants ==
  /\ sessions \in Nat /\ total_frames \in Nat /\ frame_ns \in Nat /\ stall_every \in Nat
  /\ stall \in Nat /\ Attempts \in Nat /\ Cells \in Nat /\ Capacity \in Nat
  /\ highest \in Nat /\ MaxTime \in Nat
  /\ sessions >= 1 /\ frame_ns >= 1 /\ Attempts >= 1 /\ Cells >= 1 /\ Capacity >= 1
  /\ WordBits \in Nat /\ WordBits > 2
BY ProducerAssumption, WordAssumption

\* Points of the grid.
LEMMA GridPoints ==
  ASSUME NEW n \in Nat
  PROVE  /\ n * frame_ns \in Nat
         /\ (n + 1) * frame_ns = n * frame_ns + frame_ns
BY Constants

LEMMA LoopInit == Init => LoopInv
<1> SUFFICES ASSUME Init PROVE LoopInv
  OBVIOUS
<1>1. sent \in Seq(Frame) /\ late \in Seq(0 .. MaxTime)
  BY DEF Init
<1>2. next_stall_ns \in Nat
  BY Constants DEF Init
<1>3. LoopTypes
  <2>1. /\ now \in 0 .. MaxTime /\ woke_ns \in 0 .. MaxTime /\ queued \in 0 .. Capacity
        /\ left \in 1 .. Cells /\ tries \in 0 .. Attempts /\ seq \in 0 .. total_frames
        /\ session \in 0 .. sessions
    BY Constants DEF Init
  <2>2. dropped \in Nat /\ due \in Nat /\ slowest \in Nat
    BY DEF Init
  <2>3. g_running \in BOOLEAN /\ peer_closed \in BOOLEAN /\ sink \in {"shm", "uds"} /\ pc = "open"
    BY DEF Init
  <2> QED
    BY <1>1, <1>2, <2>1, <2>2, <2>3 DEF LoopTypes
<1>4. LoopControl
  BY Constants DEF Init, LoopControl
<1>5. OnTheGrid
  BY Constants DEF Init, OnTheGrid
<1> QED
  BY <1>3, <1>4, <1>5 DEF LoopInv

\* A tick that ends within the interval is followed by one that begins on the grid.
LEMMA NextOnTheGrid ==
  ASSUME LoopInv, EndTick
  PROVE  OnTheGrid' /\ due' \in Nat /\ slowest' \in Nat
<1>1. PICK t \in Nat : t = seq * frame_ns
  BY GridPoints DEF LoopInv, LoopTypes
<1>2. seq' * frame_ns = t + frame_ns
  BY <1>1, GridPoints DEF LoopInv, LoopTypes, EndTick
<1>3. due' = Larger(t + frame_ns, now) /\ slowest' = Larger(slowest, now - due)
  BY <1>2 DEF EndTick, Target, Larger, io, loop, counts
<1>4. slowest < frame_ns => due = t
  BY <1>1 DEF LoopInv, OnTheGrid
<1>5. due \in Nat /\ slowest \in Nat /\ now \in Nat /\ frame_ns \in Nat
  BY Constants DEF LoopInv, LoopTypes
<1>6. slowest' < frame_ns => due' = t + frame_ns
  BY <1>3, <1>4, <1>5 DEF Larger
<1>7. due' \in Nat /\ slowest' \in Nat
  BY <1>3, <1>5 DEF Larger
<1> QED
  BY <1>2, <1>6, <1>7 DEF OnTheGrid

LEMMA LoopStep == LoopInv /\ [Next]_vars => LoopInv'
<1> SUFFICES ASSUME LoopInv, [Next]_vars PROVE LoopInv'
  OBVIOUS
<1> USE DEF LoopInv, LoopTypes, LoopControl, OnTheGrid, io, loop, counts, history
<1>1. CASE Tick
  BY <1>1, Constants DEF Tick
<1>2. CASE Signal
  BY <1>2 DEF Signal
<1>3. CASE Take
  BY <1>3, Constants DEF Take
<1>4. CASE PeerCloses
  BY <1>4 DEF PeerCloses
<1>5. CASE Open
  BY <1>5 DEF Open
<1>6. CASE OpenFails
  BY <1>6, Constants DEF OpenFails
<1>7. CASE LoopHead
  BY <1>7, Constants DEF LoopHead
<1>8. CASE Wake
  <2>1. PICK t \in Nat : t = seq * frame_ns
    BY GridPoints
  <2>2. now - t \in 0 .. MaxTime
    BY <1>8, <2>1, Constants DEF Wake, Target
  <2>3. late' = Append(late, now - t)
    BY <1>8, <2>1 DEF Wake, Target
  <2>4. late' \in Seq(0 .. MaxTime)
    BY <2>2, <2>3, AppendProperties
  <2> QED
    BY <1>8, <2>4, Constants DEF Wake
<1>9. CASE StallEnd
  BY <1>9, Constants DEF StallEnd
<1>10. CASE \E outcome \in {"sent", "dropped", "cut"} :
               /\ Done(outcome) /\ pc = "send" /\ session < sessions /\ pc' \in {"send", "closed"}
               /\ queued' \in 0 .. Capacity /\ left' \in 1 .. Cells /\ dropped' \in Nat
               /\ g_running' = g_running
  <2>1. PICK o \in {"sent", "dropped", "cut"} :
               /\ Done(o) /\ pc = "send" /\ session < sessions /\ pc' \in {"send", "closed"}
               /\ queued' \in 0 .. Capacity /\ left' \in 1 .. Cells /\ dropped' \in Nat
               /\ g_running' = g_running
    BY <1>10
  <2>2. PICK e \in Frame : e = [seq |-> seq, session |-> session, outcome |-> o]
    <3>1. seq \in Nat /\ session \in Nat
      BY Constants
    <3> QED
      BY <3>1 DEF Frame
  <2>3. sent' = Append(sent, e)
    BY <2>1, <2>2 DEF Done
  <2>4. sent' \in Seq(Frame)
    BY <2>3, AppendProperties
  <2> QED
    BY <2>1, <2>4, Constants DEF Done
<1>11. CASE Push
  BY <1>11, <1>10, Constants DEF Push, Sending, Done
<1>12. CASE PushFull
  BY <1>12, <1>10, Constants DEF PushFull, Sending, Done
<1>13. CASE WriteSome
  BY <1>13, Constants DEF WriteSome, Sending
<1>14. CASE WriteRest
  BY <1>14, <1>10, Constants DEF WriteRest, Sending, Done
<1>15. CASE WriteFails
  BY <1>15, <1>10, Constants DEF WriteFails, Sending, Done
<1>16. CASE EndTick
  <2>1. OnTheGrid' /\ due' \in Nat /\ slowest' \in Nat
    BY <1>16, NextOnTheGrid
  <2> QED
    BY <1>16, <2>1, Constants DEF EndTick
<1>17. CASE UNCHANGED vars
  BY <1>17 DEF vars
<1> QED
  BY <1>1, <1>2, <1>3, <1>4, <1>5, <1>6, <1>7, <1>8, <1>9, <1>11, <1>12, <1>13, <1>14, <1>15,
     <1>16, <1>17 DEF Next

LEMMA LoopInvariant == Spec => []LoopInv
<1>1. Init => LoopInv
  BY LoopInit
<1>2. LoopInv /\ [Next]_vars => LoopInv'
  BY LoopStep
<1> QED
  BY <1>1, <1>2, PTL DEF Spec

LEMMA OnTimeByTheGrid == LoopInv => NoDrift
<1> SUFFICES ASSUME LoopInv, Larger(slowest, now - due) < frame_ns
             PROVE  woke_ns - seq * frame_ns <= Larger(slowest, now - due)
  BY DEF NoDrift
<1>1. PICK t : t = seq * frame_ns
  OBVIOUS
<1>2. due \in Nat /\ slowest \in Nat /\ now \in Nat /\ woke_ns \in Nat /\ frame_ns \in Nat
      /\ woke_ns <= now
  BY Constants DEF LoopInv, LoopTypes, LoopControl
<1>3. slowest < frame_ns => due = t
  BY <1>1 DEF LoopInv, OnTheGrid
<1>4. woke_ns - t <= Larger(slowest, now - due)
  BY <1>2, <1>3 DEF Larger
<1> QED
  BY <1>1, <1>4

\* Lateness does not add up: while each tick takes less than the interval from when it
\* could begin, none begins later on the grid than the slowest of them took.
THEOREM LatenessDoesNotAddUp == Spec => []NoDrift
BY LoopInvariant, OnTimeByTheGrid, PTL
-----------------------------------------------------------------------------
(* The frames, in turn.                                                    *)

\* The place of a frame in the stream.
InTurn(frames, i) ==
  frames[i].seq = (i - 1) \div sessions /\ frames[i].session = (i - 1) % sessions

DroppedOf(frames) == {i \in DOMAIN frames : frames[i].outcome = "dropped"}

\* How much of the stream is out, by where the loop is.
OutSoFar ==
  /\ pc \in {"head", "pace", "stall"} => Len(sent) = seq * sessions
  /\ pc = "send" => Len(sent) = seq * sessions + session

\* Everything up to call s of tick n.
UpTo(frames, n, s) ==
  /\ frames \in Seq(Frame) /\ Len(frames) = n * sessions + s
  /\ \A i \in DOMAIN frames : InTurn(frames, i)

OneMore(frames, longer, e) ==
  /\ DOMAIN longer = 1 .. Len(frames) + 1 /\ DOMAIN frames = 1 .. Len(frames)
  /\ Len(longer) = Len(frames) + 1
  /\ \A i \in DOMAIN frames : longer[i] = frames[i]
  /\ longer[Len(frames) + 1] = e

\* The frame of the call whose turn it is comes next.
LEMMA AppendInTurn ==
  ASSUME NEW n \in Nat, NEW s \in 0 .. sessions - 1, NEW frames, UpTo(frames, n, s),
         NEW e \in Frame, e.seq = n, e.session = s,
         NEW longer, longer = Append(frames, e)
  PROVE  UpTo(longer, n, s + 1) /\ OneMore(frames, longer, e)
<1>0. frames \in Seq(Frame) /\ Len(frames) = n * sessions + s /\ \A i \in DOMAIN frames : InTurn(frames, i)
  BY DEF UpTo
<1>1. /\ Len(longer) = Len(frames) + 1 /\ longer \in Seq(Frame)
      /\ \A i \in 1 .. Len(frames) : longer[i] = frames[i]
      /\ longer[Len(frames) + 1] = e
  BY <1>0, AppendProperties
<1>2. DOMAIN longer = 1 .. Len(frames) + 1 /\ DOMAIN frames = 1 .. Len(frames)
      /\ Len(frames) \in Nat
  BY <1>0, <1>1, LenProperties
<1>3. \A i \in DOMAIN frames : InTurn(longer, i)
  BY <1>0, <1>1, <1>2 DEF InTurn
<1>4. InTurn(longer, Len(frames) + 1)
  <2>1. (n * sessions + s) \div sessions = n /\ (n * sessions + s) % sessions = s
    <3>1. PICK a : a = n * sessions + s
      OBVIOUS
    <3>2. PICK c \in Nat : c = sessions /\ c >= 1
      BY Constants
    <3>3. a = n * c + s /\ s \in 0 .. c - 1
      BY <3>1, <3>2
    <3>4. \A q \in Nat, r \in 0 .. c - 1 : a = q * c + r => a \div c = q /\ a % c = r
      <4> SUFFICES ASSUME NEW q \in Nat, NEW r \in 0 .. c - 1, a = q * c + r
                   PROVE  a \div c = q /\ a % c = r
        OBVIOUS
      <4>1. c >= 1
        BY <3>2
      <4> QED
        BY <4>1, Division, ZenonT(30)
    <3>5. a \div c = n /\ a % c = s
      BY <3>3, <3>4, Zenon
    <3> QED
      BY <3>1, <3>2, <3>5
  <2>2. Len(frames) + 1 - 1 = n * sessions + s
    BY <1>0, <1>2
  <2> QED
    BY <1>1, <2>1, <2>2 DEF InTurn
<1>5. Len(longer) = n * sessions + (s + 1)
  BY <1>0, <1>1, Constants
<1>6. \A i \in DOMAIN longer : InTurn(longer, i)
  BY <1>2, <1>3, <1>4
<1> QED
  BY <1>1, <1>2, <1>5, <1>6 DEF UpTo, OneMore

\* What the ring shed is counted as it is shed.
LEMMA AppendDropped ==
  ASSUME NEW frames \in Seq(Frame), NEW e \in Frame, NEW longer,
         OneMore(frames, longer, e)
  PROVE  Cardinality(DroppedOf(longer))
           = Cardinality(DroppedOf(frames)) + (IF e.outcome = "dropped" THEN 1 ELSE 0)
<1> DEFINE k == Len(frames) + 1
<1>1. Len(frames) \in Nat
  BY LenProperties
<1> USE DEF OneMore
<1>2. k \notin DroppedOf(frames)
  BY <1>1 DEF DroppedOf
<1>3. IsFiniteSet(DroppedOf(frames))
  <2>1. IsFiniteSet(1 .. Len(frames))
    BY <1>1, FS_Interval
  <2> QED
    BY <2>1, FS_Subset DEF DroppedOf
<1>4. Cardinality(DroppedOf(frames)) \in Nat
  BY <1>3, FS_CardinalityType
<1>5. CASE e.outcome = "dropped"
  <2>1. DroppedOf(longer) = DroppedOf(frames) \cup {k}
    BY <1>1, <1>5 DEF DroppedOf
  <2>2. Cardinality(DroppedOf(frames) \cup {k}) = Cardinality(DroppedOf(frames)) + 1
    <3> HIDE DEF k
    <3> QED
      BY <1>2, <1>3, FS_AddElement
  <2> QED
    BY <1>5, <2>1, <2>2
<1>6. CASE e.outcome # "dropped"
  <2>1. DroppedOf(longer) = DroppedOf(frames)
    BY <1>1, <1>6 DEF DroppedOf
  <2> QED
    BY <1>4, <1>6, <2>1
<1> QED
  BY <1>5, <1>6

OrderInv == StreamOrdered /\ OutSoFar

LEMMA OrderInit == Init => OrderInv
<1> SUFFICES ASSUME Init PROVE OrderInv
  OBVIOUS
<1>1. sent = <<>> /\ pc = "open" /\ dropped = 0
  BY DEF Init
<1>2. {i \in DOMAIN sent : sent[i].outcome = "dropped"} = {}
  BY <1>1
<1> QED
  BY <1>1, <1>2, FS_EmptySet DEF OrderInv, StreamOrdered, OutSoFar

\* A frame that met its end.
LEMMA OrderDone ==
  ASSUME LoopInv, OrderInv, pc = "send", session < sessions,
         NEW o \in {"sent", "dropped", "cut"}, Done(o),
         dropped' = dropped + (IF o = "dropped" THEN 1 ELSE 0),
         IF o = "cut" THEN pc' = "closed" /\ peer_closed ELSE pc' = "send"
  PROVE  OrderInv'
<1>1. seq \in Nat /\ session \in 0 .. sessions - 1 /\ sent \in Seq(Frame) /\ session + 1 = session'
      /\ seq' = seq
  BY Constants DEF LoopInv, LoopTypes, Done
<1>2. PICK e \in Frame : e = [seq |-> seq, session |-> session, outcome |-> o]
  <2>1. session \in Nat
    BY <1>1, Constants
  <2>2. [seq |-> seq, session |-> session, outcome |-> o] \in Frame
    BY <1>1, <2>1 DEF Frame
  <2> QED
    BY <2>2
<1>3. sent' = Append(sent, e) /\ e.seq = seq /\ e.session = session /\ e.outcome = o
  BY <1>2 DEF Done
<1>4. UpTo(sent, seq, session)
  BY <1>1 DEF OrderInv, StreamOrdered, OutSoFar, InTurn, UpTo
<1>5. UpTo(sent', seq, session + 1) /\ OneMore(sent, sent', e)
  <2>1. PICK frames : frames = sent
    OBVIOUS
  <2>2. PICK longer : longer = sent'
    OBVIOUS
  <2>3. PICK n \in Nat : n = seq
    BY <1>1
  <2>4. PICK s \in 0 .. sessions - 1 : s = session
    BY <1>1
  <2>5. UpTo(frames, n, s) /\ e.seq = n /\ e.session = s /\ longer = Append(frames, e)
    BY <1>3, <1>4, <2>1, <2>2, <2>3, <2>4
  <2>6. UpTo(longer, n, s + 1) /\ OneMore(frames, longer, e)
    BY <2>5, AppendInTurn
  <2> QED
    BY <2>1, <2>2, <2>3, <2>4, <2>6
<1>6. Cardinality(DroppedOf(sent'))
           = Cardinality(DroppedOf(sent)) + (IF e.outcome = "dropped" THEN 1 ELSE 0)
  BY <1>1, <1>5, AppendDropped
<1>7. dropped' = Cardinality(DroppedOf(sent'))
  BY <1>3, <1>6 DEF OrderInv, StreamOrdered, DroppedOf
<1>8. Len(sent) \in Nat /\ Len(sent') = Len(sent) + 1
  BY <1>1, <1>5, LenProperties DEF OneMore
<1>9. \A i \in DOMAIN sent' : sent'[i].outcome = "cut" => i = Len(sent') /\ pc' = "closed"
  <2> SUFFICES ASSUME NEW i \in DOMAIN sent', sent'[i].outcome = "cut"
               PROVE  i = Len(sent') /\ pc' = "closed"
    OBVIOUS
  <2>1. ~ (i \in DOMAIN sent)
    BY <1>5 DEF OrderInv, StreamOrdered, OneMore
  <2>2. i = Len(sent) + 1
    BY <1>5, <1>8, <2>1 DEF OneMore
  <2> QED
    BY <1>3, <1>5, <1>8, <2>2 DEF OneMore
<1>10. OutSoFar'
  <2>1. PICK p \in Nat : p = seq * sessions
    BY <1>1, Constants
  <2>2. Len(sent') = seq' * sessions + session'
    BY <1>1, <1>5, <2>1 DEF UpTo
  <2>3. pc' \in {"send", "closed"}
    OBVIOUS
  <2> QED
    BY <2>2, <2>3 DEF OutSoFar
<1>11. pc' = "closed" /\ g_running' => peer_closed' /\ Last(sent').outcome = "cut"
  BY <1>3, <1>5, <1>8 DEF Done, Last, OneMore
<1> QED
  BY <1>5, <1>7, <1>9, <1>10, <1>11 DEF OrderInv, StreamOrdered, InTurn, DroppedOf, UpTo

LEMMA OrderStep == LoopInv /\ OrderInv /\ [Next]_vars => OrderInv'
<1> SUFFICES ASSUME LoopInv, OrderInv, [Next]_vars PROVE OrderInv'
  OBVIOUS
<1>1. CASE /\ UNCHANGED <<sent, dropped, seq, session, pc>>
           /\ g_running' \in {g_running, FALSE} /\ (peer_closed => peer_closed')
  <2>1. OutSoFar'
    BY <1>1 DEF OrderInv, OutSoFar
  <2>2. DroppedOf(sent)' = DroppedOf(sent) /\ (\A i \in DOMAIN sent : InTurn(sent, i))'
    BY <1>1 DEF OrderInv, StreamOrdered, InTurn, DroppedOf
  <2>3. g_running' => g_running
    BY <1>1 DEF LoopInv, LoopTypes
  <2> QED
    BY <1>1, <2>1, <2>2, <2>3 DEF OrderInv, StreamOrdered, InTurn, DroppedOf
<1>2. CASE /\ UNCHANGED <<sent, dropped, g_running, peer_closed>>
           /\ pc' = "closed" /\ (g_running => Len(sent) = total_frames * sessions)
  BY <1>2 DEF OrderInv, StreamOrdered, OutSoFar
<1>3. CASE /\ UNCHANGED <<sent, dropped>>
           /\ pc # "closed" /\ pc' # "closed" /\ OutSoFar'
  BY <1>3 DEF OrderInv, StreamOrdered
<1>4. CASE Tick \/ Signal \/ Take \/ PeerCloses \/ WriteSome \/ UNCHANGED vars
  <2>1. /\ UNCHANGED <<sent, dropped, seq, session, pc>>
        /\ g_running' \in {g_running, FALSE} /\ (peer_closed => peer_closed')
    <3>1. CASE Tick
      BY <3>1 DEF Tick, io, loop, counts, history
    <3>2. CASE Signal
      BY <3>2 DEF Signal, io, loop, counts, history
    <3>3. CASE Take
      BY <3>3 DEF Take, loop, counts, history
    <3>4. CASE PeerCloses
      BY <3>4 DEF PeerCloses, loop, counts, history
    <3>5. CASE WriteSome
      BY <3>5 DEF WriteSome, loop, counts, history
    <3>6. CASE UNCHANGED vars
      BY <3>6 DEF vars, io, loop, counts, history
    <3> QED
      BY <1>4, <3>1, <3>2, <3>3, <3>4, <3>5, <3>6
  <2> QED
    BY <1>1, <2>1
<1>5. CASE Open \/ OpenFails
  <2>1. sent = <<>> /\ seq = 0 /\ sessions \in Nat
    BY <1>5, Constants DEF LoopInv, LoopControl, Open, OpenFails
  <2>2. Len(sent) = seq * sessions
    BY <2>1
  <2>3. pc' \in {"open", "head", "failed"} /\ pc = "open" /\ UNCHANGED <<sent, dropped, seq, session>>
    BY <1>5 DEF Open, OpenFails, io, loop, counts, history
  <2> QED
    BY <1>3, <2>2, <2>3 DEF OutSoFar
<1>6. CASE LoopHead
  <2>1. pc = "head" /\ UNCHANGED <<sent, dropped, g_running, peer_closed, seq, session>>
        /\ pc' = IF seq < total_frames /\ g_running THEN "pace" ELSE "closed"
    BY <1>6 DEF LoopHead, io, loop, counts, history
  <2>2. Len(sent) = seq * sessions
    BY <2>1 DEF OrderInv, OutSoFar
  <2>3. CASE seq < total_frames /\ g_running
    BY <1>3, <2>1, <2>2, <2>3 DEF OutSoFar
  <2>4. CASE ~ (seq < total_frames /\ g_running)
    <3>1. g_running => seq = total_frames
      BY <2>4, Constants DEF LoopInv, LoopTypes
    <3> QED
      BY <1>2, <2>1, <2>2, <2>4, <3>1
  <2> QED
    BY <2>3, <2>4
<1>7. CASE Wake
  <2>1. pc = "pace" /\ UNCHANGED <<sent, dropped, seq>> /\ session' = 0 /\ pc' \in {"stall", "send"}
    BY <1>7 DEF Wake, loop
  <2>2. Len(sent) = seq * sessions /\ seq * sessions \in Nat
    BY <2>1, Constants DEF OrderInv, OutSoFar, LoopInv, LoopTypes
  <2> QED
    BY <1>3, <2>1, <2>2 DEF OutSoFar
<1>8. CASE StallEnd
  <2>1. pc = "stall" /\ UNCHANGED <<sent, dropped, seq, session>> /\ session = 0 /\ pc' = "send"
    BY <1>8 DEF StallEnd, counts, history, LoopInv, LoopControl
  <2>2. Len(sent) = seq * sessions /\ seq * sessions \in Nat
    BY <2>1, Constants DEF OrderInv, OutSoFar, LoopInv, LoopTypes
  <2> QED
    BY <1>3, <2>1, <2>2 DEF OutSoFar
<1>9. CASE Push
  BY <1>9, OrderDone, Constants DEF Push, Sending, Done, LoopInv, LoopTypes
<1>10. CASE PushFull
  BY <1>10, OrderDone, Constants DEF PushFull, Sending, Done
<1>11. CASE WriteRest
  BY <1>11, OrderDone, Constants DEF WriteRest, Sending, Done, LoopInv, LoopTypes
<1>12. CASE WriteFails
  BY <1>12, OrderDone, Constants DEF WriteFails, Sending, Done, LoopInv, LoopTypes
<1>13. CASE EndTick
  <2>1. pc = "send" /\ UNCHANGED <<sent, dropped>> /\ session = sessions /\ pc' = "head"
        /\ seq' = seq + 1
    BY <1>13 DEF EndTick, counts
  <2>2. Len(sent) = seq * sessions + sessions
    BY <2>1 DEF OrderInv, OutSoFar
  <2>3. Len(sent') = seq' * sessions
    BY <2>1, <2>2, Constants DEF LoopInv, LoopTypes
  <2> QED
    BY <1>3, <2>1, <2>3 DEF OutSoFar
<1> QED
  BY <1>4, <1>5, <1>6, <1>7, <1>8, <1>9, <1>10, <1>11, <1>12, <1>13 DEF Next

\* Every frame of every call is tried once, in turn, whatever stalls, sheds or breaks;
\* what the ring shed is counted, and after a write that failed nothing follows.
THEOREM FramesInTurn == Spec => []StreamOrdered
<1>1. Init => LoopInv /\ OrderInv
  BY LoopInit, OrderInit
<1>2. LoopInv /\ OrderInv /\ [Next]_vars => LoopInv' /\ OrderInv'
  BY LoopStep, OrderStep
<1>3. OrderInv => StreamOrdered
  BY DEF OrderInv
<1> QED
  BY <1>1, <1>2, <1>3, PTL DEF Spec

-----------------------------------------------------------------------------
(* The histogram of lateness.                                              *)

\* The samples that a wait of length v stands for, in the order they are recorded.
WaitOf(v, interval, values, n) ==
  /\ Len(values) = n + 1
  /\ \A k \in 1 .. n + 1 : values[k] = v - (k - 1) * interval
  /\ \A k \in Nat : (k = 0 \/ v - k * interval >= interval) <=> k <= n

LEMMA SamplesOfWait ==
  ASSUME NEW v \in Nat, NEW interval \in Nat, interval >= 1,
         NEW values, values = <<v>> \o Missing(v, interval)
  PROVE  \E n \in Nat : WaitOf(v, interval, values, n)
<1> DEFINE S == {k \in 1 .. v : v - k * interval >= interval}
<1>1. \A k \in Nat : k * interval \in Nat /\ k * interval >= k
  <2> SUFFICES ASSUME NEW k \in Nat PROVE k * interval \in Nat /\ k * interval >= k
    OBVIOUS
  <2>1. PICK d \in Nat : interval = 1 + d
    <3>1. interval - 1 \in Nat /\ interval = 1 + (interval - 1)
      OBVIOUS
    <3> QED
      BY <3>1
  <2>2. k * interval = k + k * d /\ k * d \in Nat
    BY <2>1
  <2> QED
    BY <2>2
<1>2. PICK n \in Nat : /\ Missing(v, interval) = [k \in 1 .. n |-> v - k * interval]
                       /\ \A k \in Nat : k >= 1 => (v - k * interval >= interval <=> k <= n)
  <2>1. CASE v <= interval
    <3>1. Missing(v, interval) = [k \in 1 .. 0 |-> v - k * interval]
      BY <2>1 DEF Missing
    <3>2. ASSUME NEW k \in Nat, k >= 1 PROVE ~ (v - k * interval >= interval)
      <4>1. 1 * interval <= k * interval
        BY <3>2, TimesGrows
      <4>2. PICK p \in Nat : p = k * interval
        BY <1>1
      <4>3. p >= interval
        BY <4>1, <4>2
      <4>4. ~ (v - p >= interval)
        BY <2>1, <4>3
      <4> QED
        BY <4>2, <4>4
    <3>3. \A k \in Nat : k >= 1 => ~ (k <= 0)
      OBVIOUS
    <3> QED
      BY <3>1, <3>2, <3>3
  <2>2. CASE v > interval
    <3>1. S \in SUBSET (1 .. 1 + v - 1)
      OBVIOUS
    <3>2. ASSUME NEW e \in S, NEW d \in 1 .. 1 + v - 1, d < e PROVE d \in S
      <4>1. d \in Nat /\ e \in Nat /\ d * interval <= e * interval /\ v - e * interval >= interval
        BY <3>2, TimesGrows
      <4>2. PICK p \in Nat : p = d * interval
        BY <1>1, <4>1
      <4>3. PICK q \in Nat : q = e * interval
        BY <1>1, <4>1
      <4>4. p <= q /\ v - q >= interval
        BY <4>1, <4>2, <4>3
      <4>5. v - p >= interval
        BY <4>4
      <4> QED
        BY <4>2, <4>5
    <3>3. PICK n \in Nat : n = Cardinality(S) /\ S = 1 .. n
      <4> HIDE DEF S
      <4>0. \A e \in S : \A d \in 1 .. 1 + v - 1 : d < e => d \in S
        BY <3>2
      <4>1. Cardinality(S) \in 0 .. v /\ S = 1 .. 1 + Cardinality(S) - 1
        BY <3>1, <4>0, 1 \in Int, NoGap, Zenon
      <4>2. 1 + Cardinality(S) - 1 = Cardinality(S)
        BY <4>1
      <4> QED
        BY <4>1, <4>2
    <3>4. Missing(v, interval) = [k \in 1 .. n |-> v - k * interval]
      BY <2>2, <3>3 DEF Missing, Down
    <3>5. ASSUME NEW k \in Nat, k >= 1 PROVE v - k * interval >= interval <=> k <= n
      <4>1. k \in S <=> k <= n
        <5>1. k \in 1 .. n <=> k <= n
          BY <3>5
        <5> HIDE DEF S
        <5> QED
          BY <3>3, <5>1
      <4>2. PICK p \in Nat : p = k * interval /\ p >= k
        BY <1>1
      <4>3. v - p >= interval => k \in 1 .. v
        <5>1. p >= k /\ k >= 1
          BY <3>5, <4>2
        <5> QED
          BY <5>1
      <4> QED
        BY <4>1, <4>2, <4>3
    <3> QED
      BY <3>4, <3>5
  <2> QED
    BY <2>1, <2>2
<1>3. PICK m \in Seq(Int) : m = Missing(v, interval) /\ Len(m) = n /\ \A k \in 1 .. n : m[k] = v - k * interval
  <2>1. \A k \in 1 .. n : v - k * interval \in Int
    BY <1>1
  <2>2. [k \in 1 .. n |-> v - k * interval] \in Seq(Int)
    BY <2>1
  <2> QED
    BY <1>2, <2>2
<1>4. /\ Len(values) = 1 + n
      /\ \A k \in 1 .. 1 + n : values[k] = IF k <= 1 THEN <<v>>[k] ELSE m[k - 1]
  <2>1. <<v>> \in Seq(Int) /\ Len(<<v>>) = 1
    OBVIOUS
  <2> QED
    BY <1>3, <2>1, ConcatProperties
<1>5. ASSUME NEW k \in 1 .. n + 1 PROVE values[k] = v - (k - 1) * interval
  <2>1. CASE k = 1
    <3>1. values[k] = v /\ (k - 1) * interval = 0
      BY <1>4, <2>1
    <3> QED
      BY <3>1
  <2>2. CASE k # 1
    BY <1>3, <1>4, <2>2
  <2> QED
    BY <2>1, <2>2
<1>6. ASSUME NEW k \in Nat PROVE (k = 0 \/ v - k * interval >= interval) <=> k <= n
  BY <1>2
<1>7. Len(values) = n + 1
  BY <1>4
<1> QED
  BY <1>5, <1>6, <1>7 DEF WaitOf

SamplesOf(l) ==
  {s \in (DOMAIN l) \X (0 .. MaxTime) : s[2] = 0 \/ l[s[1]] - s[2] * frame_ns >= frame_ns}

ValuesOf(l) == [s \in SamplesOf(l) |-> l[s[1]] - s[2] * frame_ns]

LEMMA SamplesAre ==
  ASSUME NEW l \in Seq(0 .. MaxTime)
  PROVE  /\ IsFiniteSet(SamplesOf(l))
         /\ \A s \in SamplesOf(l) : ValuesOf(l)[s] \in Nat
<1>1. DOMAIN l = 1 .. Len(l) /\ Len(l) \in Nat
  BY LenProperties
<1>2. IsFiniteSet((DOMAIN l) \X (0 .. MaxTime))
  <2>1. IsFiniteSet(1 .. Len(l)) /\ IsFiniteSet(0 .. MaxTime)
    BY <1>1, Constants, FS_Interval
  <2> QED
    BY <1>1, <2>1, FS_Product
<1>3. SamplesOf(l) \subseteq (DOMAIN l) \X (0 .. MaxTime)
  BY DEF SamplesOf
<1>4. ASSUME NEW s \in SamplesOf(l) PROVE ValuesOf(l)[s] \in Nat
  <2>1. PICK i \in DOMAIN l, k \in 0 .. MaxTime : s = <<i, k>>
    BY <1>3
  <2>2. k = 0 \/ l[i] - k * frame_ns >= frame_ns
    BY <2>1 DEF SamplesOf
  <2>3. l[i] \in Nat
    BY <1>1, ElementOfSeq, Constants
  <2>4. k * frame_ns \in Nat /\ frame_ns \in Nat /\ (k = 0 => k * frame_ns = 0)
    BY Constants
  <2>5. l[i] - k * frame_ns \in Nat
    BY <2>2, <2>3, <2>4
  <2>6. ValuesOf(l)[s] = l[i] - k * frame_ns
    BY <2>1 DEF ValuesOf
  <2> QED
    BY <2>5, <2>6
<1> QED
  BY <1>2, <1>3, <1>4, FS_Subset

\* One wait more.
LEMMA AppendWait ==
  ASSUME NEW l \in Seq(0 .. MaxTime), NEW v \in 0 .. MaxTime, NEW longer, longer = Append(l, v),
         NEW h, HistogramOf(PacingLayout, h, SamplesOf(l), ValuesOf(l)), Fits(PacingLayout),
         NEW g, g = RecordWithExpectedInterval(PacingLayout, h, v, frame_ns)
  PROVE  HistogramOf(PacingLayout, g, SamplesOf(longer), ValuesOf(longer))
<1>0. /\ frame_ns \in Nat /\ frame_ns >= 1 /\ MaxTime \in Nat /\ v \in Nat /\ v <= MaxTime
  BY Constants
<1>1. PICK m \in Nat : m = Len(l) /\ DOMAIN l = 1 .. m
  BY LenProperties
<1>2. /\ longer \in Seq(0 .. MaxTime) /\ DOMAIN longer = 1 .. m + 1
      /\ \A i \in 1 .. m : longer[i] = l[i]
      /\ longer[m + 1] = v
  BY <1>1, AppendProperties, LenProperties
<1>3. PICK values : values = <<v>> \o Missing(v, frame_ns)
  OBVIOUS
<1>4. PICK n \in Nat :
           /\ Len(values) = n + 1
           /\ \A k \in 1 .. n + 1 : values[k] = v - (k - 1) * frame_ns
           /\ \A k \in Nat : (k = 0 \/ v - k * frame_ns >= frame_ns) <=> k <= n
  <2>1. \E n \in Nat : WaitOf(v, frame_ns, values, n)
    BY <1>0, <1>3, SamplesOfWait
  <2> QED
    BY <2>1 DEF WaitOf
<1>5. g = RecordAll(PacingLayout, h, values)
  BY <1>3 DEF RecordWithExpectedInterval
<1>6. n <= MaxTime
  <2>1. CASE n = 0
    BY <1>0, <2>1
  <2>2. CASE n # 0
    <3>1. v - n * frame_ns >= frame_ns
      BY <1>4, <2>2
    <3>2. n * 1 <= n * frame_ns
      <4>1. 1 * n <= frame_ns * n
        BY <1>0, TimesGrows
      <4> QED
        BY <1>0, <4>1
    <3>3. PICK p \in Nat : p = n * frame_ns
      BY <1>0
    <3>4. n <= p /\ v - p >= frame_ns
      BY <3>1, <3>2, <3>3
    <3>5. v \in Nat /\ v <= MaxTime /\ frame_ns \in Nat /\ MaxTime \in Nat /\ n \in Nat
      BY <1>0, Constants
    <3> HIDE <3>1, <3>2, <3>3
    <3> QED
      BY <3>4, <3>5, SMTT(30)
  <2> QED
    BY <2>1, <2>2
<1>7. PICK S : S = SamplesOf(l)
  OBVIOUS
<1>8. PICK w : w = ValuesOf(l)
  OBVIOUS
<1>9. PICK u : u = ValuesOf(longer)
  OBVIOUS
<1>10. PICK e : e = [k \in 1 .. n + 1 |-> <<m + 1, k - 1>>]
  OBVIOUS
<1>11. \A i \in 1 .. m + 1 : \A k \in 0 .. MaxTime :
         <<i, k>> \in SamplesOf(longer) <=> IF i = m + 1 THEN k <= n ELSE <<i, k>> \in S
  <2> SUFFICES ASSUME NEW i \in 1 .. m + 1, NEW k \in 0 .. MaxTime
               PROVE  <<i, k>> \in SamplesOf(longer) <=> IF i = m + 1 THEN k <= n ELSE <<i, k>> \in S
    OBVIOUS
  <2>1. <<i, k>> \in SamplesOf(longer) <=> k = 0 \/ longer[i] - k * frame_ns >= frame_ns
    BY <1>2 DEF SamplesOf
  <2>2. CASE i = m + 1
    BY <1>2, <1>4, <2>1, <2>2
  <2>3. CASE i # m + 1
    <3>1. i \in 1 .. m
      BY <2>3
    <3>2. <<i, k>> \in S <=> k = 0 \/ l[i] - k * frame_ns >= frame_ns
      BY <1>1, <1>7, <3>1 DEF SamplesOf
    <3> QED
      BY <1>2, <2>1, <2>3, <3>1, <3>2
  <2> QED
    BY <2>2, <2>3
<1>12. \A s \in S : \E i \in 1 .. m : \E k \in 0 .. MaxTime : s = <<i, k>>
  BY <1>1, <1>7 DEF SamplesOf
<1>13. \A s \in SamplesOf(longer) : \E i \in 1 .. m + 1 : \E k \in 0 .. MaxTime : s = <<i, k>>
  BY <1>2 DEF SamplesOf
<1>14. SamplesOf(longer) = S \cup {e[k] : k \in 1 .. n + 1}
  <2>1. ASSUME NEW s \in SamplesOf(longer) PROVE s \in S \cup {e[k] : k \in 1 .. n + 1}
    <3>1. PICK i \in 1 .. m + 1, k \in 0 .. MaxTime : s = <<i, k>>
      BY <1>13
    <3>2. CASE i = m + 1
      <4>1. k <= n
        BY <1>11, <3>1, <3>2
      <4>2. k + 1 \in 1 .. n + 1 /\ e[k + 1] = s
        BY <1>10, <3>1, <3>2, <4>1
      <4> QED
        BY <4>2
    <3>3. CASE i # m + 1
      BY <1>11, <3>1, <3>3
    <3> QED
      BY <3>2, <3>3
  <2>2. ASSUME NEW s \in S PROVE s \in SamplesOf(longer)
    <3>1. PICK i \in 1 .. m, k \in 0 .. MaxTime : s = <<i, k>>
      BY <1>12
    <3>2. i \in 1 .. m + 1 /\ i # m + 1
      OBVIOUS
    <3> QED
      BY <1>11, <3>1, <3>2
  <2>3. ASSUME NEW k \in 1 .. n + 1 PROVE e[k] \in SamplesOf(longer)
    <3>1. e[k] = <<m + 1, k - 1>> /\ k - 1 \in 0 .. MaxTime /\ k - 1 <= n /\ m + 1 \in 1 .. m + 1
      BY <1>0, <1>6, <1>10
    <3> QED
      BY <1>11, <3>1
  <2> QED
    BY <2>1, <2>2, <2>3
<1>15. \A s \in S : u[s] = w[s]
  <2> SUFFICES ASSUME NEW s \in S PROVE u[s] = w[s]
    OBVIOUS
  <2>1. PICK i \in 1 .. m, k \in 0 .. MaxTime : s = <<i, k>>
    BY <1>12
  <2>2. s \in SamplesOf(longer)
    BY <1>14
  <2>3. u[s] = longer[i] - k * frame_ns
    BY <1>9, <2>1, <2>2 DEF ValuesOf
  <2>4. w[s] = l[i] - k * frame_ns
    BY <1>7, <1>8, <2>1 DEF ValuesOf
  <2> QED
    BY <1>2, <2>3, <2>4
<1>16. IsFiniteSet(S) /\ \A s \in S : u[s] \in Nat
  BY <1>7, <1>8, <1>15, SamplesAre
<1>17. HistogramOf(PacingLayout, h, S, u)
  BY <1>7, <1>8, <1>15, SameSamples
<1>18. \A k \in 1 .. n + 1 : e[k] \notin S /\ u[e[k]] \in Nat /\ u[e[k]] = values[k]
  <2> SUFFICES ASSUME NEW k \in 1 .. n + 1
               PROVE  e[k] \notin S /\ u[e[k]] \in Nat /\ u[e[k]] = values[k]
    OBVIOUS
  <2>1. e[k] = <<m + 1, k - 1>> /\ e[k] \in SamplesOf(longer)
    BY <1>10, <1>14
  <2>2. e[k] \notin S
    <3>1. \A i \in 1 .. m : \A j \in 0 .. MaxTime : e[k] # <<i, j>>
      BY <2>1
    <3> QED
      BY <1>12, <3>1
  <2>3. u[e[k]] = longer[m + 1] - (k - 1) * frame_ns
    <3>1. u[<<m + 1, k - 1>>] = longer[m + 1] - (k - 1) * frame_ns
      <4>1. PICK s \in SamplesOf(longer) : s = <<m + 1, k - 1>>
        BY <2>1
      <4>2. s[1] = m + 1 /\ s[2] = k - 1
        BY <4>1
      <4>3. u[s] = longer[s[1]] - s[2] * frame_ns
        BY <1>9 DEF ValuesOf
      <4> QED
        BY <4>1, <4>2, <4>3
    <3> QED
      BY <2>1, <3>1
  <2>4. u[e[k]] = values[k]
    BY <1>2, <1>4, <2>3
  <2>5. u[e[k]] \in Nat
    BY <1>2, <1>9, <2>1, SamplesAre
  <2> QED
    BY <2>2, <2>4, <2>5
<1>19. \A j, k \in 1 .. n + 1 : e[j] = e[k] => j = k
  BY <1>10
<1>20. HistogramOf(PacingLayout, RecordAll(PacingLayout, h, values), S \cup NamedBy(e, n + 1), u)
  <2>1. PICK c \in Nat : c = n + 1
    OBVIOUS
  <2>2. /\ Len(values) = c
        /\ NamesOf(e, S, u, values, c)
    BY <1>4, <1>18, <1>19, <2>1 DEF NamesOf
  <2>3. PICK lay : lay = PacingLayout /\ Fits(lay) /\ HistogramOf(lay, h, S, u)
    BY <1>17
  <2>4. HistogramOf(lay, RecordAll(lay, h, values), S \cup NamedBy(e, c), u)
    BY <1>16, <2>2, <2>3, RecordMany
  <2> QED
    BY <2>1, <2>3, <2>4
<1> QED
  BY <1>5, <1>9, <1>14, <1>20 DEF NamedBy

-----------------------------------------------------------------------------
(* The histogram of lateness, along the loop.                              *)

LEMMA PacingFits ==
  /\ Fits(PacingLayout) /\ PacingLayout.unit = 0
  /\ Top = Untracked(PacingLayout) /\ Top \in Nat
<1>1. 2 \in Nat /\ 0 \in Nat /\ 2 + 0 < WordBits /\ highest \in Nat
  BY Constants
<1>2. PICK lay : lay = PacingLayout /\ lay = Layout(highest, 2, 0)
  BY DEF PacingLayout
<1>3. Fits(lay) /\ lay.unit = 0
  BY <1>1, <1>2, LayoutFits
<1>4. lay.sub + lay.unit + lay.buckets - 1 \in Nat
  BY <1>3 DEF Fits
<1>5. Untracked(lay) \in Nat
  BY <1>4, BitType DEF Untracked
<1> QED
  BY <1>2, <1>3, <1>5 DEF Top, Untracked

\* What has been recorded are the samples of the waits.
Recorded == HistogramOf(PacingLayout, pacing, SamplesOf(late), ValuesOf(late))

LEMMA RecordedInit == Init => Recorded
<1> SUFFICES ASSUME Init PROVE Recorded
  OBVIOUS
<1>1. late = <<>> /\ pacing = NewHistogram(PacingLayout)
  BY DEF Init
<1>2. SamplesOf(late) = {}
  BY <1>1 DEF SamplesOf
<1>3. PICK w : w = ValuesOf(late)
  OBVIOUS
<1>4. HistogramOf(PacingLayout, NewHistogram(PacingLayout), {}, w)
  BY NothingRecorded
<1> QED
  BY <1>1, <1>2, <1>3, <1>4 DEF Recorded

LEMMA RecordedStep == LoopInv /\ Recorded /\ [Next]_vars => Recorded'
<1> SUFFICES ASSUME LoopInv, Recorded, [Next]_vars PROVE Recorded'
  OBVIOUS
<1>1. CASE Wake
  <2>1. PICK t \in Nat : t = seq * frame_ns
    BY GridPoints DEF LoopInv, LoopTypes
  <2>2. PICK v \in 0 .. MaxTime : v = now - t
    <3>1. now - t \in 0 .. MaxTime
      BY <1>1, <2>1, Constants DEF Wake, Target, LoopInv, LoopTypes
    <3> QED
      BY <3>1
  <2>3. late' = Append(late, v) /\ pacing' = RecordWithExpectedInterval(PacingLayout, pacing, v, frame_ns)
    BY <1>1, <2>1, <2>2 DEF Wake, Target
  <2>4. PICK l \in Seq(0 .. MaxTime) : l = late
    BY DEF LoopInv, LoopTypes
  <2>5. PICK longer : longer = late'
    OBVIOUS
  <2>6. PICK h : h = pacing
    OBVIOUS
  <2>7. PICK g : g = pacing'
    OBVIOUS
  <2>8. /\ longer = Append(l, v) /\ g = RecordWithExpectedInterval(PacingLayout, h, v, frame_ns)
        /\ HistogramOf(PacingLayout, h, SamplesOf(l), ValuesOf(l))
    BY <2>3, <2>4, <2>5, <2>6, <2>7 DEF Recorded
  <2>9. HistogramOf(PacingLayout, g, SamplesOf(longer), ValuesOf(longer))
    BY <2>8, PacingFits, AppendWait
  <2> QED
    BY <2>5, <2>7, <2>9 DEF Recorded
<1>2. CASE UNCHANGED <<pacing, late>>
  BY <1>2 DEF Recorded
<1>3. CASE Tick
  BY <1>2, <1>3 DEF Tick, counts, history
<1>4. CASE Signal
  BY <1>2, <1>4 DEF Signal, counts, history
<1>5. CASE Take
  BY <1>2, <1>5 DEF Take, counts, history
<1>6. CASE PeerCloses
  BY <1>2, <1>6 DEF PeerCloses, counts, history
<1>7. CASE Open
  BY <1>2, <1>7 DEF Open, counts, history
<1>8. CASE OpenFails
  BY <1>2, <1>8 DEF OpenFails, counts, history
<1>9. CASE LoopHead
  BY <1>2, <1>9 DEF LoopHead, counts, history
<1>10. CASE StallEnd
  BY <1>2, <1>10 DEF StallEnd, counts, history
<1>11. CASE Push
  BY <1>2, <1>11 DEF Push, Done
<1>12. CASE PushFull
  BY <1>2, <1>12 DEF PushFull, Done
<1>13. CASE WriteSome
  BY <1>2, <1>13 DEF WriteSome, counts, history
<1>14. CASE WriteRest
  BY <1>2, <1>14 DEF WriteRest, Done
<1>15. CASE WriteFails
  BY <1>2, <1>15 DEF WriteFails, Done
<1>16. CASE EndTick
  BY <1>2, <1>16 DEF EndTick, counts
<1>17. CASE UNCHANGED vars
  BY <1>2, <1>17 DEF vars, counts, history
<1> QED
  BY <1>1, <1>3, <1>4, <1>5, <1>6, <1>7, <1>8, <1>9, <1>10, <1>11, <1>12, <1>13, <1>14, <1>15,
     <1>16, <1>17 DEF Next

\* The properties' sets are those of the invariant.
LEMMA TrackedIs ==
  ASSUME LoopInv
  PROVE  /\ Samples = SamplesOf(late)
         /\ \A s \in Samples : Value(s) = ValuesOf(late)[s] /\ Value(s) \in Nat
         /\ Tracked = TrackedOf(PacingLayout, SamplesOf(late), ValuesOf(late))
         /\ Tracked \subseteq Samples /\ IsFiniteSet(Samples)
<1>1. Samples = SamplesOf(late)
  BY DEF Samples, SamplesOf
<1>2. \A s \in Samples : Value(s) = ValuesOf(late)[s]
  BY <1>1 DEF Value, ValuesOf
<1>3. late \in Seq(0 .. MaxTime)
  BY DEF LoopInv, LoopTypes
<1>4. IsFiniteSet(Samples) /\ \A s \in Samples : ValuesOf(late)[s] \in Nat
  BY <1>1, <1>3, SamplesAre
<1>5. Tracked = TrackedOf(PacingLayout, SamplesOf(late), ValuesOf(late))
  BY <1>1, <1>2, PacingFits DEF Tracked, TrackedOf
<1>6. Tracked \subseteq Samples
  BY DEF Tracked
<1> QED
  BY <1>1, <1>2, <1>4, <1>5, <1>6

\* The buckets of the properties are those of the index.
LEMMA LowestIs ==
  ASSUME NEW i \in Indices(PacingLayout)
  PROVE  /\ i \in Nat
         /\ Lowest[i] = ValueFromIndex(PacingLayout, i) /\ Lowest[i] \in Nat
         /\ Lowest[i + 1] = ValueFromIndex(PacingLayout, i + 1) /\ Lowest[i + 1] \in Nat
<1>1. PICK lay : lay = PacingLayout /\ Fits(lay)
  BY PacingFits
<1>2. PICK n \in Nat : n = Size(lay) /\ Indices(lay) = 0 .. n - 1
  BY <1>1, Halves DEF Indices
<1>3. i \in Nat /\ i + 1 \in Nat /\ i \in 0 .. n /\ i + 1 \in 0 .. n /\ i # n
  BY <1>1, <1>2
<1>4. ValueFromIndex(lay, n) = Top
  BY <1>1, <1>2, LastValue, PacingFits
<1>5. \A j \in 0 .. n : Lowest[j] = ValueFromIndex(lay, j)
  BY <1>1, <1>2, <1>4 DEF Lowest
<1>6. ValueFromIndex(lay, i) \in Nat /\ ValueFromIndex(lay, i + 1) \in Nat
  BY <1>1, <1>3, NextValue
<1> QED
  BY <1>1, <1>3, <1>5, <1>6

LEMMA FaithfulOf == LoopInv /\ Recorded => HistogramFaithful
<1> SUFFICES ASSUME LoopInv, Recorded PROVE HistogramFaithful
  OBVIOUS
<1>1. PICK lay : lay = PacingLayout /\ Fits(lay) /\ Top = Untracked(lay) /\ Top \in Nat
  BY PacingFits
<1>2. PICK S : S = SamplesOf(late)
  OBVIOUS
<1>3. PICK w : w = ValuesOf(late)
  OBVIOUS
<1>4. PICK T : T = TrackedOf(lay, S, w)
  OBVIOUS
<1>5. /\ Samples = S /\ Tracked = T /\ T \subseteq S
      /\ \A s \in S : Value(s) = w[s] /\ w[s] \in Nat
      /\ \A s \in T : w[s] < Top
  <2>1. Samples = S /\ Tracked = T /\ T \subseteq S /\ \A s \in S : Value(s) = w[s] /\ w[s] \in Nat
    BY <1>1, <1>2, <1>3, <1>4, TrackedIs
  <2>2. \A s \in T : w[s] < Top
    BY <1>1, <1>4 DEF TrackedOf
  <2> QED
    BY <2>1, <2>2
<1>6. /\ pacing.counts \in [Indices(lay) -> Nat]
      /\ \A i \in Indices(lay) : pacing.counts[i] = Cardinality(InBucket(lay, S, w, i))
      /\ pacing.total = Cardinality(T) /\ pacing.overflow = Cardinality(S \ T)
      /\ pacing.max \in Nat /\ pacing.min \in Nat
      /\ \A s \in T : pacing.min <= w[s] /\ w[s] <= pacing.max
      /\ T = {} => pacing.max = 0 /\ pacing.min = 0
      /\ T # {} => \E s, t \in T : w[s] = pacing.max /\ w[t] = pacing.min
  BY <1>1, <1>2, <1>3, <1>4 DEF Recorded, HistogramOf, CountsOf, ExtremesOf
<1>7. TypeOK
  BY <1>1, <1>6 DEF TypeOK, LoopInv, LoopTypes
<1>8. ASSUME NEW i \in Indices(PacingLayout)
      PROVE  pacing.counts[i]
               = Cardinality({s \in Tracked : Value(s) \in Lowest[i] .. Lowest[i + 1] - 1})
  <2>1. /\ i \in Nat
        /\ Lowest[i] = ValueFromIndex(lay, i) /\ Lowest[i] \in Nat
        /\ Lowest[i + 1] = ValueFromIndex(lay, i + 1) /\ Lowest[i + 1] \in Nat
    BY <1>1, LowestIs
  <2>2. ASSUME NEW s \in T
        PROVE  CountsIndex(lay, w[s]) = i <=> Value(s) \in Lowest[i] .. Lowest[i + 1] - 1
    <3>1. PICK v \in Nat : v = w[s] /\ v = Value(s) /\ v < Untracked(lay)
      BY <1>1, <1>5
    <3>2. CountsIndex(lay, v) = i <=> ValueFromIndex(lay, i) <= v /\ v < ValueFromIndex(lay, i + 1)
      BY <1>1, <3>1, IndexRange
    <3>3. CountsIndex(lay, v) = i <=> Lowest[i] <= v /\ v < Lowest[i + 1]
      BY <2>1, <3>2
    <3>4. v \in Lowest[i] .. Lowest[i + 1] - 1 <=> Lowest[i] <= v /\ v < Lowest[i + 1]
      BY <2>1
    <3> QED
      BY <3>1, <3>3, <3>4
  <2>3. InBucket(lay, S, w, i) = {s \in T : CountsIndex(lay, w[s]) = i}
    BY <1>4 DEF InBucket
  <2>4. InBucket(lay, S, w, i) = {s \in Tracked : Value(s) \in Lowest[i] .. Lowest[i + 1] - 1}
    BY <1>5, <2>2, <2>3
  <2> QED
    BY <1>1, <1>6, <2>4
<1>9. Values = {w[s] : s \in T}
  BY <1>5 DEF Values
<1>10. pacing.max = Max(Values \cup {0})
  <2>1. pacing.max \in Values \cup {0}
    BY <1>6, <1>9
  <2>2. \A y \in Values \cup {0} : pacing.max >= y /\ y \in Nat
    BY <1>5, <1>6, <1>9
  <2>3. \A x \in Values \cup {0} : (\A y \in Values \cup {0} : x >= y) => x = pacing.max
    BY <2>1, <2>2
  <2>4. Max(Values \cup {0}) = CHOOSE x \in Values \cup {0} : \A y \in Values \cup {0} : x >= y
    BY DEF Max
  <2> QED
    BY <2>1, <2>2, <2>3, <2>4
<1>11. pacing.min = IF Values = {} THEN 0 ELSE Min(Values)
  <2>1. CASE Values = {}
    BY <1>6, <1>9, <2>1
  <2>2. CASE Values # {}
    <3>1. T # {} /\ pacing.min \in Values
      BY <1>6, <1>9, <2>2
    <3>2. \A y \in Values : pacing.min <= y /\ y \in Nat
      BY <1>5, <1>6, <1>9
    <3>3. \A x \in Values : (\A y \in Values : x <= y) => x = pacing.min
      BY <1>6, <3>1, <3>2
    <3>4. Min(Values) = CHOOSE x \in Values : \A y \in Values : x <= y
      BY DEF Min
    <3> QED
      BY <2>2, <3>1, <3>2, <3>3, <3>4
  <2> QED
    BY <2>1, <2>2
<1> QED
  BY <1>5, <1>6, <1>7, <1>8, <1>10, <1>11 DEF HistogramFaithful

LEMMA RecordedInvariant == Spec => [](LoopInv /\ Recorded)
<1>1. Init => LoopInv /\ Recorded
  BY LoopInit, RecordedInit
<1>2. LoopInv /\ Recorded /\ [Next]_vars => LoopInv' /\ Recorded'
  BY LoopStep, RecordedStep
<1> QED
  BY <1>1, <1>2, PTL DEF Spec

\* Every sample that a wait stands for is in the bucket around it, once, those beyond
\* the range are counted apart, and the extremes are those of what was counted.
THEOREM EverySampleCounted == Spec => []HistogramFaithful
BY RecordedInvariant, FaithfulOf, PTL

\* The index of a bucket and its values are each other's inverse, for every layout of
\* the check and a word of any width, and a merge loses and adds nothing.
THEOREM TableExact == Spec => []BucketsExact
<1>1. BucketsExact
  BY IndexIsExact, MergeIsExact DEF BucketsExact
<1> QED
  BY <1>1, PTL

-----------------------------------------------------------------------------
(* Sums of a table.                                                        *)

IsRunning(g, table, n) == g = [k \in 0 .. n |-> IF k = 0 THEN 0 ELSE g[k - 1] + table[k - 1]]

Running(table, n) == CHOOSE g : IsRunning(g, table, n)

LEMMA SumOfRunning ==
  ASSUME NEW table, NEW n
  PROVE  SumOfFirst(table, n) = Running(table, n)[n]
BY DEF SumOfFirst, Running, IsRunning

LEMMA RunningExists ==
  ASSUME NEW table, NEW n \in Nat
  PROVE  IsRunning(Running(table, n), table, n)
<1> DEFINE S == {m \in Nat : \E g : IsRunning(g, table, m)}
<1>1. 0 \in S
  <2>1. IsRunning([k \in 0 .. 0 |-> 0], table, 0)
    BY DEF IsRunning
  <2> QED
    BY <2>1
<1>2. ASSUME NEW m \in Nat, m \in S PROVE m + 1 \in S
  <2>1. PICK g : IsRunning(g, table, m)
    BY <1>2
  <2> DEFINE h == [k \in 0 .. m + 1 |-> IF k = m + 1 THEN g[m] + table[m] ELSE g[k]]
  <2>2. \A k \in 0 .. m : g[k] = IF k = 0 THEN 0 ELSE g[k - 1] + table[k - 1]
    BY <2>1 DEF IsRunning
  <2>3. \A k \in 0 .. m + 1 : h[k] = IF k = 0 THEN 0 ELSE h[k - 1] + table[k - 1]
    BY <2>2
  <2>4. DOMAIN h = 0 .. m + 1 /\ h = [k \in DOMAIN h |-> h[k]]
    OBVIOUS
  <2> HIDE DEF h
  <2>5. h = [k \in 0 .. m + 1 |-> IF k = 0 THEN 0 ELSE h[k - 1] + table[k - 1]]
    BY <2>3, <2>4
  <2>6. IsRunning(h, table, m + 1)
    BY <2>5 DEF IsRunning
  <2> QED
    BY <2>6
<1> HIDE DEF S
<1>3. n \in S
  BY <1>1, <1>2, Induction
<1> QED
  BY <1>3 DEF S, Running

LEMMA RunningAgrees ==
  ASSUME NEW table, NEW n \in Nat
  PROVE  Running(table, n + 1)[n] = Running(table, n)[n]
<1> DEFINE g == Running(table, n)
           h == Running(table, n + 1)
           S == {k \in Nat : k <= n => h[k] = g[k]}
<1>1. IsRunning(g, table, n) /\ IsRunning(h, table, n + 1)
  BY RunningExists
<1> HIDE DEF g, h
<1>2. \A k \in 0 .. n : g[k] = IF k = 0 THEN 0 ELSE g[k - 1] + table[k - 1]
  BY <1>1 DEF IsRunning
<1>3. \A k \in 0 .. n + 1 : h[k] = IF k = 0 THEN 0 ELSE h[k - 1] + table[k - 1]
  BY <1>1 DEF IsRunning
<1>4. 0 \in S
  BY <1>2, <1>3
<1>5. ASSUME NEW k \in Nat, k \in S PROVE k + 1 \in S
  <2> SUFFICES ASSUME k + 1 <= n PROVE h[k + 1] = g[k + 1]
    OBVIOUS
  <2>1. h[k] = g[k] /\ k + 1 - 1 = k /\ k + 1 # 0
    BY <1>5
  <2>2. h[k + 1] = h[k] + table[k] /\ g[k + 1] = g[k] + table[k]
    BY <1>2, <1>3, <2>1
  <2> QED
    BY <2>1, <2>2
<1> HIDE DEF S
<1>6. \A k \in Nat : k \in S
  BY <1>4, <1>5, Induction
<1> QED
  BY <1>6 DEF S, g, h

LEMMA SumUnfold ==
  ASSUME NEW table
  PROVE  /\ SumOfFirst(table, 0) = 0
         /\ \A n \in Nat : SumOfFirst(table, n + 1) = SumOfFirst(table, n) + table[n]
<1>1. SumOfFirst(table, 0) = 0
  <2>1. IsRunning(Running(table, 0), table, 0)
    BY RunningExists
  <2>2. Running(table, 0)[0] = 0
    BY <2>1 DEF IsRunning
  <2> QED
    BY <2>2, SumOfRunning
<1>2. ASSUME NEW n \in Nat PROVE SumOfFirst(table, n + 1) = SumOfFirst(table, n) + table[n]
  <2>1. IsRunning(Running(table, n + 1), table, n + 1)
    BY RunningExists
  <2>2. Running(table, n + 1)[n + 1] = Running(table, n + 1)[n] + table[n]
    BY <2>1 DEF IsRunning
  <2>3. Running(table, n + 1)[n] = Running(table, n)[n]
    BY RunningAgrees
  <2> QED
    BY <2>2, <2>3, SumOfRunning
<1> QED
  BY <1>1, <1>2

\* The sum of a table of zeros.
LEMMA SumOfZeros ==
  ASSUME NEW table, NEW n \in Nat, \A k \in 0 .. n - 1 : table[k] = 0
  PROVE  SumOfFirst(table, n) = 0
<1> DEFINE S == {m \in Nat : m <= n => SumOfFirst(table, m) = 0}
<1>1. 0 \in S
  BY SumUnfold
<1>2. ASSUME NEW m \in Nat, m \in S PROVE m + 1 \in S
  BY <1>2, SumUnfold
<1> HIDE DEF S
<1>3. n \in S
  BY <1>1, <1>2, Induction
<1> QED
  BY <1>3 DEF S

\* One entry of a table of n has grown by d.
GrownAt(table, other, n, j, d) ==
  \A k \in 0 .. n - 1 : /\ table[k] \in Int
                        /\ other[k] = IF k = j THEN table[k] + d ELSE table[k]

LEMMA SumGrownAt ==
  ASSUME NEW n \in Nat, NEW j \in 0 .. n - 1, NEW d \in Int,
         NEW table, NEW other, GrownAt(table, other, n, j, d)
  PROVE  SumOfFirst(other, n) = SumOfFirst(table, n) + d
<1> DEFINE S == {m \in Nat : m <= n => /\ SumOfFirst(table, m) \in Int
                                       /\ SumOfFirst(other, m) = SumOfFirst(table, m)
                                                                   + (IF j < m THEN d ELSE 0)}
<1>1. 0 \in S
  BY SumUnfold
<1>2. ASSUME NEW m \in Nat, m \in S PROVE m + 1 \in S
  <2> SUFFICES ASSUME m + 1 <= n
               PROVE  /\ SumOfFirst(table, m + 1) \in Int
                      /\ SumOfFirst(other, m + 1) = SumOfFirst(table, m + 1)
                                                      + (IF j < m + 1 THEN d ELSE 0)
    OBVIOUS
  <2>1. /\ SumOfFirst(table, m) \in Int /\ m \in 0 .. n - 1
        /\ SumOfFirst(other, m) = SumOfFirst(table, m) + (IF j < m THEN d ELSE 0)
    BY <1>2
  <2>2. /\ SumOfFirst(table, m + 1) = SumOfFirst(table, m) + table[m]
        /\ SumOfFirst(other, m + 1) = SumOfFirst(other, m) + other[m]
    BY SumUnfold
  <2>3. table[m] \in Int /\ other[m] = table[m] + (IF m = j THEN d ELSE 0)
    BY <2>1 DEF GrownAt
  <2> QED
    BY <2>1, <2>2, <2>3
<1> HIDE DEF S
<1>3. n \in S
  BY <1>1, <1>2, Induction
<1> QED
  BY <1>3 DEF S

-----------------------------------------------------------------------------
(* Percentiles.                                                            *)

Below(T, w, x) == {s \in T : w[s] < x}

\* The running count at a bucket is that of the values below its end.
LEMMA CountBelow ==
  ASSUME NEW L, Fits(L), NEW S, IsFiniteSet(S), NEW w, \A s \in S : w[s] \in Nat,
         NEW h, HistogramOf(L, h, S, w), NEW T, T = TrackedOf(L, S, w)
  PROVE  \A i \in Nat : i <= Size(L) =>
           SumOfFirst(h.counts, i) = Cardinality(Below(T, w, ValueFromIndex(L, i)))
<1> DEFINE P(i) == SumOfFirst(h.counts, i) = Cardinality(Below(T, w, ValueFromIndex(L, i)))
           B == {i \in Nat : i <= Size(L) => P(i)}
<1>1. PICK n \in Nat : n = Size(L) /\ Indices(L) = 0 .. n - 1
  BY Halves DEF Indices
<1>2. /\ T \subseteq S /\ \A s \in T : w[s] \in Nat /\ w[s] < Untracked(L)
      /\ IsFiniteSet(T) /\ \A U \in SUBSET T : IsFiniteSet(U) /\ Cardinality(U) \in Nat
  <2>1. T \subseteq S /\ \A s \in T : w[s] \in Nat /\ w[s] < Untracked(L)
    BY DEF TrackedOf
  <2>2. \A U \in SUBSET S : IsFiniteSet(U) /\ Cardinality(U) \in Nat
    BY FS_Subset, FS_CardinalityType
  <2> QED
    BY <2>1, <2>2
<1>3. 0 \in B
  <2>1. Below(T, w, 0) = {}
    BY <1>2 DEF Below
  <2> QED
    BY <2>1, FirstValue, SumUnfold, FS_EmptySet
<1>4. ASSUME NEW i \in Nat, i \in B PROVE i + 1 \in B
  <2> SUFFICES ASSUME i + 1 <= n PROVE P(i + 1)
    BY <1>1
  <2>1. i \in Indices(L) /\ P(i)
    BY <1>1, <1>4
  <2>2. PICK a \in Nat, b \in Nat : a = ValueFromIndex(L, i) /\ b = ValueFromIndex(L, i + 1) /\ a <= b
    BY NextValue
  <2>3. \A s \in T : CountsIndex(L, w[s]) = i <=> a <= w[s] /\ w[s] < b
    BY <1>2, <2>1, <2>2, IndexRange
  <2>4. InBucket(L, S, w, i) = {s \in T : a <= w[s] /\ w[s] < b}
    BY <2>3 DEF InBucket
  <2>5. /\ Below(T, w, b) = Below(T, w, a) \cup InBucket(L, S, w, i)
        /\ Below(T, w, a) \cap InBucket(L, S, w, i) = {}
    BY <1>2, <2>2, <2>4 DEF Below
  <2>6. Below(T, w, a) \in SUBSET T /\ InBucket(L, S, w, i) \in SUBSET T
    BY <2>4 DEF Below
  <2>7. Cardinality(Below(T, w, b)) = Cardinality(Below(T, w, a)) + Cardinality(InBucket(L, S, w, i))
    <3>1. PICK U : U = Below(T, w, a) /\ IsFiniteSet(U) /\ Cardinality(U) \in Nat
      BY <1>2, <2>6
    <3>2. PICK V : V = InBucket(L, S, w, i) /\ IsFiniteSet(V) /\ Cardinality(V) \in Nat
      BY <1>2, <2>6
    <3>3. Cardinality(U \cup V) = Cardinality(U) + Cardinality(V) - Cardinality(U \cap V)
      BY <3>1, <3>2, FS_Union
    <3>4. Cardinality(U \cap V) = 0
      BY <2>5, <3>1, <3>2, FS_EmptySet
    <3> QED
      BY <2>5, <3>1, <3>2, <3>3, <3>4
  <2>8. h.counts[i] = Cardinality(InBucket(L, S, w, i))
    BY <2>1 DEF HistogramOf, CountsOf
  <2>9. SumOfFirst(h.counts, i + 1) = SumOfFirst(h.counts, i) + h.counts[i]
    BY SumUnfold
  <2> QED
    BY <2>1, <2>2, <2>7, <2>8, <2>9
<1> HIDE DEF B
<1>5. \A i \in Nat : i \in B
  BY <1>3, <1>4, Induction
<1> QED
  BY <1>5 DEF B

\* The bucket that a rank leads to is that of the sample of the rank.
LEMMA RankReaches ==
  ASSUME NEW L, Fits(L), NEW S, IsFiniteSet(S), NEW w, \A s \in S : w[s] \in Nat,
         NEW h, HistogramOf(L, h, S, w), NEW T, T = TrackedOf(L, S, w),
         NEW x \in T, NEW v, v = w[x],
         NEW target \in Cardinality(Below(T, w, v)) + 1 .. Cardinality(Below(T, w, v + 1)),
         NEW i, i = CountsIndex(L, v)
  PROVE  /\ i \in Indices(L) /\ Reaching(h, target) # {} /\ Min(Reaching(h, target)) = i
         /\ ValueFromIndex(L, i) <= v /\ v < ValueFromIndex(L, i + 1)
<1>1. PICK n \in Nat : n = Size(L) /\ Indices(L) = 0 .. n - 1
  BY Halves DEF Indices
<1>2. /\ T \subseteq S /\ \A s \in T : w[s] \in Nat /\ w[s] < Untracked(L)
      /\ \A U \in SUBSET T : /\ IsFiniteSet(U) /\ Cardinality(U) \in Nat
                             /\ \A V \in SUBSET U : Cardinality(V) <= Cardinality(U)
  <2>1. T \subseteq S /\ \A s \in T : w[s] \in Nat /\ w[s] < Untracked(L)
    BY DEF TrackedOf
  <2>2. \A U \in SUBSET S : IsFiniteSet(U) /\ Cardinality(U) \in Nat
    BY FS_Subset, FS_CardinalityType
  <2>3. \A U \in SUBSET T : \A V \in SUBSET U : Cardinality(V) <= Cardinality(U)
    BY <2>1, <2>2, FS_Subset
  <2> QED
    BY <2>1, <2>2, <2>3
<1>3. v \in Nat /\ v < Untracked(L)
  BY <1>2
<1>4. i \in Indices(L) /\ ValueFromIndex(L, i) <= v /\ v < ValueFromIndex(L, i + 1)
  BY <1>3, IndexRange
<1>5. i \in Nat /\ i + 1 \in Nat /\ i + 1 <= n
  BY <1>1, <1>4
<1>6. DOMAIN h.counts = Indices(L) /\ \A j \in Indices(L) : h.counts[j] = Cardinality(InBucket(L, S, w, j))
  BY DEF HistogramOf, CountsOf
<1>7. \A j \in Nat : j <= n => SumOfFirst(h.counts, j) = Cardinality(Below(T, w, ValueFromIndex(L, j)))
  BY <1>1, CountBelow
<1>8. \A a \in Int, b \in Int : a <= b => Cardinality(Below(T, w, a)) <= Cardinality(Below(T, w, b))
  <2> SUFFICES ASSUME NEW a \in Int, NEW b \in Int, a <= b
               PROVE  Cardinality(Below(T, w, a)) <= Cardinality(Below(T, w, b))
    OBVIOUS
  <2>1. Below(T, w, a) \subseteq Below(T, w, b) /\ Below(T, w, b) \in SUBSET T
    BY <1>2 DEF Below
  <2> QED
    BY <1>2, <2>1
<1>9. \A a : Cardinality(Below(T, w, a)) \in Nat
  BY <1>2 DEF Below
<1>10. target \in Nat /\ target > Cardinality(Below(T, w, v)) /\ target <= Cardinality(Below(T, w, v + 1))
  BY <1>9
<1>11. i \in Reaching(h, target)
  <2>1. h.counts[i] # 0
    <3>1. x \in InBucket(L, S, w, i) /\ InBucket(L, S, w, i) \in SUBSET T
      BY DEF InBucket
    <3>2. Cardinality(InBucket(L, S, w, i)) # 0
      BY <1>2, <3>1, FS_EmptySet
    <3> QED
      BY <1>4, <1>6, <3>2
  <2>2. PICK b \in Nat : b = ValueFromIndex(L, i + 1)
    BY <1>5, NextValue
  <2>3. SumOfFirst(h.counts, i + 1) = Cardinality(Below(T, w, b))
    BY <1>5, <1>7, <2>2
  <2>4. v + 1 <= b
    BY <1>3, <1>4, <2>2
  <2>5. Cardinality(Below(T, w, v + 1)) <= Cardinality(Below(T, w, b))
    BY <1>3, <1>8, <2>4
  <2>6. SumOfFirst(h.counts, i + 1) >= target
    BY <1>9, <1>10, <2>3, <2>5
  <2> QED
    BY <1>4, <1>6, <2>1, <2>6 DEF Reaching
<1>12. \A j \in Reaching(h, target) : j \in Nat /\ i <= j
  <2> SUFFICES ASSUME NEW j \in Reaching(h, target) PROVE j \in Nat /\ i <= j
    OBVIOUS
  <2>1. j \in Indices(L) /\ SumOfFirst(h.counts, j + 1) >= target
    BY <1>6 DEF Reaching
  <2>2. j \in Nat /\ j + 1 \in Nat /\ j + 1 <= n
    BY <1>1, <2>1
  <2>3. ASSUME j < i PROVE FALSE
    <3>1. ValueFromIndex(L, j + 1) <= ValueFromIndex(L, i)
      BY <1>5, <2>2, <2>3, ValuesGrow
    <3>2. PICK b \in Nat : b = ValueFromIndex(L, j + 1)
      BY <2>2, NextValue
    <3>3. ValueFromIndex(L, i) \in Nat
      BY <1>5, NextValue
    <3>4. b <= v
      BY <1>3, <1>4, <3>1, <3>2, <3>3
    <3>5. SumOfFirst(h.counts, j + 1) = Cardinality(Below(T, w, b))
      BY <1>7, <2>2, <3>2
    <3>6. Cardinality(Below(T, w, b)) <= Cardinality(Below(T, w, v))
      BY <1>3, <1>8, <3>4
    <3> QED
      BY <1>9, <1>10, <2>1, <3>5, <3>6
  <2> QED
    BY <1>5, <2>2, <2>3
<1>13. Min(Reaching(h, target)) = i
  <2>1. PICK R : R = Reaching(h, target)
    OBVIOUS
  <2>2. i \in R /\ \A j \in R : j \in Nat /\ i <= j
    BY <1>11, <1>12, <2>1
  <2>3. \A k \in R : (\A j \in R : k <= j) => k = i
    BY <1>5, <2>2
  <2>4. Min(R) = CHOOSE k \in R : \A j \in R : k <= j
    BY DEF Min
  <2> QED
    BY <2>1, <2>2, <2>3, <2>4
<1> QED
  BY <1>4, <1>11, <1>13

\* What is reported for a rank is near the sample of the rank, from above.
LEMMA ReportedNear ==
  ASSUME NEW L, Fits(L), L.unit = 0, NEW S, IsFiniteSet(S), NEW w, \A s \in S : w[s] \in Nat,
         NEW h, HistogramOf(L, h, S, w), NEW T, T = TrackedOf(L, S, w),
         NEW x \in T, NEW v, v = w[x],
         NEW target \in Cardinality(Below(T, w, v)) + 1 .. Cardinality(Below(T, w, v + 1)),
         NEW r, r = ValueAtRank(L, h, target)
  PROVE  r \in v .. h.max /\ (r - v) * Half(L) <= v
<1>1. PICK i : i = CountsIndex(L, v)
  OBVIOUS
<1>2. /\ i \in Indices(L) /\ Reaching(h, target) # {} /\ Min(Reaching(h, target)) = i
      /\ ValueFromIndex(L, i) <= v /\ v < ValueFromIndex(L, i + 1)
  BY <1>1, RankReaches
<1>3. /\ i \in Nat
      /\ HighestEquivalent(L, ValueFromIndex(L, i)) = ValueFromIndex(L, i + 1) - 1
  BY <1>2, RangeOfBucket
<1>4. PICK a \in Nat : a = ValueFromIndex(L, i)
  BY <1>3, NextValue
<1>5. PICK d \in Nat : d >= 1 /\ d = Width(L, i) /\ ValueFromIndex(L, i + 1) = a + d
  BY <1>3, <1>4, NextValue
<1>6. v \in Nat /\ a <= v /\ v < a + d
  <2>1. v \in Nat
    BY DEF TrackedOf
  <2> QED
    BY <1>2, <1>4, <1>5, <2>1
<1>7. h.max \in Nat /\ v <= h.max
  BY DEF HistogramOf, ExtremesOf
<1>8. r = Smaller(a + d - 1, h.max)
  BY <1>2, <1>3, <1>5 DEF ValueAtRank
<1>9. r \in v .. h.max /\ r <= a + d - 1
  BY <1>6, <1>7, <1>8 DEF Smaller
<1>10. PICK c \in Nat : c = Half(L)
  BY Halves
<1>11. (r - v) * c <= v
  <2>1. CASE d = 1
    <3>1. r - v = 0
      BY <1>6, <1>9, <2>1
    <3> QED
      BY <1>6, <3>1
  <2>2. CASE d # 1
    <3>1. c * d <= a
      BY <1>3, <1>4, <1>5, <1>10, <2>2, BitUnfold, Resolution
    <3>2. r - v \in Int /\ r - v <= d
      BY <1>6, <1>9
    <3>3. (r - v) * c <= d * c
      BY <3>2, TimesGrows
    <3>4. d * c = c * d /\ c * d \in Nat /\ (r - v) * c \in Int
      BY <3>2
    <3> QED
      BY <1>6, <3>1, <3>3, <3>4
  <2> QED
    BY <2>1, <2>2
<1> QED
  BY <1>9, <1>10, <1>11

-----------------------------------------------------------------------------
(* The mean.                                                               *)

\* What the medians add up to, bucket by bucket, and what the samples do, value by
\* value, over the samples T.
MedianAt(L, i) == MedianEquivalent(L, ValueFromIndex(L, i))

InBucketOf(L, T, w, i) == {s \in T : CountsIndex(L, w[s]) = i}

WithValue(T, w, v) == {s \in T : w[s] = v}

Medians(L, T, w) == [i \in Indices(L) |-> Cardinality(InBucketOf(L, T, w, i)) * MedianAt(L, i)]

Total(L, T, w) == [v \in 0 .. Untracked(L) - 1 |-> v * Cardinality(WithValue(T, w, v))]

\* a is within 1/c of b.
Near(c, a, b) == a \in Int /\ b \in Int /\ c * (a - b) <= b /\ c * (b - a) <= b

\* The median of a bucket is near each of its values.
LEMMA MedianNear ==
  ASSUME NEW L, Fits(L), L.unit = 0, NEW v \in Nat, v < Untracked(L),
         NEW i, i = CountsIndex(L, v)
  PROVE  i \in Indices(L) /\ Near(2 * Half(L), MedianAt(L, i), v)
<1>1. i \in Indices(L) /\ ValueFromIndex(L, i) <= v /\ v < ValueFromIndex(L, i + 1)
  BY IndexRange
<1>2. /\ i \in Nat
      /\ EquivalentRange(L, ValueFromIndex(L, i)) = Width(L, i)
  BY <1>1, RangeOfBucket
<1>3. PICK a \in Nat : a = ValueFromIndex(L, i)
  BY <1>2, NextValue
<1>4. PICK d \in Nat : d >= 1 /\ d = Width(L, i) /\ ValueFromIndex(L, i + 1) = a + d
  BY <1>2, <1>3, NextValue
<1>5. PICK m \in Nat : m = MedianAt(L, i) /\ m = a + d \div 2
  <2>1. MedianAt(L, i) = a + d \div 2
    BY <1>2, <1>3, <1>4 DEF MedianAt, MedianEquivalent
  <2>2. a + d \div 2 \in Nat
    OBVIOUS
  <2> QED
    BY <2>1, <2>2
<1>6. a <= v /\ v < a + d
  BY <1>1, <1>3, <1>4
<1>7. 2 * (m - v) <= d /\ 2 * (v - m) <= d
  BY <1>4, <1>5, <1>6
<1>8. PICK c \in Nat : c = Half(L)
  BY Halves
<1>9. (2 * c) * (m - v) <= v /\ (2 * c) * (v - m) <= v
  <2>1. CASE d = 1
    <3>1. m - v = 0 /\ v - m = 0
      BY <1>5, <1>6, <2>1
    <3> QED
      BY <3>1
  <2>2. CASE d # 1
    <3>1. c * d <= a /\ c * d \in Nat
      BY <1>2, <1>3, <1>4, <1>8, <2>2, BitUnfold, Resolution
    <3>2. PICK e \in Int : e = m - v
      OBVIOUS
    <3>3. 2 * e <= d /\ 2 * (- e) <= d /\ v - m = - e
      BY <1>7, <3>2
    <3>4. (2 * e) * c <= d * c /\ (2 * (- e)) * c <= d * c
      BY <3>3, TimesGrows
    <3>5. (2 * e) * c = (2 * c) * e /\ (2 * (- e)) * c = (2 * c) * (- e) /\ d * c = c * d
      OBVIOUS
    <3>6. (2 * c) * e \in Int /\ (2 * c) * (- e) \in Int
      OBVIOUS
    <3>7. (2 * c) * e <= v /\ (2 * c) * (- e) <= v
      BY <1>6, <3>1, <3>4, <3>5, <3>6
    <3> QED
      BY <3>2, <3>3, <3>7
  <2> QED
    BY <2>1, <2>2
<1> QED
  BY <1>1, <1>5, <1>8, <1>9 DEF Near

LEMMA NearAdds ==
  ASSUME NEW c \in Nat, NEW a, NEW b, Near(c, a, b), NEW m, NEW v, Near(c, m, v)
  PROVE  Near(c, a + m, b + v)
<1>1. a \in Int /\ b \in Int /\ c * (a - b) <= b /\ c * (b - a) <= b
  BY DEF Near
<1>2. m \in Int /\ v \in Int /\ c * (m - v) <= v /\ c * (v - m) <= v
  BY DEF Near
<1>3. PICK e \in Int : e = a - b /\ b - a = - e
  BY <1>1
<1>4. PICK f \in Int : f = m - v /\ v - m = - f
  BY <1>2
<1>5. PICK p \in Int : p = c * e /\ c * (- e) = - p
  OBVIOUS
<1>6. PICK q \in Int : q = c * f /\ c * (- f) = - q
  OBVIOUS
<1>7. p <= b /\ - p <= b /\ q <= v /\ - q <= v
  BY <1>1, <1>2, <1>3, <1>4, <1>5, <1>6
<1>8. (a + m) - (b + v) = e + f /\ (b + v) - (a + m) = - (e + f)
  BY <1>1, <1>2, <1>3, <1>4
<1>9. c * (e + f) = p + q /\ c * (- (e + f)) = - (p + q)
  BY <1>5, <1>6
<1>10. p + q <= b + v /\ - (p + q) <= b + v
  BY <1>1, <1>2, <1>7
<1> QED
  BY <1>1, <1>2, <1>8, <1>9, <1>10 DEF Near

\* One sample more in the two sums.
LEMMA SumsWithOneMore ==
  ASSUME NEW L, Fits(L), NEW T, IsFiniteSet(T), NEW w, NEW x, x \notin T,
         NEW v \in Nat, v = w[x], v < Untracked(L), NEW i \in Indices(L), i = CountsIndex(L, v),
         NEW U, U = T \cup {x}
  PROVE  /\ SumOfFirst(Medians(L, U, w), Size(L)) = SumOfFirst(Medians(L, T, w), Size(L)) + MedianAt(L, i)
         /\ SumOfFirst(Total(L, U, w), Untracked(L)) = SumOfFirst(Total(L, T, w), Untracked(L)) + v
<1>1. PICK n \in Nat : n = Size(L) /\ Indices(L) = 0 .. n - 1
  BY Halves DEF Indices
<1>2. PICK top \in Nat : top = Untracked(L)
  <2>1. L.sub + L.unit + L.buckets - 1 \in Nat
    BY DEF Fits
  <2> QED
    BY <2>1, BitType DEF Untracked
<1>3. \A V \in SUBSET T : IsFiniteSet(V) /\ Cardinality(V) \in Nat
  BY FS_Subset, FS_CardinalityType
<1>4. \A j \in 0 .. n - 1 : MedianAt(L, j) \in Int
  <2> SUFFICES ASSUME NEW j \in 0 .. n - 1 PROVE MedianAt(L, j) \in Int
    OBVIOUS
  <2>1. j \in Indices(L)
    BY <1>1
  <2>2. j \in Nat /\ EquivalentRange(L, ValueFromIndex(L, j)) = Width(L, j)
    BY <2>1, RangeOfBucket
  <2>3. ValueFromIndex(L, j) \in Nat /\ Width(L, j) \in Nat
    BY <2>2, NextValue
  <2>4. MedianAt(L, j) = ValueFromIndex(L, j) + Width(L, j) \div 2
    BY <2>2 DEF MedianAt, MedianEquivalent
  <2> QED
    BY <2>3, <2>4
<1>5. SumOfFirst(Medians(L, U, w), n) = SumOfFirst(Medians(L, T, w), n) + MedianAt(L, i)
  <2>1. PICK f : f = Medians(L, T, w)
    OBVIOUS
  <2>2. PICK g : g = Medians(L, U, w)
    OBVIOUS
  <2>3. ASSUME NEW j \in 0 .. n - 1
        PROVE  /\ f[j] \in Int
               /\ g[j] = IF j = i THEN f[j] + MedianAt(L, i) ELSE f[j]
    <3>1. PICK V : V = InBucketOf(L, T, w, j) /\ IsFiniteSet(V) /\ Cardinality(V) \in Nat
      BY <1>3 DEF InBucketOf
    <3>2. PICK k \in Nat : k = Cardinality(V)
      BY <3>1
    <3>3. PICK m \in Int : m = MedianAt(L, j)
      BY <1>4
    <3>4. f[j] = k * m
      BY <1>1, <2>1, <3>1, <3>2, <3>3 DEF Medians
    <3>5. g[j] = Cardinality(InBucketOf(L, U, w, j)) * m
      BY <1>1, <2>2, <3>3 DEF Medians
    <3>6. CASE j = i
      <4>1. InBucketOf(L, U, w, j) = V \cup {x} /\ x \notin V
        BY <3>1, <3>6 DEF InBucketOf
      <4>2. Cardinality(V \cup {x}) = k + 1
        BY <3>1, <3>2, <4>1, FS_AddElement
      <4>3. (k + 1) * m = k * m + m /\ k * m \in Int
        OBVIOUS
      <4>4. g[j] = (k + 1) * m
        BY <3>5, <4>1, <4>2
      <4> QED
        BY <3>3, <3>4, <3>6, <4>3, <4>4
    <3>7. CASE j # i
      <4>1. InBucketOf(L, U, w, j) = V
        BY <3>1, <3>7 DEF InBucketOf
      <4> QED
        BY <3>2, <3>4, <3>5, <3>7, <4>1
    <3> QED
      BY <3>6, <3>7
  <2>4. MedianAt(L, i) \in Int /\ i \in 0 .. n - 1
    BY <1>1, <1>4
  <2>5. PICK m \in Int : m = MedianAt(L, i)
    BY <2>4
  <2>6. SumOfFirst(g, n) = SumOfFirst(f, n) + m
    <3>1. GrownAt(f, g, n, i, m)
      BY <2>3, <2>5 DEF GrownAt
    <3> QED
      BY <2>4, <3>1, SumGrownAt
  <2> QED
    BY <2>1, <2>2, <2>5, <2>6
<1>6. SumOfFirst(Total(L, U, w), top) = SumOfFirst(Total(L, T, w), top) + v
  <2>1. PICK f : f = Total(L, T, w)
    OBVIOUS
  <2>2. PICK g : g = Total(L, U, w)
    OBVIOUS
  <2>3. ASSUME NEW j \in 0 .. top - 1
        PROVE  /\ f[j] \in Int
               /\ g[j] = IF j = v THEN f[j] + v ELSE f[j]
    <3>1. PICK V : V = WithValue(T, w, j) /\ IsFiniteSet(V) /\ Cardinality(V) \in Nat
      BY <1>3 DEF WithValue
    <3>2. PICK k \in Nat : k = Cardinality(V)
      BY <3>1
    <3>4. f[j] = j * k
      BY <1>2, <2>1, <3>1, <3>2 DEF Total
    <3>5. g[j] = j * Cardinality(WithValue(U, w, j))
      BY <1>2, <2>2 DEF Total
    <3>6. CASE j = v
      <4>1. WithValue(U, w, j) = V \cup {x} /\ x \notin V
        BY <3>1, <3>6 DEF WithValue
      <4>2. Cardinality(V \cup {x}) = k + 1
        BY <3>1, <3>2, <4>1, FS_AddElement
      <4>3. j * (k + 1) = j * k + j /\ j * k \in Int
        OBVIOUS
      <4>4. g[j] = j * (k + 1)
        BY <3>5, <4>1, <4>2
      <4> QED
        BY <3>4, <3>6, <4>3, <4>4
    <3>7. CASE j # v
      <4>1. WithValue(U, w, j) = V
        BY <3>1, <3>7 DEF WithValue
      <4> QED
        BY <3>2, <3>4, <3>5, <3>7, <4>1
    <3> QED
      BY <3>6, <3>7
  <2>4. v \in 0 .. top - 1 /\ v \in Int
    BY <1>2
  <2>5. SumOfFirst(g, top) = SumOfFirst(f, top) + v
    <3>1. GrownAt(f, g, top, v, v)
      BY <2>3 DEF GrownAt
    <3> QED
      BY <2>4, <3>1, SumGrownAt
  <2> QED
    BY <2>1, <2>2, <2>5
<1> QED
  BY <1>1, <1>2, <1>5, <1>6

LEMMA SumsOfNone ==
  ASSUME NEW L, Fits(L), NEW w
  PROVE  /\ SumOfFirst(Medians(L, {}, w), Size(L)) = 0
         /\ SumOfFirst(Total(L, {}, w), Untracked(L)) = 0
<1>1. PICK n \in Nat : n = Size(L) /\ Indices(L) = 0 .. n - 1
  BY Halves DEF Indices
<1>2. PICK top \in Nat : top = Untracked(L)
  <2>1. L.sub + L.unit + L.buckets - 1 \in Nat
    BY DEF Fits
  <2> QED
    BY <2>1, BitType DEF Untracked
<1>3. Cardinality({}) = 0
  BY FS_EmptySet
<1>4. PICK f : f = Medians(L, {}, w)
  OBVIOUS
<1>5. ASSUME NEW j \in 0 .. n - 1 PROVE f[j] = 0
  <2>1. InBucketOf(L, {}, w, j) = {}
    BY DEF InBucketOf
  <2>2. f[j] = 0 * MedianAt(L, j)
    BY <1>1, <1>3, <1>4, <2>1 DEF Medians
  <2>3. j \in Indices(L)
    BY <1>1
  <2>4. j \in Nat /\ EquivalentRange(L, ValueFromIndex(L, j)) = Width(L, j)
    BY <2>3, RangeOfBucket
  <2>5. ValueFromIndex(L, j) \in Nat /\ Width(L, j) \in Nat
    BY <2>4, NextValue
  <2>6. MedianAt(L, j) = ValueFromIndex(L, j) + Width(L, j) \div 2
    BY <2>4 DEF MedianAt, MedianEquivalent
  <2>7. MedianAt(L, j) \in Int
    BY <2>5, <2>6
  <2> QED
    BY <2>2, <2>7
<1>6. PICK g : g = Total(L, {}, w)
  OBVIOUS
<1>7. ASSUME NEW j \in 0 .. top - 1 PROVE g[j] = 0
  <2>1. WithValue({}, w, j) = {}
    BY DEF WithValue
  <2>2. g[j] = j * 0
    BY <1>2, <1>3, <1>6, <2>1 DEF Total
  <2> QED
    BY <2>2
<1>8. SumOfFirst(f, n) = 0
  BY <1>5, SumOfZeros
<1>9. SumOfFirst(g, top) = 0
  BY <1>7, SumOfZeros
<1> QED
  BY <1>1, <1>2, <1>4, <1>6, <1>8, <1>9

\* The sum of the medians is near that of the samples.
LEMMA MeanNear ==
  ASSUME NEW L, Fits(L), L.unit = 0, NEW S, IsFiniteSet(S),
         NEW w, \A s \in S : w[s] \in Nat /\ w[s] < Untracked(L)
  PROVE  Near(2 * Half(L), SumOfFirst(Medians(L, S, w), Size(L)), SumOfFirst(Total(L, S, w), Untracked(L)))
<1> DEFINE Close(T) == Near(2 * Half(L), SumOfFirst(Medians(L, T, w), Size(L)),
                                         SumOfFirst(Total(L, T, w), Untracked(L)))
           B == {n \in Nat : \A T \in SUBSET S : Cardinality(T) = n => Close(T)}
<1>1. \A T \in SUBSET S : IsFiniteSet(T) /\ Cardinality(T) \in Nat
  BY FS_Subset, FS_CardinalityType
<1>2. PICK c \in Nat : c = 2 * Half(L)
  <2>1. PICK h \in Nat : h = Half(L)
    BY Halves
  <2> QED
    BY <2>1
<1>3. Close({})
  <2>1. c * (0 - 0) <= 0
    OBVIOUS
  <2> QED
    BY <1>2, <2>1, SumsOfNone DEF Near
<1>4. 0 \in B
  <2>1. \A T \in SUBSET S : Cardinality(T) = 0 => T = {}
    BY <1>1, FS_EmptySet
  <2> HIDE DEF Close
  <2> QED
    BY <1>3, <2>1
<1>5. ASSUME NEW n \in Nat, n \in B PROVE n + 1 \in B
  <2> SUFFICES ASSUME NEW U \in SUBSET S, Cardinality(U) = n + 1 PROVE Close(U)
    OBVIOUS
  <2>1. U # {}
    BY FS_EmptySet
  <2>2. PICK x \in U : TRUE
    BY <2>1
  <2>3. PICK T \in SUBSET S : T = U \ {x}
    OBVIOUS
  <2>4. x \notin T /\ U = T \cup {x}
    BY <2>3
  <2>5. Cardinality(T) = n
    <3>1. IsFiniteSet(U) /\ x \in U
      BY <1>1
    <3>2. Cardinality(U \ {x}) = Cardinality(U) - 1
      BY <3>1, FS_RemoveElement
    <3> QED
      BY <2>3, <3>2
  <2>6. Close(T)
    BY <1>5, <2>5
  <2>7. PICK v \in Nat : v = w[x] /\ v < Untracked(L)
    BY <2>2
  <2>8. PICK i : i = CountsIndex(L, v)
    OBVIOUS
  <2>9. i \in Indices(L) /\ Near(c, MedianAt(L, i), v)
    BY <1>2, <2>7, <2>8, MedianNear
  <2>10. PICK a : a = SumOfFirst(Medians(L, T, w), Size(L))
    OBVIOUS
  <2>11. PICK b : b = SumOfFirst(Total(L, T, w), Untracked(L))
    OBVIOUS
  <2>12. Near(c, a, b)
    BY <1>2, <2>6, <2>10, <2>11
  <2>13. PICK m : m = MedianAt(L, i)
    OBVIOUS
  <2>14. Near(c, a + m, b + v)
    BY <2>9, <2>12, <2>13, NearAdds
  <2>15. IsFiniteSet(T)
    BY <1>1
  <2>16. /\ SumOfFirst(Medians(L, U, w), Size(L)) = a + m
         /\ SumOfFirst(Total(L, U, w), Untracked(L)) = b + v
    BY <2>4, <2>7, <2>8, <2>9, <2>10, <2>11, <2>13, <2>15, SumsWithOneMore
  <2> QED
    BY <1>2, <2>14, <2>16
<1> HIDE DEF B
<1>6. \A n \in Nat : n \in B
  BY <1>4, <1>5, Induction
<1>7. Cardinality(S) \in B
  BY <1>1, <1>6
<1> QED
  BY <1>7 DEF B

LEMMA SoundOf == LoopInv /\ Recorded => PercentileSound
<1> SUFFICES ASSUME LoopInv, Recorded PROVE PercentileSound
  OBVIOUS
<1>1. PICK lay : lay = PacingLayout /\ Fits(lay) /\ lay.unit = 0 /\ Top = Untracked(lay) /\ Top \in Nat
  BY PacingFits
<1>2. PICK S : S = SamplesOf(late)
  OBVIOUS
<1>3. PICK w : w = ValuesOf(late)
  OBVIOUS
<1>4. PICK T : T = TrackedOf(lay, S, w)
  OBVIOUS
<1>5. /\ Samples = S /\ Tracked = T /\ T \subseteq S /\ IsFiniteSet(S) /\ IsFiniteSet(T)
      /\ \A s \in S : Value(s) = w[s] /\ w[s] \in Nat
      /\ \A s \in T : w[s] \in Nat /\ w[s] < Untracked(lay)
  <2>1. /\ Samples = S /\ Tracked = T /\ T \subseteq S /\ IsFiniteSet(S)
        /\ \A s \in S : Value(s) = w[s] /\ w[s] \in Nat
    BY <1>1, <1>2, <1>3, <1>4, TrackedIs
  <2>2. \A s \in T : w[s] \in Nat /\ w[s] < Untracked(lay)
    BY <1>1, <1>4, <2>1 DEF TrackedOf
  <2>3. IsFiniteSet(T)
    BY <2>1, FS_Subset
  <2> QED
    BY <2>1, <2>2, <2>3
<1>6. PICK h : h = pacing /\ HistogramOf(lay, h, S, w)
  BY <1>1, <1>2, <1>3 DEF Recorded
<1>7. \A a : {s \in Tracked : Value(s) < a} = Below(T, w, a)
  BY <1>5 DEF Below
<1>8. ASSUME NEW v \in Values,
             NEW target \in Cardinality(Below(T, w, v)) + 1 .. Cardinality(Below(T, w, v + 1)),
             NEW r, r = ValueAtRank(lay, h, target)
      PROVE  r \in v .. h.max /\ (r - v) * Half(lay) <= v
  <2>1. PICK x \in T : v = w[x]
    BY <1>5 DEF Values
  <2> QED
    BY <1>1, <1>4, <1>5, <1>6, <1>8, <2>1, ReportedNear
<1>9. SumOfMedians(lay, h) = SumOfFirst(Medians(lay, T, w), Size(lay))
  <2>1. \A i \in Indices(lay) : h.counts[i] = Cardinality(InBucketOf(lay, T, w, i))
    <3>1. \A i : InBucket(lay, S, w, i) = InBucketOf(lay, T, w, i)
      BY <1>4 DEF InBucket, InBucketOf
    <3> QED
      BY <1>6, <3>1 DEF HistogramOf, CountsOf
  <2>2. [i \in Indices(lay) |-> h.counts[i] * MedianEquivalent(lay, ValueFromIndex(lay, i))]
          = Medians(lay, T, w)
    BY <2>1 DEF Medians, MedianAt
  <2> QED
    BY <2>2 DEF SumOfMedians
<1>10. [v \in 0 .. Top - 1 |-> v * Cardinality({s \in Tracked : Value(s) = v})] = Total(lay, T, w)
  <2>1. \A v : {s \in Tracked : Value(s) = v} = WithValue(T, w, v)
    BY <1>5 DEF WithValue
  <2> QED
    BY <1>1, <2>1 DEF Total
<1>11. PICK total : total = SumOfFirst([v \in 0 .. Top - 1 |->
                                          v * Cardinality({s \in Tracked : Value(s) = v})], Top)
  OBVIOUS
<1>12. PICK a : a = SumOfMedians(lay, h)
  OBVIOUS
<1>13. Near(2 * Half(lay), a, total)
  <2>1. Near(2 * Half(lay), SumOfFirst(Medians(lay, T, w), Size(lay)),
             SumOfFirst(Total(lay, T, w), Untracked(lay)))
    BY <1>1, <1>5, MeanNear
  <2> QED
    BY <1>1, <1>9, <1>10, <1>11, <1>12, <2>1
<1>14. 2 * Half(lay) * Magnitude(a - total) <= total
  <2>1. a - total \in Int /\ total - a = - (a - total)
    BY <1>13 DEF Near
  <2>2. Magnitude(a - total) = a - total \/ Magnitude(a - total) = total - a
    BY <2>1 DEF Magnitude
  <2> QED
    BY <1>13, <2>2 DEF Near
<1> QED
  BY <1>1, <1>6, <1>7, <1>8, <1>11, <1>12, <1>14 DEF PercentileSound

\* What is reported for a rank is never below the sample of that rank, above it by no
\* more than the resolution, and no more than was recorded; the mean is off by no more
\* than half of the resolution.
THEOREM ReportsSound == Spec => []PercentileSound
BY RecordedInvariant, SoundOf, PTL

-----------------------------------------------------------------------------
(* The codec.                                                              *)

LEMMA SmallBits ==
  /\ Bit(0) = 1 /\ Bit(1) = 2 /\ Bit(2) = 4 /\ Bit(3) = 8 /\ Bit(4) = 16
  /\ Bit(5) = 32 /\ Bit(6) = 64 /\ Bit(7) = 128 /\ Bit(15) = 32768
<1>1. /\ Bit(0) = 1 /\ Bit(1) = 2 * Bit(0) /\ Bit(2) = 2 * Bit(1) /\ Bit(3) = 2 * Bit(2)
      /\ Bit(4) = 2 * Bit(3) /\ Bit(5) = 2 * Bit(4) /\ Bit(6) = 2 * Bit(5)
      /\ Bit(7) = 2 * Bit(6)
  <2>1. \A n \in 0 .. 6 : Bit(n + 1) = 2 * Bit(n)
    BY BitUnfold
  <2> QED
    BY <2>1, BitUnfold
<1>2. Bit(8 + 7) = Bit(8) * Bit(7) /\ Bit(7 + 1) = 2 * Bit(7)
  BY BitSum, BitUnfold
<1> QED
  BY <1>1, <1>2

\* A segment: its step is eight times the power of two of its exponent, and it holds
\* sixteen of them.
LEMMA Segment ==
  ASSUME NEW e \in Nat, e <= 7
  PROVE  /\ Bit(e) \in Nat /\ 1 <= Bit(e) /\ Bit(e) <= 128
         /\ Bit(e + 3) = 8 * Bit(e) /\ Bit(e + 7) = 128 * Bit(e) /\ Bit(e + 8) = 256 * Bit(e)
<1>1. Bit(e) \in Nat /\ 1 <= Bit(e) /\ Bit(e) <= Bit(7)
  BY BitType, BitGrows
<1>2. /\ Bit(e + 3) = Bit(e) * Bit(3) /\ Bit(e + 7) = Bit(e) * Bit(7)
      /\ Bit(e + 8) = Bit(e) * Bit(8)
  <2>1. \A n \in Nat : Bit(e + n) = Bit(e) * Bit(n)
    BY BitSum
  <2> QED
    BY <2>1
<1>3. Bit(7 + 1) = 2 * Bit(7)
  BY BitUnfold
<1> QED
  BY <1>1, <1>2, <1>3, SmallBits

\* The biased magnitude v is in step m of segment e.
InStep(v, e, m) ==
  /\ v \in Nat /\ 132 <= v /\ v <= 32767
  /\ e \in Nat /\ e <= 7 /\ m \in Nat /\ m <= 15
  /\ 8 * Bit(e) * (16 + m) <= v /\ v < 8 * Bit(e) * (17 + m)

\* What stands for step m of segment e.
StandsFor(e, m) == (8 * m + 132) * Bit(e) - 132

LEMMA StepExists ==
  ASSUME NEW v \in Nat, 132 <= v, v <= 32767
  PROVE  \E e, m : InStep(v, e, m)
<1>1. PICK e \in Nat : e <= 7 /\ 128 * Bit(e) <= v /\ v < 256 * Bit(e)
  <2>1. \/ v < 256
        \/ 256 <= v /\ v < 512
        \/ 512 <= v /\ v < 1024
        \/ 1024 <= v /\ v < 2048
        \/ 2048 <= v /\ v < 4096
        \/ 4096 <= v /\ v < 8192
        \/ 8192 <= v /\ v < 16384
        \/ 16384 <= v
    OBVIOUS
  <2> DEFINE In(e) == 128 * Bit(e) <= v /\ v < 256 * Bit(e)
  <2>2. v < 256 => In(0)
    BY SmallBits
  <2>3. 256 <= v /\ v < 512 => In(1)
    BY SmallBits
  <2>4. 512 <= v /\ v < 1024 => In(2)
    BY SmallBits
  <2>5. 1024 <= v /\ v < 2048 => In(3)
    BY SmallBits
  <2>6. 2048 <= v /\ v < 4096 => In(4)
    BY SmallBits
  <2>7. 4096 <= v /\ v < 8192 => In(5)
    BY SmallBits
  <2>8. 8192 <= v /\ v < 16384 => In(6)
    BY SmallBits
  <2>9. 16384 <= v => In(7)
    BY SmallBits
  <2> HIDE DEF In
  <2>10. \E e \in Nat : e <= 7 /\ In(e)
    BY <2>1, <2>2, <2>3, <2>4, <2>5, <2>6, <2>7, <2>8, <2>9
  <2> QED
    BY <2>10 DEF In
<1>2. PICK b \in Nat : b = Bit(e) /\ b >= 1 /\ 128 * b <= v /\ v < 256 * b
  <2>1. Bit(e) \in Nat /\ 1 <= Bit(e)
    BY <1>1, Segment
  <2> QED
    BY <1>1, <2>1
<1>3. PICK c \in Nat : c = 8 * b
  OBVIOUS
<1>4. PICK q \in Nat, r \in 0 .. c - 1 : q = v \div c /\ r = v % c /\ v = q * c + r
  <2>1. c >= 1
    BY <1>2, <1>3
  <2> QED
    BY <2>1, Quotient
<1>5. q >= 16
  <2>1. CASE q <= 15
    <3>1. q * c <= 15 * c
      BY <1>3, <2>1, TimesGrows
    <3> QED
      BY <1>2, <1>3, <1>4, <3>1
  <2> QED
    BY <2>1
<1>6. q <= 31
  <2>1. CASE q >= 32
    <3>1. 32 * c <= q * c
      BY <1>3, <2>1, TimesGrows
    <3> QED
      BY <1>2, <1>3, <1>4, <3>1
  <2> QED
    BY <2>1
<1>7. PICK m \in Nat : m <= 15 /\ q = 16 + m
  BY <1>5, <1>6
<1>8. (17 + m) * c = (16 + m) * c + c
  BY <1>3
<1>9. (16 + m) * c <= v /\ v < (17 + m) * c
  <2>1. PICK p \in Nat : p = (16 + m) * c
    BY <1>3
  <2> QED
    BY <1>3, <1>4, <1>7, <1>8, <2>1
<1>10. (16 + m) * c = 8 * b * (16 + m) /\ (17 + m) * c = 8 * b * (17 + m)
  BY <1>3
<1>11. InStep(v, e, m)
  BY <1>1, <1>2, <1>3, <1>7, <1>9, <1>10 DEF InStep
<1> QED
  BY <1>11

LEMMA QuotientIn ==
  ASSUME NEW v \in Nat, NEW c \in Nat, NEW q \in Nat, c >= 1, q * c <= v, v < (q + 1) * c
  PROVE  v \div c = q
<1>1. PICK p \in Nat : p = q * c /\ (q + 1) * c = p + c /\ p <= v /\ v < p + c
  <2>1. q * c \in Nat /\ (q + 1) * c = q * c + c
    BY SMT
  <2> QED
    BY <2>1
<1>2. PICK r \in 0 .. c - 1 : v = p + r
  <2>1. v - p \in 0 .. c - 1 /\ v = p + (v - p)
    BY <1>1
  <2> QED
    BY <2>1
<1>3. v = q * c + r
  BY <1>1, <1>2
<1> QED
  BY <1>3, Division

\* The bits that the encoder may stop at.
BitsOf(v) == {0} \cup {k \in 1 .. 7 : (v \div Bit(k + 7)) % 2 = 1}

\* The first bit found is that of the segment.
LEMMA ExponentIs ==
  ASSUME NEW v, NEW e, NEW m, InStep(v, e, m)
  PROVE  Max(BitsOf(v)) = e
<1>0. v \in Nat /\ 132 <= v /\ v <= 32767 /\ e \in Nat /\ e <= 7 /\ m \in Nat /\ m <= 15
  BY DEF InStep
<1>1. PICK b \in Nat : b = Bit(e) /\ b >= 1 /\ 128 * b <= v /\ v < 256 * b
  <2>1. PICK b \in Nat : b = Bit(e) /\ b >= 1
    <3>1. Bit(e) \in Nat /\ 1 <= Bit(e)
      BY <1>0, Segment
    <3> QED
      BY <3>1
  <2>2. 8 * b * (16 + m) <= v /\ v < 8 * b * (17 + m)
    BY <2>1 DEF InStep
  <2>3. 128 * b <= 8 * b * (16 + m) /\ 8 * b * (17 + m) <= 256 * b
    <3>1. (16 + m) * b = 16 * b + m * b /\ 0 * b <= m * b /\ m * b <= 15 * b
      BY <1>0, TimesGrows
    <3> QED
      BY <1>0, <3>1
  <2> QED
    BY <1>0, <2>1, <2>2, <2>3
<1> DEFINE B == {k \in 1 .. 7 : (v \div Bit(k + 7)) % 2 = 1}
<1>2. ASSUME NEW k \in Nat, k <= 7, k > e PROVE k \notin B
  <2>1. Bit(k + 7) \in Nat /\ Bit(k + 7) >= 1 /\ Bit(k + 7) > v
    <3>1. Bit(e + 1) = 2 * b /\ Bit(e + 1) <= Bit(k)
      BY <1>0, <1>1, <1>2, BitUnfold, BitGrows
    <3>2. Bit(k + 7) = 128 * Bit(k) /\ Bit(k) \in Nat /\ 1 <= Bit(k)
      BY <1>2, Segment
    <3>3. Bit(k) >= 2 * b /\ 128 * Bit(k) > v
      BY <1>0, <1>1, <3>1, <3>2
    <3> QED
      BY <1>0, <3>2, <3>3
  <2>2. PICK c \in Nat : c = Bit(k + 7) /\ c >= 1 /\ c > v
    BY <2>1
  <2>3. v \div c = 0
    <3>1. 0 * c = 0 /\ (0 + 1) * c = c /\ v \in Nat
      BY <1>0
    <3>2. 0 * c <= v /\ v < (0 + 1) * c
      BY <2>2, <3>1
    <3> QED
      BY <2>2, <3>1, <3>2, QuotientIn
  <2> QED
    BY <2>2, <2>3
<1>3. e >= 1 => e \in B
  <2> SUFFICES ASSUME e >= 1 PROVE (v \div Bit(e + 7)) % 2 = 1
    BY <1>0
  <2>1. PICK c \in Nat : c = Bit(e + 7) /\ c = 128 * b /\ c >= 1
    <3>1. Bit(e + 7) = 128 * b
      BY <1>0, <1>1, Segment
    <3> QED
      BY <1>1, <3>1
  <2>2. v \div c = 1
    <3>1. 1 * c <= v /\ v < (1 + 1) * c
      BY <1>0, <1>1, <2>1
    <3> QED
      BY <1>0, <2>1, <3>1, QuotientIn
  <2> QED
    BY <2>1, <2>2
<1>4. /\ e \in {0} \cup B
      /\ \A k \in {0} \cup B : e >= k
      /\ \A k \in {0} \cup B : k \in Int
  BY <1>0, <1>2, <1>3
<1>5. PICK T : T = BitsOf(v) /\ T = {0} \cup B
  BY Zenon DEF BitsOf
<1> HIDE DEF B
<1>6. e \in T /\ (\A k \in T : e >= k) /\ \A k \in T : k \in Int
  BY <1>4, <1>5
<1>7. PICK x : x = Max(T) /\ x \in T /\ \A y \in T : x >= y
  <2>1. \E x \in T : \A y \in T : x >= y
    BY <1>6
  <2> QED
    BY <2>1 DEF Max
<1>8. x = e
  BY <1>6, <1>7
<1> QED
  BY <1>5, <1>7, <1>8

\* The code of a magnitude is that of its step.
LEMMA CodeOfStep ==
  ASSUME NEW s, NEW v, NEW e, NEW m, InStep(v, e, m)
  PROVE  Code(s, v) = 255 - ((IF s < 0 THEN 128 ELSE 0) + 16 * e + m)
<1>0. v \in Nat /\ 132 <= v /\ v <= 32767 /\ e \in Nat /\ e <= 7 /\ m \in Nat /\ m <= 15
  BY DEF InStep
<1>1. Max(BitsOf(v)) = e
  BY ExponentIs
<1>2. PICK c \in Nat : c = Bit(e + 3) /\ c = 8 * Bit(e) /\ c >= 1 /\ Bit(e) \in Nat
  <2>1. Bit(e + 3) = 8 * Bit(e) /\ Bit(e) \in Nat /\ 1 <= Bit(e)
    BY <1>0, Segment
  <2> QED
    BY <2>1
<1>3. v \div c = 16 + m
  <2>1. PICK q \in Nat : q = 16 + m
    BY <1>0
  <2>2. q * c <= v /\ v < (q + 1) * c
    <3>1. /\ 8 * Bit(e) * (16 + m) = (16 + m) * (8 * Bit(e))
          /\ 8 * Bit(e) * (17 + m) = (17 + m) * (8 * Bit(e))
      BY <1>0, <1>2
    <3>2. 17 + m = q + 1
      BY <1>0, <2>1
    <3> QED
      BY <1>2, <2>1, <3>1, <3>2 DEF InStep
  <2>3. v \div c = q
    BY <1>0, <1>2, <2>2, QuotientIn
  <2> QED
    BY <2>1, <2>3
<1>4. (v \div c) % 16 = m
  <2>1. PICK q \in Nat : q = v \div c /\ q = 16 + m
    BY <1>0, <1>3
  <2>2. (q % 16) = m
    BY <1>0, <2>1
  <2> QED
    BY <2>1, <2>2
<1>5. Code(s, v) = LET exponent == Max(BitsOf(v))
                       mantissa == (v \div Bit(exponent + 3)) % 16
                   IN  255 - ((IF s < 0 THEN 128 ELSE 0) + 16 * exponent + mantissa)
  BY Zenon DEF Code, BitsOf
<1> QED
  BY <1>1, <1>2, <1>4, <1>5

IsCode(g, e, m) ==
  g \in {0, 128} /\ e \in Nat /\ e <= 7 /\ m \in Nat /\ m <= 15

\* What a code of 255 - (sign, segment, step) stands for.
LEMMA DecodeOf ==
  ASSUME NEW g, NEW e, NEW m, IsCode(g, e, m)
  PROVE  /\ StandsFor(e, m) \in Nat /\ StandsFor(e, m) <= 32124
         /\ Decode(255 - (g + 16 * e + m)) = IF g = 128 THEN - StandsFor(e, m) ELSE StandsFor(e, m)
<1>0. g \in {0, 128} /\ e \in Nat /\ e <= 7 /\ m \in Nat /\ m <= 15
  BY DEF IsCode
<1>1. PICK mu \in Int : mu = 255 - (255 - (g + 16 * e + m)) /\ mu = g + 16 * e + m
  BY <1>0
<1>2. (mu \div 16) % 8 = e
  <2>1. PICK q \in Nat : q = mu \div 16 /\ q = (IF g = 128 THEN 8 ELSE 0) + e
    BY <1>0, <1>1
  <2>2. (q % 8) = e
    BY <1>0, <2>1
  <2> QED
    BY <2>1, <2>2
<1>3. (mu % 16) = m
  BY <1>0, <1>1
<1>4. mu >= 128 <=> g = 128
  BY <1>0, <1>1
<1>5. PICK b \in Nat : b = Bit(e) /\ 1 <= b /\ b <= 128
  <2>1. Bit(e) \in Nat /\ 1 <= Bit(e) /\ Bit(e) <= 128
    BY <1>0, Segment
  <2> QED
    BY <2>1
<1>6. PICK x \in Int : x = (8 * m + 132) * b - 132
  BY <1>0
<1>7. 0 <= x /\ x <= 32124
  <2>1. PICK k \in Nat : k = 8 * m + 132 /\ 132 <= k /\ k <= 252
    BY <1>0
  <2>2. 132 * b <= k * b /\ k * b <= 252 * b
    BY <2>1, TimesGrows
  <2> QED
    BY <1>5, <1>6, <2>1, <2>2
<1>8. StandsFor(e, m) = x
  BY <1>5, <1>6 DEF StandsFor
<1>9. PICK y \in Int : y = (IF g = 128 THEN - x ELSE x)
  OBVIOUS
<1>10. Decode(255 - (g + 16 * e + m)) = Max({-32768, Min({32767, y})})
  <2>1. (8 * (mu % 16) + 132) * Bit((mu \div 16) % 8) - 132 = x
    BY <1>2, <1>3, <1>5, <1>6
  <2>2. PICK byte : byte = 255 - (g + 16 * e + m) /\ 255 - byte = mu
    BY <1>1
  <2> DEFINE sample == (8 * ((255 - byte) % 16) + 132) * Bit(((255 - byte) \div 16) % 8) - 132
             signed == IF 255 - byte >= 128 THEN - sample ELSE sample
  <2>3. Decode(byte) = Max({-32768, Min({32767, signed})})
    BY DEF Decode
  <2>4. sample = x
    BY <2>1, <2>2
  <2> HIDE DEF sample
  <2>5. signed = y
    BY <1>4, <1>9, <2>2, <2>4
  <2> HIDE DEF signed
  <2> QED
    BY <2>2, <2>3, <2>5
<1>11. Min({32767, y}) = y
  <2>1. \A z \in {32767, y} : (\A w \in {32767, y} : z <= w) <=> z = y
    BY <1>7, <1>9
  <2>2. Min({32767, y}) = CHOOSE z \in {32767, y} : \A w \in {32767, y} : z <= w
    BY DEF Min
  <2> QED
    BY <2>1, <2>2
<1>12. Max({-32768, y}) = y
  <2>1. \A z \in {-32768, y} : (\A w \in {-32768, y} : z >= w) <=> z = y
    BY <1>7, <1>9
  <2>2. Max({-32768, y}) = CHOOSE z \in {-32768, y} : \A w \in {-32768, y} : z >= w
    BY DEF Max
  <2> QED
    BY <2>1, <2>2
<1>13. Decode(255 - (g + 16 * e + m)) = y
  BY <1>10, <1>11, <1>12
<1>14. y = IF g = 128 THEN - StandsFor(e, m) ELSE StandsFor(e, m)
  BY <1>8, <1>9
<1>15. StandsFor(e, m) \in Nat /\ StandsFor(e, m) <= 32124
  BY <1>7, <1>8
<1> QED
  BY <1>13, <1>14, <1>15

LEMMA Int16Is == \A s : s \in Int16 <=> s \in Int /\ -32768 <= s /\ s <= 32767
<1>1. PICK a \in Int : a = -32768
  OBVIOUS
<1>2. PICK b \in Int : b = 32767
  OBVIOUS
<1>3. Int16 = a .. b
  BY <1>1, <1>2 DEF Int16
<1>4. \A s : s \in a .. b <=> s \in Int /\ a <= s /\ s <= b
  OBVIOUS
<1>5. \A s : s \in Int16 <=> s \in Int /\ a <= s /\ s <= b
  BY <1>3, <1>4
<1>6. ASSUME NEW s \in Int16 PROVE s \in Int /\ -32768 <= s /\ s <= 32767
  BY <1>1, <1>2, <1>5
<1>7. ASSUME NEW s \in Int, -32768 <= s, s <= 32767 PROVE s \in Int16
  BY <1>1, <1>2, <1>5, <1>7
<1> QED
  BY <1>6, <1>7

\* The biased magnitude of a sample.
Biased(s) == (IF Magnitude(s) <= kClip THEN Magnitude(s) ELSE kClip) + kBias

\* What Encode does, with its Min spelt out.
LEMMA EncodeIs ==
  ASSUME NEW s \in Int16
  PROVE  Encode(s) = Code(s, Biased(s))
<1>0. s \in Int
  BY Int16Is
<1>1. PICK x \in Nat : x = Magnitude(s)
  BY <1>0 DEF Magnitude
<1>2. Min({x, 32635}) = IF x <= 32635 THEN x ELSE 32635
  <2>1. PICK y \in Nat : y = IF x <= 32635 THEN x ELSE 32635
    OBVIOUS
  <2>2. \A z \in {x, 32635} : (\A w \in {x, 32635} : z <= w) <=> z = y
    BY <2>1
  <2>3. Min({x, 32635}) = CHOOSE z \in {x, 32635} : \A w \in {x, 32635} : z <= w
    BY DEF Min
  <2>4. y \in {x, 32635}
    BY <2>1
  <2> QED
    BY <2>1, <2>2, <2>3, <2>4
<1> QED
  BY <1>1, <1>2 DEF Encode, Biased, kClip

\* A sample is heard as its step, with its sign.
LEMMA HeardOf ==
  ASSUME NEW s \in Int16, NEW e, NEW m, InStep(Biased(s), e, m)
  PROVE  Decode(Encode(s)) = IF s < 0 THEN - StandsFor(e, m) ELSE StandsFor(e, m)
<1>1. Encode(s) = Code(s, Biased(s))
  BY EncodeIs
<1>2. Code(s, Biased(s)) = 255 - ((IF s < 0 THEN 128 ELSE 0) + 16 * e + m)
  BY CodeOfStep
<1>3. PICK g \in {0, 128} : g = (IF s < 0 THEN 128 ELSE 0) /\ (g = 128 <=> s < 0)
  OBVIOUS
<1>4. IsCode(g, e, m)
  BY DEF InStep, IsCode
<1>5. Decode(255 - (g + 16 * e + m)) = IF g = 128 THEN - StandsFor(e, m) ELSE StandsFor(e, m)
  BY <1>4, DecodeOf
<1> QED
  BY <1>1, <1>2, <1>3, <1>5

LEMMA BiasedStep ==
  ASSUME NEW s \in Int16
  PROVE  \E e, m : InStep(Biased(s), e, m)
<1>0. s \in Int
  BY Int16Is
<1>1. PICK x \in Nat : x = Magnitude(s)
  BY <1>0 DEF Magnitude
<1>2. PICK v \in Nat : v = Biased(s) /\ 132 <= v /\ v <= 32767
  BY <1>1 DEF Biased, kClip, kBias
<1> QED
  BY <1>2, StepExists

\* What stands for a step is in the middle of it.
LEMMA HeardNear ==
  ASSUME NEW v, NEW e, NEW m, InStep(v, e, m)
  PROVE  LET x == StandsFor(e, m) + 132
         IN  /\ x \in Nat /\ InStep(x, e, m)
             /\ 32 * (x - v) <= v /\ 32 * (v - x) <= v
<1>0. v \in Nat /\ 132 <= v /\ v <= 32767 /\ e \in Nat /\ e <= 7 /\ m \in Nat /\ m <= 15
  BY DEF InStep
<1>1. PICK b \in Nat : b = Bit(e) /\ 1 <= b /\ b <= 128
  <2>1. Bit(e) \in Nat /\ 1 <= Bit(e) /\ Bit(e) <= 128
    BY <1>0, Segment
  <2> QED
    BY <2>1
<1>2. PICK p \in Nat : p = m * b /\ p >= 0
  BY <1>0
<1>3. /\ 8 * b * (16 + m) = 128 * b + 8 * p /\ 8 * b * (17 + m) = 136 * b + 8 * p
      /\ (8 * m + 132) * b = 132 * b + 8 * p
  BY <1>0, <1>2
<1>4. 128 * b + 8 * p <= v /\ v < 136 * b + 8 * p
  BY <1>1, <1>3 DEF InStep
<1>5. PICK x \in Nat : x = StandsFor(e, m) + 132 /\ x = 132 * b + 8 * p
  <2>1. StandsFor(e, m) + 132 = 132 * b + 8 * p
    BY <1>1, <1>3 DEF StandsFor
  <2> QED
    BY <1>2, <2>1
<1>6. p <= 15 * b
  BY <1>0, <1>2, TimesGrows
<1>7. 132 <= x /\ x <= 32767
  BY <1>1, <1>2, <1>5, <1>6
<1>8. 128 * b + 8 * p <= x /\ x < 136 * b + 8 * p
  BY <1>1, <1>5
<1>9. InStep(x, e, m)
  BY <1>0, <1>1, <1>3, <1>7, <1>8 DEF InStep
<1>10. 32 * (x - v) <= v /\ 32 * (v - x) <= v
  BY <1>0, <1>1, <1>2, <1>4, <1>5
<1> QED
  BY <1>5, <1>9, <1>10

\* A greater magnitude is in no lower step.
LEMMA HeardGrows ==
  ASSUME NEW v, NEW e, NEW m, InStep(v, e, m),
         NEW w, NEW f, NEW n, InStep(w, f, n), v <= w
  PROVE  StandsFor(e, m) <= StandsFor(f, n)
<1>0. /\ v \in Nat /\ e \in Nat /\ e <= 7 /\ m \in Nat /\ m <= 15
      /\ w \in Nat /\ f \in Nat /\ f <= 7 /\ n \in Nat /\ n <= 15
  BY DEF InStep
<1>1. PICK b \in Nat, c \in Nat : b = Bit(e) /\ c = Bit(f) /\ 1 <= b /\ 1 <= c
  <2>1. Bit(e) \in Nat /\ 1 <= Bit(e)
    BY <1>0, Segment
  <2>2. Bit(f) \in Nat /\ 1 <= Bit(f)
    BY <1>0, Segment
  <2> QED
    BY <2>1, <2>2
<1>2. PICK p \in Nat, q \in Nat : p = m * b /\ q = n * c
  BY <1>0
<1>3. /\ 128 * b + 8 * p <= v /\ v < 136 * b + 8 * p
      /\ 128 * c + 8 * q <= w /\ w < 136 * c + 8 * q
  <2>1. /\ 8 * b * (16 + m) = 128 * b + 8 * p /\ 8 * b * (17 + m) = 136 * b + 8 * p
        /\ 8 * c * (16 + n) = 128 * c + 8 * q /\ 8 * c * (17 + n) = 136 * c + 8 * q
    BY <1>0, <1>2
  <2> QED
    BY <1>1, <2>1 DEF InStep
<1>4. StandsFor(e, m) = 132 * b + 8 * p - 132 /\ StandsFor(f, n) = 132 * c + 8 * q - 132
  <2>1. (8 * m + 132) * b = 132 * b + 8 * p /\ (8 * n + 132) * c = 132 * c + 8 * q
    BY <1>0, <1>2
  <2> QED
    BY <1>1, <2>1 DEF StandsFor
<1>5. p <= 15 * b /\ q <= 15 * c
  BY <1>0, <1>2, TimesGrows
<1>6. CASE e = f
  <2>1. b = c
    BY <1>1, <1>6
  <2>2. m <= n
    <3>1. CASE n + 1 <= m
      <4>1. (n + 1) * b <= m * b /\ (n + 1) * b = q + b
        BY <1>0, <1>2, <2>1, <3>1, TimesGrows
      <4>2. q + b <= p
        BY <1>2, <4>1
      <4>3. v > w
        BY <1>0, <1>3, <2>1, <4>2
      <4> QED
        BY <1>0, <4>3
    <3> QED
      BY <1>0, <3>1
  <2>3. p <= q
    BY <1>0, <1>2, <2>1, <2>2, TimesGrows
  <2> QED
    BY <1>4, <2>1, <2>3
<1>7. CASE e < f
  <2>0. e \in Nat /\ f \in Nat
    BY <1>0
  <2>1. 2 * b <= c
    BY <1>1, <1>7, <2>0, BitStrict
  <2> QED
    BY <1>2, <1>4, <1>5, <2>1
<1>8. CASE f < e
  <2>0. e \in Nat /\ f \in Nat
    BY <1>0
  <2>1. 2 * c <= b
    BY <1>1, <1>8, <2>0, BitStrict
  <2> QED
    BY <1>0, <1>2, <1>3, <1>5, <2>1
<1> QED
  BY <1>0, <1>6, <1>7, <1>8

\* Each byte but the second zero's is the code of what it stands for.
LEMMA BytesReturn ==
  ASSUME NEW b \in Byte, b # 127
  PROVE  Encode(Decode(b)) = b
<1>1. b \in Int /\ 0 <= b /\ b <= 255
  BY DEF Byte
<1>2. PICK mu \in Nat : mu = 255 - b /\ mu <= 255 /\ mu # 128
  BY <1>1
<1>3. PICK g, e, m : IsCode(g, e, m) /\ mu = g + 16 * e + m
  <2>1. PICK q \in Nat, m \in Nat : mu = 16 * q + m /\ m <= 15 /\ q <= 15
    <3>1. PICK q \in Int, m \in Int : q = mu \div 16 /\ m = (mu % 16)
      OBVIOUS
    <3>2. mu = 16 * q + m /\ 0 <= m /\ m <= 15
      BY <3>1
    <3>3. 0 <= q /\ q <= 15
      BY <1>2, <3>2
    <3>4. q \in Nat /\ m \in Nat
      BY <3>2, <3>3
    <3> QED
      BY <3>2, <3>3, <3>4
  <2>2. PICK e \in Nat, g \in {0, 128} : 16 * q = g + 16 * e /\ e <= 7
    <3>1. CASE q <= 7
      BY <3>1
    <3>2. CASE q >= 8
      <4>1. q - 8 \in Nat /\ 16 * q = 128 + 16 * (q - 8) /\ q - 8 <= 7
        BY <2>1, <3>2
      <4> QED
        BY <4>1
    <3> QED
      BY <3>1, <3>2
  <2>3. IsCode(g, e, m)
    BY <2>1, <2>2 DEF IsCode
  <2> QED
    BY <2>1, <2>2, <2>3
<1>4. g \in {0, 128} /\ e \in Nat /\ e <= 7 /\ m \in Nat /\ m <= 15
  BY <1>3 DEF IsCode
<1>5. PICK x \in Nat : x = StandsFor(e, m) /\ x <= 32124
  <2>1. StandsFor(e, m) \in Nat /\ StandsFor(e, m) <= 32124
    BY <1>3, DecodeOf
  <2> QED
    BY <2>1
<1>6. PICK s : s = Decode(b) /\ s = IF g = 128 THEN - x ELSE x
  <2>1. 255 - (g + 16 * e + m) = b
    BY <1>1, <1>2, <1>3
  <2>2. Decode(255 - (g + 16 * e + m)) = IF g = 128 THEN - StandsFor(e, m) ELSE StandsFor(e, m)
    BY <1>3, DecodeOf
  <2> QED
    BY <1>5, <2>1, <2>2
<1>7. g = 128 => x > 0
  <2> SUFFICES ASSUME g = 128 PROVE x > 0
    OBVIOUS
  <2>1. e >= 1 \/ m >= 1
    BY <1>2, <1>3, <1>4
  <2>2. PICK c \in Nat : c = Bit(e) /\ c >= 1 /\ (e >= 1 => c >= 2)
    <3>1. Bit(e) \in Nat /\ Bit(e) >= 1
      BY <1>4, BitType
    <3>2. e >= 1 => 2 * Bit(0) <= Bit(e)
      BY <1>4, BitStrict
    <3> QED
      BY <3>1, <3>2, SmallBits
  <2>3. PICK k \in Nat : k = 8 * m + 132 /\ k >= 132 /\ (m >= 1 => k >= 140)
    BY <1>4
  <2>4. x = k * c - 132
    BY <1>5, <2>2, <2>3 DEF StandsFor
  <2>5. CASE e >= 1
    <3>1. 132 * c <= k * c
      BY <2>2, <2>3, TimesGrows
    <3> QED
      BY <2>2, <2>4, <2>5, <3>1
  <2>6. CASE m >= 1
    <3>1. 140 * c <= k * c
      BY <2>2, <2>3, <2>6, TimesGrows
    <3> QED
      BY <2>2, <2>4, <3>1
  <2> QED
    BY <2>1, <2>5, <2>6
<1>8. /\ s \in Int /\ -32124 <= s /\ s <= 32124 /\ Magnitude(s) = x
      /\ s < 0 <=> g = 128
  BY <1>4, <1>5, <1>6, <1>7 DEF Magnitude
<1>9. Biased(s) = x + 132
  BY <1>5, <1>8 DEF Biased, kClip, kBias
<1>10. InStep(x + 132, e, m)
  <2>1. PICK c \in Nat : c = Bit(e) /\ c >= 1
    <3>1. Bit(e) \in Nat /\ Bit(e) >= 1
      BY <1>4, BitType
    <3> QED
      BY <3>1
  <2>2. PICK p \in Nat : p = m * c
    BY <1>4
  <2>3. /\ 8 * c * (16 + m) = 128 * c + 8 * p /\ 8 * c * (17 + m) = 136 * c + 8 * p
        /\ (8 * m + 132) * c = 132 * c + 8 * p
    BY <1>4, <2>2
  <2>4. x + 132 = 132 * c + 8 * p
    BY <1>5, <2>1, <2>3 DEF StandsFor
  <2> QED
    BY <1>4, <1>5, <2>1, <2>3, <2>4 DEF InStep
<1>11. Encode(s) = Code(s, Biased(s))
  <2>1. s \in Int16
    <3>1. s \in Int /\ -32768 <= s /\ s <= 32767
      BY <1>8
    <3> QED
      BY <3>1, Int16Is
  <2> QED
    BY <2>1, EncodeIs
<1>12. Code(s, Biased(s)) = 255 - ((IF s < 0 THEN 128 ELSE 0) + 16 * e + m)
  BY <1>9, <1>10, CodeOfStep
<1>13. (IF s < 0 THEN 128 ELSE 0) = g
  BY <1>4, <1>8
<1> QED
  BY <1>1, <1>2, <1>3, <1>6, <1>11, <1>12, <1>13

\* A sample is off by at most a thirty-second part, or is the loudest there is.
LEMMA SamplesNear ==
  ASSUME NEW s \in Int16
  PROVE  /\ Magnitude(s) <= kClip
             => 32 * Magnitude(Decode(Encode(s)) - s) <= Magnitude(s) + kBias
         /\ Magnitude(s) > kClip => Magnitude(Decode(Encode(s))) = 32124
<1>0. s \in Int
  BY Int16Is
<1>1. PICK x \in Nat : x = Magnitude(s) /\ s = (IF s < 0 THEN - x ELSE x)
  BY <1>0 DEF Magnitude
<1>2. PICK v : v = Biased(s)
  OBVIOUS
<1>3. PICK e, m : InStep(v, e, m)
  BY <1>2, BiasedStep
<1>4. v \in Nat /\ v = (IF x <= 32635 THEN x ELSE 32635) + 132
  BY <1>1, <1>2 DEF Biased, kClip, kBias
<1>5. PICK h \in Nat : h = StandsFor(e, m) /\ h <= 32124
  <2>1. IsCode(0, e, m)
    BY <1>3 DEF InStep, IsCode
  <2>2. StandsFor(e, m) \in Nat /\ StandsFor(e, m) <= 32124
    BY <2>1, DecodeOf
  <2> QED
    BY <2>2
<1>6. PICK d \in Int : d = Decode(Encode(s)) /\ d = IF s < 0 THEN - h ELSE h
  <2>1. Decode(Encode(s)) = IF s < 0 THEN - StandsFor(e, m) ELSE StandsFor(e, m)
    BY <1>2, <1>3, HeardOf
  <2> QED
    BY <1>5, <2>1
<1>7. CASE x <= 32635
  <2>1. 32 * ((h + 132) - v) <= v /\ 32 * (v - (h + 132)) <= v
    BY <1>3, <1>5, HeardNear
  <2>2. 32 * (h - x) <= x + 132 /\ 32 * (x - h) <= x + 132
    BY <1>7, <1>4, <2>1
  <2>3. d - s = h - x \/ d - s = x - h
    BY <1>0, <1>1, <1>6
  <2>4. PICK z \in Int : z = d - s /\ (z = h - x \/ z = x - h)
    BY <2>3
  <2>5. 32 * Magnitude(z) <= x + 132
    BY <2>2, <2>4 DEF Magnitude
  <2> QED
    BY <1>1, <1>6, <1>7, <2>4, <2>5 DEF kClip, kBias
<1>8. CASE x > 32635
  <2>1. v = 32767
    BY <1>8, <1>4
  <2>2. InStep(32767, 7, 15)
    BY SmallBits DEF InStep
  <2>3. StandsFor(7, 15) = 32124
    BY SmallBits DEF StandsFor
  <2>4. StandsFor(e, m) <= StandsFor(7, 15) /\ StandsFor(7, 15) <= StandsFor(e, m)
    <3>1. v <= 32767 /\ 32767 <= v
      BY <2>1
    <3> QED
      BY <1>3, <2>2, <3>1, HeardGrows
  <2>5. h = 32124
    BY <1>5, <2>3, <2>4
  <2>6. Magnitude(d) = 32124
    <3>1. d = 32124 \/ d = - 32124
      BY <1>6, <2>5
    <3> QED
      BY <3>1 DEF Magnitude
  <2> QED
    BY <1>1, <1>6, <1>8, <2>6 DEF kClip
<1> QED
  BY <1>1, <1>7, <1>8

\* Of two samples the greater is not heard as the lesser.
LEMMA SamplesOrdered ==
  ASSUME NEW s \in Int16, s < 32767
  PROVE  Decode(Encode(s)) <= Decode(Encode(s + 1))
<1>0. s \in Int /\ -32768 <= s /\ s + 1 \in Int16
  BY Int16Is
<1>1. PICK t \in Int16 : t = s + 1 /\ t \in Int
  BY <1>0
<1>2. PICK v : v = Biased(s)
  OBVIOUS
<1>3. PICK w : w = Biased(t)
  OBVIOUS
<1>4. /\ v = (IF (IF s < 0 THEN - s ELSE s) <= 32635 THEN (IF s < 0 THEN - s ELSE s) ELSE 32635) + 132
      /\ w = (IF (IF t < 0 THEN - t ELSE t) <= 32635 THEN (IF t < 0 THEN - t ELSE t) ELSE 32635) + 132
  BY <1>2, <1>3 DEF Biased, Magnitude, kClip, kBias
<1>5. PICK e, m : InStep(v, e, m)
  BY <1>2, BiasedStep
<1>6. PICK f, n : InStep(w, f, n)
  BY <1>3, BiasedStep
<1>7. PICK h \in Nat, i \in Nat : h = StandsFor(e, m) /\ i = StandsFor(f, n)
  <2>1. IsCode(0, e, m) /\ IsCode(0, f, n)
    BY <1>5, <1>6 DEF InStep, IsCode
  <2>2. StandsFor(e, m) \in Nat
    BY <2>1, DecodeOf
  <2>3. StandsFor(f, n) \in Nat
    BY <2>1, DecodeOf
  <2> QED
    BY <2>2, <2>3
<1>8. Decode(Encode(s)) = IF s < 0 THEN - h ELSE h
  BY <1>2, <1>5, <1>7, HeardOf
<1>9. Decode(Encode(t)) = IF t < 0 THEN - i ELSE i
  BY <1>3, <1>6, <1>7, HeardOf
<1>10. CASE s >= 0
  <2>1. v <= w
    BY <1>0, <1>1, <1>4, <1>10
  <2>2. h <= i
    BY <1>5, <1>6, <1>7, <2>1, HeardGrows
  <2> QED
    BY <1>0, <1>1, <1>8, <1>9, <1>10, <2>2
<1>11. CASE s < 0
  <2>1. CASE t < 0
    <3>1. w <= v
      BY <1>0, <1>1, <1>4, <1>11, <2>1
    <3>2. i <= h
      BY <1>5, <1>6, <1>7, <3>1, HeardGrows
    <3> QED
      BY <1>1, <1>8, <1>9, <1>11, <2>1, <3>2
  <2>2. CASE t >= 0
    BY <1>1, <1>8, <1>9, <1>11, <2>2
  <2> QED
    BY <1>1, <2>1, <2>2
<1> QED
  BY <1>0, <1>10, <1>11

\* What the consumer decodes is what was sampled, within the step of its segment.
THEOREM EverySampleHeard == Spec => []MuLawRoundTrip
<1>1. \A b \in Byte \ {127} : Encode(Decode(b)) = b
  BY BytesReturn
<1>2. ASSUME NEW s \in Int16
      PROVE  /\ Magnitude(s) <= kClip
                 => 32 * Magnitude(Decode(Encode(s)) - s) <= Magnitude(s) + kBias
             /\ Magnitude(s) > kClip => Magnitude(Decode(Encode(s))) = 32124
             /\ s < 32767 => Decode(Encode(s)) <= Decode(Encode(s + 1))
  BY SamplesNear, SamplesOrdered
<1>3. RoundTrip
  BY <1>1, <1>2 DEF RoundTrip
<1>4. MuLawRoundTrip
  BY <1>3 DEF MuLawRoundTrip
<1> QED
  BY <1>4, PTL
=============================================================================
