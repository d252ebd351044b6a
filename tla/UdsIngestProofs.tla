--------------------------- MODULE UdsIngestProofs ---------------------------
(***************************************************************************)
(* Proofs about UdsIngest for every set of announced lengths, every size   *)
(* of the read buffer and every number of producers: however the stream is *)
(* cut into reads, the frames parsed are the messages sent, and the read   *)
(* buffer has room whenever a frame is incomplete.                         *)
(***************************************************************************)
EXTENDS UdsIngest, FiniteSetTheorems, SequenceTheorems, WellFoundedInduction, TLAPS

CellSet == [message : Messages, k : 1 .. Size(kMaxWirePayload)]

\* The cells that a message takes on the wire, when all of it is written.
WireCells(m) == IF m.len > kMaxWirePayload THEN Size(0) ELSE Size(m.len)

LEMMA WireBounds ==
  ASSUME NEW m \in Messages
  PROVE  /\ m.len \in Nat /\ m.number \in Nat /\ m.number >= 1
         /\ WireCells(m) \in Nat /\ WireCells(m) >= 3
         /\ WireCells(m) <= Size(kMaxWirePayload) /\ Size(kMaxWirePayload) <= kBufferCells
         /\ m.len <= kMaxWirePayload => WireCells(m) = Size(m.len)
         /\ kMaxWirePayload \in Nat /\ kBufferCells \in Nat
<1>1. m.len \in Lengths /\ m.number \in Nat \ {0}
  BY DEF Messages
<1>2. /\ Lengths \subseteq Nat /\ kMaxWirePayload \in Nat /\ kBufferCells \in Nat
      /\ kBufferCells >= Size(kMaxWirePayload)
  BY UdsAssumption
<1>3. PICK l \in Nat : l = m.len
  BY <1>1, <1>2
<1>4. /\ Size(0) = 3 /\ Size(l) = 3 + l /\ Size(kMaxWirePayload) = 3 + kMaxWirePayload
  BY <1>2 DEF Size, PrefixCells
<1>5. WireCells(m) = IF l > kMaxWirePayload THEN Size(0) ELSE Size(l)
  BY <1>3 DEF WireCells
<1>6. /\ WireCells(m) \in Nat /\ WireCells(m) >= 3
      /\ WireCells(m) <= Size(kMaxWirePayload) /\ Size(kMaxWirePayload) <= kBufferCells
      /\ l <= kMaxWirePayload => WireCells(m) = Size(l)
  BY <1>2, <1>4, <1>5
<1> QED
  BY <1>1, <1>2, <1>3, <1>6

-----------------------------------------------------------------------------
(* Streams of cells.                                                       *)

\* All cells of a message that are in the stream are where its cell k tells.
Blocks(t) ==
  \A i \in 1 .. Len(t) :
    /\ t[i].k <= WireCells(t[i].message)
    /\ \A j \in 1 .. WireCells(t[i].message) :
         i - t[i].k + j \in 1 .. Len(t) => t[i - t[i].k + j] = [message |-> t[i].message, k |-> j]

\* Each message is one of those that were sent; the last cell of one is followed by
\* the first cell of the next.
InTurn(t, s) ==
  \A i \in 1 .. Len(t) :
    /\ t[i].message.number <= Len(s) /\ t[i].message = s[t[i].message.number]
    /\ i < Len(t) /\ t[i].k = WireCells(t[i].message)
         => t[i + 1].k = 1 /\ t[i + 1].message.number = t[i].message.number + 1

\* The stream begins with the first cell of message n, or n is yet to come.
Begins(t, s, n) ==
  /\ t = <<>> => Len(s) = n - 1
  /\ t # <<>> => t[1].k = 1 /\ t[1].message.number = n

\* It ends with a cell of the last message, the last one unless the producer died.
Ends_(t, s, ended) ==
  t # <<>> => /\ t[Len(t)].message.number = Len(s)
              /\ ended \/ t[Len(t)].k = WireCells(t[Len(t)].message)

\* t is what is left of the stream of messages s from message n on.
StreamAt(t, s, n, ended) ==
  /\ t \in Seq(CellSet) /\ Blocks(t) /\ InTurn(t, s) /\ Begins(t, s, n) /\ Ends_(t, s, ended)

LEMMA NoStream == ASSUME NEW ended PROVE StreamAt(<<>>, <<>>, 1, ended)
  BY DEF StreamAt, Blocks, InTurn, Begins, Ends_

LEMMA StreamCells ==
  ASSUME NEW t \in Seq(CellSet)
  PROVE  /\ Len(t) \in Nat /\ (t = <<>> <=> Len(t) = 0)
         /\ \A i \in 1 .. Len(t) : /\ t[i] \in CellSet
                                   /\ t[i].k \in Nat /\ t[i].k >= 1
                                   /\ t[i].message \in Messages
                                   /\ t[i] = [message |-> t[i].message, k |-> t[i].k]
<1>1. Len(t) \in Nat /\ (t = <<>> <=> Len(t) = 0) /\ \A i \in 1 .. Len(t) : t[i] \in CellSet
  BY EmptySeq, ElementOfSeq
<1> QED
  BY <1>1 DEF CellSet

\* A producer that ends takes nothing back.
LEMMA StreamStops ==
  ASSUME NEW t, NEW s, NEW n, NEW ended, StreamAt(t, s, n, ended)
  PROVE  StreamAt(t, s, n, TRUE)
  BY DEF StreamAt, Ends_

\* What is written of the next message goes on where a stream that did not end stopped.
LEMMA StreamGrows ==
  ASSUME NEW t, NEW s \in Seq(Messages), NEW n \in Nat, StreamAt(t, s, n, FALSE),
         NEW m \in Messages, m.number = Len(s) + 1, NEW w \in 1 .. WireCells(m)
  PROVE  StreamAt(t \o [k \in 1 .. w |-> [message |-> m, k |-> k]], Append(s, m), n,
                  w < WireCells(m))
<1> DEFINE new == [k \in 1 .. w |-> [message |-> m, k |-> k]]
           u   == t \o new
           s2  == Append(s, m)
<1>1. t \in Seq(CellSet) /\ Blocks(t) /\ InTurn(t, s) /\ Begins(t, s, n) /\ Ends_(t, s, FALSE)
  BY DEF StreamAt
<1>2. PICK l \in Nat : l = Len(t)
  BY <1>1
<1>3. WireCells(m) \in Nat /\ w \in Nat /\ w >= 1 /\ w <= WireCells(m)
      /\ WireCells(m) <= Size(kMaxWirePayload) /\ kMaxWirePayload \in Nat
      /\ Size(kMaxWirePayload) \in Nat
  BY WireBounds, UdsAssumption DEF Size, PrefixCells
<1>4. new \in Seq(CellSet) /\ Len(new) = w
  <2>1. \A k \in 1 .. w : [message |-> m, k |-> k] \in CellSet
    BY <1>3 DEF CellSet
  <2> QED
    BY <1>3, <2>1
<1>5. \A k \in 1 .. w : new[k] = [message |-> m, k |-> k]
  OBVIOUS
<1> HIDE DEF new
<1>6. /\ u \in Seq(CellSet) /\ Len(u) = l + w
      /\ \A i \in 1 .. l + w : u[i] = IF i <= l THEN t[i] ELSE new[i - l]
  BY <1>1, <1>2, <1>4, ConcatProperties
<1> HIDE DEF u
<1>7. /\ \A i \in 1 .. l : u[i] = t[i]
      /\ \A i \in l + 1 .. l + w : u[i] = [message |-> m, k |-> i - l]
  <2>1. \A i \in l + 1 .. l + w : i \in 1 .. l + w /\ ~ (i <= l) /\ i - l \in 1 .. w
    BY <1>2, <1>3
  <2> QED
    BY <1>2, <1>3, <1>5, <1>6, <2>1, SMTT(30)
<1>8. \A i \in 1 .. l + w : i \in 1 .. l \/ i \in l + 1 .. l + w
  BY <1>2, <1>3
<1>9. /\ Len(s) \in Nat /\ Len(s2) = Len(s) + 1 /\ s2[Len(s) + 1] = m
      /\ \A i \in 1 .. Len(s) : s2[i] = s[i]
  BY AppendProperties
<1> HIDE DEF s2
<1>10. \A i \in 1 .. l : /\ t[i].k \in Nat /\ t[i].k >= 1 /\ t[i].message \in Messages
                         /\ WireCells(t[i].message) \in Nat
                         /\ t[i].message.number \in Nat /\ t[i].message.number >= 1
  BY <1>1, <1>2, StreamCells, WireBounds
\* The messages before are all there.
<1>11. ASSUME NEW i \in 1 .. l
       PROVE  i - t[i].k + WireCells(t[i].message) <= l
  <2>1. PICK c \in Nat : c = WireCells(t[i].message)
    BY <1>10
  <2>2. PICK k \in Nat : k = t[i].k /\ k <= c
    BY <1>1, <1>2, <1>10, <2>1 DEF Blocks
  <2>3. SUFFICES ASSUME i - k + c > l PROVE FALSE
    BY <1>2, <2>1, <2>2
  <2>4. /\ l - i + k \in 1 .. c /\ i - k + (l - i + k) = l /\ l \in 1 .. l
    BY <1>2, <1>10, <2>1, <2>2, <2>3, SMTT(30)
  <2>5. t[l] = [message |-> t[i].message, k |-> l - i + k]
    BY <1>1, <1>2, <2>1, <2>2, <2>4 DEF Blocks
  <2>6. t[l].k = WireCells(t[l].message)
    BY <1>1, <1>2, <2>4, EmptySeq DEF Ends_
  <2> QED
    BY <1>2, <2>1, <2>2, <2>3, <2>5, <2>6
<1>12. Blocks(u)
  <2>1. ASSUME NEW i \in 1 .. l + w, NEW j \in 1 .. WireCells(u[i].message),
               i - u[i].k + j \in 1 .. l + w
        PROVE  u[i - u[i].k + j] = [message |-> u[i].message, k |-> j]
    <3>1. CASE i \in 1 .. l
      <4>1. PICK c \in Nat : c = WireCells(t[i].message)
        BY <1>10, <3>1
      <4>2. PICK k \in Nat : k = t[i].k
        BY <1>10, <3>1
      <4>3. u[i] = t[i] /\ j \in 1 .. c /\ i - k + j \in 1 .. l + w
        BY <1>7, <2>1, <3>1, <4>1, <4>2
      <4>4. i - k + c <= l
        BY <1>11, <3>1, <4>1, <4>2
      <4>5. i - k + j \in 1 .. l
        BY <1>2, <1>3, <4>3, <4>4
      <4>6. t[i - k + j] = [message |-> t[i].message, k |-> j]
        BY <1>1, <1>2, <3>1, <4>1, <4>2, <4>3, <4>5 DEF Blocks
      <4> QED
        BY <1>7, <4>2, <4>3, <4>5, <4>6
    <3>2. CASE i \in l + 1 .. l + w
      <4>1. u[i] = [message |-> m, k |-> i - l]
        BY <1>7, <3>2
      <4>2. u[i].message = m /\ u[i].k = i - l
        BY <4>1
      <4>3. j \in Nat /\ j >= 1 /\ i - (i - l) + j = l + j
        BY <1>2, <1>3, <2>1, <4>2
      <4>4. l + j \in l + 1 .. l + w /\ l + j - l = j
        BY <1>2, <1>3, <2>1, <4>2, <4>3
      <4>5. u[l + j] = [message |-> m, k |-> j]
        BY <1>7, <4>4
      <4> QED
        BY <4>2, <4>3, <4>5
    <3> QED
      BY <1>8, <3>1, <3>2
  <2>2. ASSUME NEW i \in 1 .. l + w PROVE u[i].k <= WireCells(u[i].message)
    <3>1. CASE i \in 1 .. l
      BY <1>1, <1>2, <1>7, <3>1 DEF Blocks
    <3>2. CASE i \in l + 1 .. l + w
      <4>1. u[i] = [message |-> m, k |-> i - l]
        BY <1>7, <3>2
      <4>2. i - l <= WireCells(m)
        BY <1>2, <1>3, <3>2
      <4> QED
        BY <4>1, <4>2
    <3> QED
      BY <1>8, <3>1, <3>2
  <2> QED
    BY <1>6, <2>1, <2>2 DEF Blocks
<1>13. InTurn(u, s2)
  <2>1. ASSUME NEW i \in 1 .. l + w
        PROVE  u[i].message.number <= Len(s2) /\ u[i].message = s2[u[i].message.number]
    <3>1. CASE i \in 1 .. l
      <4>1. t[i].message.number <= Len(s) /\ t[i].message = s[t[i].message.number]
        BY <1>1, <1>2, <3>1 DEF InTurn
      <4>2. t[i].message.number \in 1 .. Len(s)
        BY <1>9, <1>10, <3>1, <4>1
      <4>3. u[i] = t[i]
        BY <1>7, <3>1
      <4>4. t[i].message.number <= Len(s2)
        BY <1>9, <4>2
      <4> QED
        BY <1>9, <4>1, <4>2, <4>3, <4>4
    <3>2. CASE i \in l + 1 .. l + w
      <4>1. u[i] = [message |-> m, k |-> i - l]
        BY <1>7, <3>2
      <4>2. u[i].message = m
        BY <4>1
      <4> QED
        BY <1>9, <4>2
    <3> QED
      BY <1>8, <3>1, <3>2
  <2>2. ASSUME NEW i \in 1 .. l + w, i < l + w, u[i].k = WireCells(u[i].message)
        PROVE  u[i + 1].k = 1 /\ u[i + 1].message.number = u[i].message.number + 1
    <3>1. CASE i \in 1 .. l /\ i < l
      <4>1. u[i] = t[i] /\ u[i + 1] = t[i + 1]
        BY <1>2, <1>7, <3>1
      <4> QED
        BY <1>1, <1>2, <2>2, <3>1, <4>1 DEF InTurn
    <3>2. CASE i \in 1 .. l /\ ~ (i < l)
      <4>1. i = l /\ l \in 1 .. l /\ l + 1 \in l + 1 .. l + w /\ l + 1 - l = 1
        BY <1>2, <1>3, <3>2
      <4>2. u[i] = t[l] /\ u[i + 1] = [message |-> m, k |-> 1]
        BY <1>7, <4>1
      <4>3. t[l].message.number = Len(s)
        BY <1>1, <1>2, <4>1, EmptySeq DEF Ends_
      <4> QED
        BY <4>2, <4>3
    <3>3. CASE i \in l + 1 .. l + w
      <4>1. u[i] = [message |-> m, k |-> i - l]
        BY <1>7, <3>3
      <4>2. u[i].message = m /\ u[i].k = i - l
        BY <4>1
      <4>3. i - l = WireCells(m)
        BY <2>2, <4>2
      <4> QED
        BY <1>2, <1>3, <2>2, <3>3, <4>3
    <3> QED
      BY <1>8, <3>1, <3>2, <3>3
  <2> QED
    BY <1>6, <2>1, <2>2 DEF InTurn
<1>14. u # <<>> /\ 1 \in 1 .. l + w /\ l + w \in l + 1 .. l + w
  BY <1>2, <1>3, <1>6
<1>15. Begins(u, s2, n)
  <2>1. CASE t = <<>>
    <3>1. l = 0 /\ Len(s) = n - 1
      BY <1>1, <1>2, <2>1 DEF Begins
    <3>2. 1 \in l + 1 .. l + w /\ 1 - l = 1
      BY <1>3, <3>1
    <3>3. u[1] = [message |-> m, k |-> 1]
      BY <1>7, <3>2
    <3> QED
      BY <1>9, <1>14, <3>1, <3>3 DEF Begins
  <2>2. CASE t # <<>>
    <3>1. 1 \in 1 .. l
      BY <1>1, <1>2, <2>2, EmptySeq
    <3>2. u[1] = t[1]
      BY <1>7, <3>1
    <3> QED
      BY <1>1, <1>14, <2>2, <3>2 DEF Begins
  <2> QED
    BY <2>1, <2>2
<1>16. Ends_(u, s2, w < WireCells(m))
  <2>1. u[l + w] = [message |-> m, k |-> w]
    <3>1. l + w - l = w
      BY <1>2, <1>3
    <3> QED
      BY <1>7, <1>14, <3>1
  <2>2. w < WireCells(m) \/ w = WireCells(m)
    BY <1>3
  <2> QED
    BY <1>6, <1>9, <2>1, <2>2 DEF Ends_
<1> QED
  BY <1>6, <1>12, <1>13, <1>15, <1>16 DEF StreamAt, u, s2, new

\* The first message, when it is whole, can be taken off the stream.
LEMMA StreamTaken ==
  ASSUME NEW t, NEW s \in Seq(Messages), NEW n \in Nat, NEW ended, StreamAt(t, s, n, ended),
         t # <<>>, WireCells(t[1].message) <= Len(t)
  PROVE  LET m == t[1].message
             z == WireCells(m)
         IN  /\ m \in Messages /\ m.number = n /\ n <= Len(s) /\ m = s[n]
             /\ SubSeq(t, 1, z) = [k \in 1 .. z |-> [message |-> m, k |-> k]]
             /\ StreamAt(SubSeq(t, z + 1, Len(t)), s, n + 1, ended)
<1>1. t \in Seq(CellSet) /\ Blocks(t) /\ InTurn(t, s) /\ Begins(t, s, n) /\ Ends_(t, s, ended)
  BY DEF StreamAt
<1>2. PICK l \in Nat : l = Len(t) /\ l >= 1
  BY <1>1, EmptySeq
<1>3. PICK m \in Messages : m = t[1].message
  <2>1. 1 \in 1 .. Len(t)
    BY <1>2
  <2>2. t[1].message \in Messages
    BY <1>1, <2>1, StreamCells
  <2> QED
    BY <2>2
<1>4. PICK z \in Nat : z = WireCells(m) /\ z >= 3 /\ z <= l
  BY <1>2, <1>3, WireBounds
<1>5. t[1].k = 1 /\ m.number = n
  BY <1>1, <1>3 DEF Begins
<1>6. n <= Len(s) /\ m = s[n]
  BY <1>1, <1>2, <1>3, <1>5 DEF InTurn
<1>7. \A k \in 1 .. z : t[k] = [message |-> m, k |-> k]
  <2>1. ASSUME NEW k \in 1 .. z PROVE 1 - 1 + k = k /\ k \in 1 .. l /\ 1 \in 1 .. l
    BY <1>4
  <2> QED
    BY <1>1, <1>2, <1>3, <1>4, <1>5, <2>1 DEF Blocks
<1>8. SubSeq(t, 1, z) = [k \in 1 .. z |-> [message |-> m, k |-> k]]
  <2>1. /\ Len(SubSeq(t, 1, z)) = z
        /\ \A k \in 1 .. z : SubSeq(t, 1, z)[k] = t[k]
        /\ SubSeq(t, 1, z) \in Seq(CellSet)
    BY <1>1, <1>2, <1>4, SubSeqProperties, StreamCells
  <2>2. SubSeq(t, 1, z) = [k \in 1 .. z |-> SubSeq(t, 1, z)[k]]
    BY <2>1, LenProperties
  <2> QED
    BY <1>7, <2>1, <2>2
<1> DEFINE r == SubSeq(t, z + 1, Len(t))
<1>9. r \in Seq(CellSet) /\ Len(r) = l - z /\ \A i \in 1 .. l - z : r[i] = t[z + i]
  <2>1. \A i \in z + 1 .. l : t[i] \in CellSet
    BY <1>1, <1>2, <1>4, StreamCells
  <2>2. z + 1 \in Int /\ l \in Int /\ l - (z + 1) + 1 = l - z
    BY <1>4
  <2>3. /\ r \in Seq(CellSet) /\ Len(r) = IF z + 1 <= l THEN l - (z + 1) + 1 ELSE 0
        /\ \A i \in 1 .. l - (z + 1) + 1 : r[i] = t[z + 1 + i - 1]
    BY <1>2, <2>1, <2>2, SubSeqProperties
  <2>4. Len(r) = l - z
    BY <1>4, <2>2, <2>3
  <2>5. ASSUME NEW i \in 1 .. l - z PROVE r[i] = t[z + i]
    <3>1. i \in 1 .. l - (z + 1) + 1 /\ z + 1 + i - 1 = z + i
      BY <1>4
    <3> QED
      BY <2>3, <3>1
  <2> QED
    BY <2>3, <2>4, <2>5
<1> HIDE DEF r
<1>10. /\ \A i \in 1 .. l - z : z + i \in 1 .. l
       /\ \A i \in 1 .. l : /\ t[i].k \in Nat /\ t[i].k >= 1 /\ t[i].message.number \in Nat
                            /\ WireCells(t[i].message) \in Nat
  <2>1. \A i \in 1 .. l : t[i].k \in Nat /\ t[i].k >= 1 /\ t[i].message \in Messages
    BY <1>1, <1>2, StreamCells
  <2> QED
    BY <1>4, <2>1, WireBounds, SMTT(30)
<1>11. Blocks(r)
  <2>1. ASSUME NEW i \in 1 .. l - z, NEW j \in 1 .. WireCells(r[i].message),
               i - r[i].k + j \in 1 .. l - z
        PROVE  r[i - r[i].k + j] = [message |-> r[i].message, k |-> j]
    <3>1. PICK k \in Nat : k = t[z + i].k
      BY <1>10
    <3>2. r[i] = t[z + i]
      BY <1>9
    <3>3. j \in Nat /\ j \in 1 .. WireCells(t[z + i].message)
      BY <1>10, <3>2
    <3>4. PICK d \in 1 .. l - z : d = i - k + j
      BY <2>1, <3>1, <3>2
    <3>5. PICK w \in 1 .. l : w = z + i
      BY <1>10
    <3>6. w - k + j = z + d /\ z + d \in 1 .. l
      <4>1. j \in Nat /\ i \in Nat
        BY <3>3
      <4>2. w - k + j = z + d
        BY <3>4, <3>5, <4>1
      <4> QED
        BY <1>10, <4>2
    <3>7. t[w - k + j] = [message |-> t[w].message, k |-> j]
      BY <1>1, <1>2, <3>1, <3>3, <3>5, <3>6 DEF Blocks
    <3>8. r[d] = t[z + d]
      BY <1>9
    <3> QED
      BY <3>1, <3>2, <3>4, <3>5, <3>6, <3>7, <3>8
  <2>2. \A i \in 1 .. l - z : r[i].k <= WireCells(r[i].message)
    BY <1>1, <1>2, <1>9, <1>10 DEF Blocks
  <2> QED
    BY <1>9, <2>1, <2>2 DEF Blocks
<1>12. InTurn(r, s)
  <2>1. ASSUME NEW i \in 1 .. l - z
        PROVE  /\ r[i].message.number <= Len(s) /\ r[i].message = s[r[i].message.number]
               /\ i < l - z /\ r[i].k = WireCells(r[i].message)
                    => r[i + 1].k = 1 /\ r[i + 1].message.number = r[i].message.number + 1
    <3>1. r[i] = t[z + i] /\ z + i \in 1 .. l
      BY <1>9, <1>10
    <3>2. ASSUME i < l - z
          PROVE  r[i + 1] = t[z + i + 1] /\ z + i < l
      <4>1. i + 1 \in 1 .. l - z /\ z + (i + 1) = z + i + 1 /\ z + i < l
        BY <1>4, <3>2
      <4> QED
        BY <1>9, <4>1
    <3> QED
      BY <1>1, <1>2, <3>1, <3>2 DEF InTurn
  <2> QED
    BY <1>9, <2>1 DEF InTurn
<1>13. z \in 1 .. l /\ t[z].message = m /\ t[z].k = WireCells(t[z].message)
  <2>1. z \in 1 .. z /\ z \in 1 .. l
    BY <1>4
  <2>2. t[z] = [message |-> m, k |-> z]
    BY <1>7, <2>1
  <2> QED
    BY <1>4, <2>1, <2>2
<1>14. Begins(r, s, n + 1)
  <2>1. CASE r = <<>>
    <3>1. z = l
      BY <1>4, <1>9, <2>1, EmptySeq
    <3>2. Len(s) = n
      BY <1>1, <1>2, <1>5, <1>13, <3>1 DEF Ends_
    <3> QED
      BY <2>1, <3>2 DEF Begins
  <2>2. CASE r # <<>>
    <3>1. z < l /\ 1 \in 1 .. l - z
      BY <1>4, <1>9, <2>2, EmptySeq
    <3>2. r[1] = t[z + 1]
      BY <1>9, <3>1
    <3>3. t[z + 1].k = 1 /\ t[z + 1].message.number = n + 1
      BY <1>1, <1>2, <1>5, <1>13, <3>1 DEF InTurn
    <3> QED
      BY <2>2, <3>2, <3>3 DEF Begins
  <2> QED
    BY <2>1, <2>2
<1>15. Ends_(r, s, ended)
  <2>1. SUFFICES ASSUME r # <<>>
                 PROVE  /\ r[Len(r)].message.number = Len(s)
                        /\ ended \/ r[Len(r)].k = WireCells(r[Len(r)].message)
    BY DEF Ends_
  <2>2. l - z \in 1 .. l - z /\ z + (l - z) = l
    BY <1>4, <1>9, <2>1, EmptySeq
  <2>3. r[Len(r)] = t[Len(t)]
    BY <1>2, <1>9, <2>2
  <2> QED
    BY <1>1, <2>3 DEF Ends_
<1>16. StreamAt(r, s, n + 1, ended)
  BY <1>9, <1>11, <1>12, <1>14, <1>15 DEF StreamAt
<1> QED
  BY <1>3, <1>4, <1>5, <1>6, <1>8, <1>16 DEF r

\* What is still to be parsed of a connection: the rest of the buffer, and behind it
\* what the kernel holds.
Unread(b, o, cells) == SubSeq(b, o + 1, Len(b)) \o cells

\* The cells of the buffer from o on, with those that the kernel holds behind them,
\* after z more were read: what is taken and what is left.
LEMMA CutBuffer ==
  ASSUME NEW b \in Seq(CellSet), NEW c \in Seq(CellSet), NEW o \in Nat, NEW z \in Nat,
         o + z <= Len(b)
  PROVE  /\ Unread(b, o, c) \in Seq(CellSet) /\ Len(Unread(b, o, c)) = Len(b) - o + Len(c)
         /\ \A i \in 1 .. Len(b) - o : Unread(b, o, c)[i] = b[o + i]
         /\ SubSeq(Unread(b, o, c), 1, z) = SubSeq(b, o + 1, o + z)
         /\ SubSeq(Unread(b, o, c), z + 1, Len(Unread(b, o, c))) = Unread(b, o + z, c)
<1> DEFINE a == SubSeq(b, o + 1, Len(b))
           t == a \o c
           x == SubSeq(b, o + z + 1, Len(b))
<1>1. PICK l \in Nat, n \in Nat : l = Len(b) /\ n = Len(c) /\ o + z <= l
  OBVIOUS
<1>2. \A i \in 1 .. l : b[i] \in CellSet
  BY <1>1, ElementOfSeq
<1>3. a \in Seq(CellSet) /\ Len(a) = l - o /\ \A i \in 1 .. l - o : a[i] = b[o + i]
  <2>1. \A i \in o + 1 .. l : b[i] \in CellSet
    BY <1>1, <1>2
  <2>2. /\ a \in Seq(CellSet) /\ Len(a) = IF o + 1 <= l THEN l - (o + 1) + 1 ELSE 0
        /\ \A i \in 1 .. l - (o + 1) + 1 : a[i] = b[o + 1 + i - 1]
    BY <1>1, <2>1, SubSeqProperties
  <2>3. l - (o + 1) + 1 = l - o /\ \A i \in 1 .. l - o : o + 1 + i - 1 = o + i
    BY <1>1
  <2> QED
    BY <1>1, <2>2, <2>3
<1>4. x \in Seq(CellSet) /\ Len(x) = l - o - z /\ \A i \in 1 .. l - o - z : x[i] = b[o + z + i]
  <2>1. \A i \in o + z + 1 .. l : b[i] \in CellSet
    BY <1>1, <1>2
  <2>2. /\ x \in Seq(CellSet) /\ Len(x) = IF o + z + 1 <= l THEN l - (o + z + 1) + 1 ELSE 0
        /\ \A i \in 1 .. l - (o + z + 1) + 1 : x[i] = b[o + z + 1 + i - 1]
    BY <1>1, <2>1, SubSeqProperties, SMTT(30)
  <2>3. l - (o + z + 1) + 1 = l - o - z /\ \A i \in 1 .. l - o - z : o + z + 1 + i - 1 = o + z + i
    BY <1>1
  <2> QED
    BY <1>1, <2>2, <2>3
<1> HIDE DEF a, x
<1>5. /\ t \in Seq(CellSet) /\ Len(t) = l - o + n
      /\ \A i \in 1 .. l - o + n : t[i] = IF i <= l - o THEN a[i] ELSE c[i - (l - o)]
  <2>1. /\ t \in Seq(CellSet) /\ Len(t) = Len(a) + Len(c)
        /\ \A i \in 1 .. Len(a) + Len(c) : t[i] = IF i <= Len(a) THEN a[i] ELSE c[i - Len(a)]
    BY <1>1, <1>3, ConcatProperties
  <2>2. Len(a) = l - o /\ Len(c) = n
    BY <1>1, <1>3
  <2> QED
    BY <2>1, <2>2
<1> HIDE DEF t
<1>6. \A i \in 1 .. l - o : t[i] = b[o + i]
  <2>1. ASSUME NEW i \in 1 .. l - o PROVE i \in 1 .. l - o + n /\ i <= l - o
    BY <1>1
  <2> QED
    BY <1>3, <1>5, <2>1
<1>7. SubSeq(t, 1, z) = SubSeq(b, o + 1, o + z)
  <2>1. \A i \in 1 .. z : t[i] \in CellSet
    BY <1>1, <1>5, ElementOfSeq
  <2>2. \A i \in o + 1 .. o + z : b[i] \in CellSet
    BY <1>1, <1>2
  <2>3. /\ SubSeq(t, 1, z) \in Seq(CellSet) /\ Len(SubSeq(t, 1, z)) = z
        /\ \A i \in 1 .. z : SubSeq(t, 1, z)[i] = t[i]
    <3>1. /\ SubSeq(t, 1, z) \in Seq(CellSet)
          /\ Len(SubSeq(t, 1, z)) = IF 1 <= z THEN z - 1 + 1 ELSE 0
          /\ \A i \in 1 .. z - 1 + 1 : SubSeq(t, 1, z)[i] = t[1 + i - 1]
      BY <2>1, SubSeqProperties
    <3>2. z - 1 + 1 = z /\ \A i \in 1 .. z : 1 + i - 1 = i
      OBVIOUS
    <3> QED
      BY <3>1, <3>2
  <2>4. /\ SubSeq(b, o + 1, o + z) \in Seq(CellSet) /\ Len(SubSeq(b, o + 1, o + z)) = z
        /\ \A i \in 1 .. z : SubSeq(b, o + 1, o + z)[i] = b[o + i]
    <3>1. /\ SubSeq(b, o + 1, o + z) \in Seq(CellSet)
          /\ Len(SubSeq(b, o + 1, o + z)) = IF o + 1 <= o + z THEN o + z - (o + 1) + 1 ELSE 0
          /\ \A i \in 1 .. o + z - (o + 1) + 1 : SubSeq(b, o + 1, o + z)[i] = b[o + 1 + i - 1]
      BY <2>2, SubSeqProperties
    <3>2. o + z - (o + 1) + 1 = z /\ \A i \in 1 .. z : o + 1 + i - 1 = o + i
      OBVIOUS
    <3> QED
      BY <3>1, <3>2
  <2>5. \A i \in 1 .. z : SubSeq(t, 1, z)[i] = SubSeq(b, o + 1, o + z)[i]
    BY <1>1, <1>6, <2>3, <2>4
  <2> QED
    BY <2>3, <2>4, <2>5, SeqEqual
<1>8. SubSeq(t, z + 1, Len(t)) = x \o c
  <2> DEFINE r == SubSeq(t, z + 1, l - o + n)
             y == x \o c
  <2>1. \A i \in z + 1 .. l - o + n : t[i] \in CellSet
    BY <1>1, <1>5, ElementOfSeq
  <2>2. /\ r \in Seq(CellSet) /\ Len(r) = l - o - z + n
        /\ \A i \in 1 .. l - o - z + n : r[i] = t[z + i]
    <3>1. /\ r \in Seq(CellSet)
          /\ Len(r) = IF z + 1 <= l - o + n THEN l - o + n - (z + 1) + 1 ELSE 0
          /\ \A i \in 1 .. l - o + n - (z + 1) + 1 : r[i] = t[z + 1 + i - 1]
      BY <1>1, <2>1, SubSeqProperties
    <3>2. /\ l - o + n - (z + 1) + 1 = l - o - z + n
          /\ \A i \in 1 .. l - o - z + n : z + 1 + i - 1 = z + i
      BY <1>1
    <3> QED
      BY <1>1, <3>1, <3>2
  <2>3. /\ y \in Seq(CellSet) /\ Len(y) = l - o - z + n
        /\ \A i \in 1 .. l - o - z + n :
             y[i] = IF i <= l - o - z THEN x[i] ELSE c[i - (l - o - z)]
    <3>1. /\ y \in Seq(CellSet) /\ Len(y) = Len(x) + Len(c)
          /\ \A i \in 1 .. Len(x) + Len(c) : y[i] = IF i <= Len(x) THEN x[i] ELSE c[i - Len(x)]
      BY <1>4, ConcatProperties
    <3> QED
      BY <1>1, <1>4, <3>1
  <2> HIDE DEF r, y
  <2>4. ASSUME NEW i \in 1 .. l - o - z + n PROVE r[i] = y[i]
    <3>1. CASE i <= l - o - z
      <4>1. i \in 1 .. l - o - z /\ z + i \in 1 .. l - o /\ o + (z + i) = o + z + i
        BY <1>1, <3>1
      <4>2. r[i] = b[o + z + i]
        BY <1>6, <2>2, <4>1
      <4> QED
        BY <1>4, <2>3, <3>1, <4>1, <4>2
    <3>2. CASE ~ (i <= l - o - z)
      <4>1. /\ z + i \in 1 .. l - o + n /\ ~ (z + i <= l - o)
            /\ z + i - (l - o) = i - (l - o - z)
        BY <1>1, <3>2
      <4>2. r[i] = c[i - (l - o - z)]
        BY <1>5, <2>2, <4>1
      <4> QED
        BY <2>3, <3>2, <4>2
    <3> QED
      BY <3>1, <3>2
  <2>5. r = y
    BY <2>2, <2>3, <2>4, SeqEqual
  <2> QED
    BY <1>5, <2>5 DEF r, y
<1> QED
  BY <1>1, <1>5, <1>6, <1>7, <1>8 DEF Unread, t, a, x

\* A read moves cells from the kernel to the end of the buffer and changes the
\* stream that the two make up in nothing.
LEMMA ReadMoves ==
  ASSUME NEW b \in Seq(CellSet), NEW c \in Seq(CellSet), NEW n \in 1 .. Len(c)
  PROVE  /\ SubSeq(c, 1, n) \in Seq(CellSet) /\ Len(SubSeq(c, 1, n)) = n
         /\ SubSeq(c, n + 1, Len(c)) \in Seq(CellSet)
         /\ b \o SubSeq(c, 1, n) \in Seq(CellSet) /\ Len(b \o SubSeq(c, 1, n)) = Len(b) + n
         /\ (b \o SubSeq(c, 1, n)) \o SubSeq(c, n + 1, Len(c)) = b \o c
<1>1. PICK l \in Nat : l = Len(c)
  OBVIOUS
<1>2. n \in Nat /\ n >= 1 /\ n <= l
  BY <1>1
<1>3. \A i \in 1 .. l : c[i] \in CellSet
  BY <1>1, ElementOfSeq
<1>4. SubSeq(c, 1, n) \in Seq(CellSet) /\ Len(SubSeq(c, 1, n)) = n
  <2>1. \A i \in 1 .. n : c[i] \in CellSet
    BY <1>2, <1>3
  <2>2. /\ SubSeq(c, 1, n) \in Seq(CellSet)
        /\ Len(SubSeq(c, 1, n)) = IF 1 <= n THEN n - 1 + 1 ELSE 0
    BY <1>2, <2>1, SubSeqProperties
  <2> QED
    BY <1>2, <2>2
<1>5. SubSeq(c, n + 1, l) \in Seq(CellSet)
  <2>1. \A i \in n + 1 .. l : c[i] \in CellSet
    BY <1>2, <1>3
  <2> QED
    BY <1>2, <2>1, SubSeqProperties
<1>6. SubSeq(c, 1, n) \o SubSeq(c, n + 1, l) = SubSeq(c, 1, l)
  <2>1. 1 \in 1 .. Len(c) + 1 /\ n \in 1 - 1 .. Len(c) /\ l \in n .. Len(c)
    BY <1>1, <1>2
  <2> QED
    BY <2>1, ConcatAdjacentSubSeq
<1>7. SubSeq(c, 1, l) = c
  BY <1>1, SubSeqFull
<1>8. (b \o SubSeq(c, 1, n)) \o SubSeq(c, n + 1, l) = b \o (SubSeq(c, 1, n) \o SubSeq(c, n + 1, l))
  <2>1. PICK p \in Seq(CellSet), q \in Seq(CellSet) :
          p = SubSeq(c, 1, n) /\ q = SubSeq(c, n + 1, l)
    BY <1>4, <1>5
  <2>2. (b \o p) \o q = b \o (p \o q)
    BY ConcatAssociative, SMTT(30)
  <2> QED
    BY <2>1, <2>2
<1>9. b \o SubSeq(c, 1, n) \in Seq(CellSet) /\ Len(b \o SubSeq(c, 1, n)) = Len(b) + n
  BY <1>4, ConcatProperties
<1> QED
  BY <1>1, <1>4, <1>5, <1>6, <1>7, <1>8, <1>9

-----------------------------------------------------------------------------
(* The inductive invariant.                                                *)

SocketSet ==
  [cells : Seq(CellSet), state : {"pending", "accepted", "closed"}, shut : BOOLEAN,
   ended : BOOLEAN]

\* A socket in another state.
LEMMA StateChange ==
  ASSUME NEW s \in SocketSet, NEW state \in {"pending", "accepted", "closed"}
  PROVE  LET new == [s EXCEPT !.state = state]
         IN  /\ new \in SocketSet /\ new.state = state
             /\ new.cells = s.cells /\ new.shut = s.shut /\ new.ended = s.ended
  BY DEF SocketSet

\* Every connection has its socket and the messages begun on it.
Environment(so, s) ==
  /\ so \in Seq(SocketSet) /\ Len(so) <= MaxConnections
  /\ s \in Seq(Seq(Messages)) /\ Len(s) = Len(so)
  /\ \A c \in 1 .. Len(s) : \A i \in 1 .. Len(s[c]) : s[c][i].conn = c

\* Where the frames of connection c are among the frames ps, and how many they are.
PlacesOf(ps, c) == {i \in 1 .. Len(ps) : ps[i][1].message.conn = c}
FramesFrom(ps, c) == Cardinality(PlacesOf(ps, c))

\* The frames are whole messages, and those of a connection the first it sent.
WholeFrame(frame) ==
  /\ frame[1].message.len <= kMaxWirePayload
  /\ frame = [k \in 1 .. Size(frame[1].message.len) |-> [message |-> frame[1].message, k |-> k]]

FramesSound(ps, s) ==
  /\ \A i \in 1 .. Len(ps) : WholeFrame(ps[i]) /\ ps[i][1].message.conn \in 1 .. Len(s)
  /\ \A c \in 1 .. Len(s) : \A i \in PlacesOf(ps, c) :
       /\ Cardinality({j \in PlacesOf(ps, c) : j <= i}) <= Len(s[c])
       /\ ps[i][1].message = s[c][Cardinality({j \in PlacesOf(ps, c) : j <= i})]

\* Nothing of the connection has been read.
Fresh(socket, messages, ps, c) ==
  StreamAt(socket.cells, messages, 1, socket.ended) /\ FramesFrom(ps, c) = 0

Reading == {"pump", "read", "parse"}
Closing == {"close", "failed"}

\* One connection at most is accepted, the one that the thread holds; what is unread
\* of it goes on with the message after the frames parsed.
Follows(p, fd, so, s, ps, b, o) ==
  /\ p \in Reading \cup Closing => fd \in 1 .. Len(so) /\ so[fd].state = "accepted"
  /\ p = "accepted" => \E c \in 1 .. Len(so) : so[c].state = "accepted"
  /\ \A c, d \in 1 .. Len(so) : so[c].state = "accepted" /\ so[d].state = "accepted" => c = d
  /\ \A c \in 1 .. Len(so) :
       so[c].state = "accepted" => p \in Reading \cup Closing \cup {"accepted"}
  /\ \A c \in 1 .. Len(so) :
       so[c].state = "pending" \/ (so[c].state = "accepted" /\ p = "accepted")
         => Fresh(so[c], s[c], ps, c)
  /\ p \in Reading =>
       StreamAt(Unread(b, o, so[fd].cells), s[fd], FramesFrom(ps, fd) + 1, so[fd].ended)
  /\ p \in {"pump", "read"} => o = 0

Sound == /\ TypeOK /\ Environment(sockets, sent) /\ FramesSound(parsed, sent)
         /\ queue \in Seq(Seq(CellSet)) /\ parsed \in Seq(Seq(CellSet))
         /\ main_pc = "start" => pc = "none"

FollowsNow == Follows(pc, conn_fd_, sockets, sent, parsed, buf, offset)

UdsInv == Sound /\ (main_pc # "terminated" => FollowsNow)

LEMMA InitUdsInv == Init => UdsInv
<1> SUFFICES ASSUME Init PROVE UdsInv
  OBVIOUS
<1>1. /\ sockets = <<>> /\ sent = <<>> /\ pc = "none" /\ conn_fd_ = None /\ buf = <<>>
      /\ offset = 0 /\ queue = <<>> /\ ring_full_drops = 0 /\ parsed = <<>>
      /\ g_running = TRUE /\ listening = FALSE
  BY DEF Init
<1>2. Len(<<>>) = 0 /\ 1 .. 0 = {} /\ 0 \in 0 .. 0
  OBVIOUS
<1>3. TypeOK
  <2>1. buf \in Seq([message : Messages, k : 1 .. Size(kMaxWirePayload)])
    BY <1>1
  <2>2. Len(buf) = 0 /\ Len(queue) = 0 /\ Len(parsed) = 0
    BY <1>1
  <2>3. Len(buf) <= kBufferCells /\ Len(queue) <= Capacity
    BY <2>2, UdsAssumption
  <2>4. offset \in 0 .. Len(buf) /\ ring_full_drops \in 0 .. Len(parsed)
    BY <1>1, <2>2
  <2> QED
    BY <1>1, <2>1, <2>3, <2>4 DEF TypeOK
<1>4. Environment(sockets, sent) /\ FramesSound(parsed, sent)
  <2>1. sockets \in Seq(SocketSet) /\ sent \in Seq(Seq(Messages))
    BY <1>1
  <2>2. 0 <= MaxConnections
    BY UdsAssumption
  <2> QED
    BY <1>1, <1>2, <2>1, <2>2 DEF Environment, FramesSound
<1>5. queue \in Seq(Seq(CellSet)) /\ parsed \in Seq(Seq(CellSet))
  BY <1>1
<1>6. FollowsNow
  BY <1>1, <1>2 DEF FollowsNow, Follows, Reading, Closing
<1> QED
  BY <1>1, <1>3, <1>4, <1>5, <1>6 DEF UdsInv, Sound

\* What Sound says in pieces.
LEMMA SoundParts ==
  ASSUME Sound
  PROVE  /\ sockets \in Seq(SocketSet) /\ sent \in Seq(Seq(Messages))
         /\ Len(sockets) \in Nat /\ Len(sent) = Len(sockets)
         /\ \A c \in 1 .. Len(sockets) : sockets[c] \in SocketSet /\ sent[c] \in Seq(Messages)
         /\ buf \in Seq(CellSet) /\ offset \in Nat /\ offset <= Len(buf) /\ Len(buf) \in Nat
         /\ Len(buf) <= kBufferCells
<1>1. sockets \in Seq(SocketSet) /\ sent \in Seq(Seq(Messages)) /\ Len(sent) = Len(sockets)
  BY DEF Sound, Environment
<1>2. buf \in Seq(CellSet) /\ Len(buf) <= kBufferCells /\ offset \in 0 .. Len(buf)
  BY DEF Sound, TypeOK, CellSet
<1> QED
  BY <1>1, <1>2, ElementOfSeq

-----------------------------------------------------------------------------
(* The ingest thread.                                                      *)

\* Steps between places that touch neither the stream nor the buffer.
LEMMA MoveStep ==
  ASSUME UdsInv, main_pc # "terminated",
         Run \/ AcceptEnds \/ AcceptFails \/ Pump \/ ReadFails \/ DropConnection \/ ForgetFd
  PROVE  UdsInv'
<1>1. UNCHANGED <<g_running, listening, main_pc, sockets, sent, buf, offset, queue,
                  ring_full_drops, parsed>>
  BY DEF Run, AcceptEnds, AcceptFails, AcceptReturnsError, Pump, ReadFails, DropConnection,
         ForgetFd, process, environment, buffer, ring
<1>2. Sound /\ FollowsNow
  BY DEF UdsInv
<1>3. /\ pc \in {"run", "accept", "pump", "read", "parse", "closed"}
      /\ pc' \in {"accept", "returned", "read", "close", "failed", "run"}
      /\ pc \in {"run", "accept", "closed"} => pc' \in {"accept", "returned", "run"}
      /\ pc \in Reading => pc' \in {"read"} \cup Closing /\ conn_fd_' = conn_fd_
      /\ pc' = "read" => pc = "pump"
      /\ conn_fd_' \in {conn_fd_, None}
  BY DEF Run, AcceptEnds, AcceptFails, AcceptReturnsError, Pump, ReadFails, DropConnection,
         ForgetFd, Goto, Reading, Closing
<1>4. Sound'
  <2>1. TypeOK'
    BY <1>1, <1>2, <1>3 DEF Sound, TypeOK, Connections
  <2>2. main_pc' # "start"
    BY <1>1, <1>2, <1>3 DEF Sound
  <2> QED
    BY <1>1, <1>2, <2>1, <2>2 DEF Sound
<1>5. Follows(pc', conn_fd_', sockets, sent, parsed, buf, offset)
  BY <1>2, <1>3 DEF FollowsNow, Follows, Reading, Closing
<1>6. FollowsNow'
  BY <1>1, <1>5 DEF FollowsNow
<1> QED
  BY <1>4, <1>6 DEF UdsInv

\* A set of connections that is not empty has a first one.
LEMMA FirstOf ==
  ASSUME NEW n \in Nat, NEW C \in SUBSET (1 .. n), C # {}
  PROVE  Min(C) \in C
<1>1. C \subseteq Nat
  OBVIOUS
<1>2. PICK x \in C : \A y \in C : ~ (<<y, x>> \in OpToRel(<, Nat))
  BY <1>1, NatLessThanWellFounded, WFMin
<1>3. \A y \in C : <<y, x>> \in OpToRel(<, Nat) <=> y < x
  BY <1>1 DEF OpToRel
<1>4. \A y \in C : ~ (y < x)
  BY <1>2, <1>3, Zenon
<1>5. \A y \in C : x <= y
  BY <1>1, <1>4
<1> QED
  BY <1>5 DEF Min

\* accept() takes a connection of which nothing was read.
LEMMA AcceptStep ==
  ASSUME UdsInv, main_pc # "terminated", Accept
  PROVE  UdsInv'
<1>1. /\ UNCHANGED <<g_running, listening, main_pc, sent, conn_fd_, buf, offset, queue,
                     ring_full_drops, parsed>>
      /\ pc = "accept" /\ pc' = "accepted" /\ Pending # {}
  BY DEF Accept, Goto, process, buffer, ring
<1>2. Sound /\ FollowsNow
  BY DEF UdsInv
<1>3. PICK n \in Nat : n = Len(sockets)
  BY <1>2, SoundParts
<1>4. PICK a \in 1 .. n : a = Min(Pending) /\ sockets[a].state = "pending"
  <2>1. Pending \in SUBSET (1 .. n)
    BY <1>3 DEF Pending, Connections
  <2>2. Min(Pending) \in Pending
    BY <1>1, <2>1, FirstOf
  <2> QED
    BY <1>3, <2>2 DEF Pending, Connections
<1>5. \A c \in 1 .. n : sockets[c] \in SocketSet
  BY <1>2, <1>3, SoundParts
<1>6. PICK new \in SocketSet :
        /\ new = [sockets[a] EXCEPT !.state = "accepted"]
        /\ new.state = "accepted" /\ new.cells = sockets[a].cells
        /\ new.ended = sockets[a].ended
  <2>1. sockets[a] \in SocketSet
    BY <1>5
  <2> QED
    BY <2>1, StateChange
<1>7. sockets' = [sockets EXCEPT ![a] = new]
  BY <1>4, <1>6 DEF Accept
<1>8. /\ sockets' \in Seq(SocketSet) /\ Len(sockets') = n /\ sockets'[a] = new
      /\ \A c \in 1 .. n : c # a => sockets'[c] = sockets[c]
  BY <1>2, <1>3, <1>7, SoundParts, ExceptSeq
<1>9. Sound'
  <2>1. TypeOK'
    BY <1>1, <1>2, <1>3, <1>8 DEF Sound, TypeOK, Connections
  <2>2. Environment(sockets', sent)
    BY <1>2, <1>3, <1>8 DEF Sound, Environment
  <2>3. main_pc' # "start"
    BY <1>1, <1>2 DEF Sound
  <2> QED
    BY <1>1, <1>2, <2>1, <2>2, <2>3 DEF Sound
<1>10. \A c \in 1 .. n : sockets[c].state # "accepted"
  BY <1>1, <1>2, <1>3 DEF FollowsNow, Follows, Reading, Closing
<1>11. ASSUME NEW c \in 1 .. n,
              sockets'[c].state = "pending" \/ sockets'[c].state = "accepted"
       PROVE  Fresh(sockets'[c], sent[c], parsed, c)
  <2>1. sockets[c].state = "pending" /\ sockets'[c].cells = sockets[c].cells
        /\ sockets'[c].ended = sockets[c].ended
    BY <1>4, <1>6, <1>8, <1>10, <1>11
  <2>2. Fresh(sockets[c], sent[c], parsed, c)
    BY <1>2, <1>3, <2>1 DEF FollowsNow, Follows
  <2> QED
    BY <2>1, <2>2 DEF Fresh
<1>12. Follows("accepted", conn_fd_, sockets', sent, parsed, buf, offset)
  BY <1>6, <1>8, <1>10, <1>11 DEF Follows, Reading, Closing
<1>13. FollowsNow'
  BY <1>1, <1>12 DEF FollowsNow
<1> QED
  BY <1>9, <1>13 DEF UdsInv

\* conn_fd_ is assigned, and pump() begins.
LEMMA AssignStep ==
  ASSUME UdsInv, main_pc # "terminated", AssignFd
  PROVE  UdsInv'
<1>1. /\ UNCHANGED <<g_running, listening, main_pc, sockets, sent, queue,
                     ring_full_drops, parsed>>
      /\ pc = "accepted" /\ pc' = "pump" /\ conn_fd_' = Accepted /\ buf' = <<>> /\ offset' = 0
  BY DEF AssignFd, Goto, process, environment, ring
<1>2. Sound /\ FollowsNow
  BY DEF UdsInv
<1>3. PICK a \in 1 .. Len(sockets) : a = Accepted /\ sockets[a].state = "accepted"
  BY <1>1, <1>2 DEF FollowsNow, Follows, Accepted, Connections
<1>4. buf' \in Seq(CellSet) /\ Len(buf') = 0 /\ 0 \in Nat /\ 0 <= kBufferCells /\ 0 \in 0 .. 0
  BY <1>1, UdsAssumption
<1>5. Sound'
  <2>1. TypeOK'
    BY <1>1, <1>2, <1>3, <1>4 DEF Sound, TypeOK, Connections, CellSet
  <2>2. main_pc' # "start"
    BY <1>1, <1>2 DEF Sound
  <2> QED
    BY <1>1, <1>2, <2>1, <2>2 DEF Sound
<1>6. PICK cells \in Seq(CellSet) : cells = sockets[a].cells
  BY <1>2, SoundParts DEF SocketSet
<1>7. Unread(<<>>, 0, cells) = cells
  <2>1. SubSeq(<<>>, 0 + 1, Len(<<>>)) = <<>>
    BY SubSeqEmpty
  <2> QED
    BY <2>1, ConcatEmptySeq DEF Unread
<1>8. StreamAt(cells, sent[a], 1, sockets[a].ended) /\ FramesFrom(parsed, a) = 0
  BY <1>1, <1>2, <1>3, <1>6 DEF FollowsNow, Follows, Fresh
<1>9. Follows("pump", a, sockets, sent, parsed, <<>>, 0)
  <2>1. FramesFrom(parsed, a) + 1 = 1
    BY <1>8
  <2>2. StreamAt(Unread(<<>>, 0, sockets[a].cells), sent[a], FramesFrom(parsed, a) + 1,
                 sockets[a].ended)
    BY <1>6, <1>7, <1>8, <2>1
  <2> QED
    BY <1>1, <1>2, <1>3, <2>2 DEF FollowsNow, Follows, Reading, Closing
<1>10. FollowsNow'
  BY <1>1, <1>3, <1>9 DEF FollowsNow
<1> QED
  BY <1>5, <1>10 DEF UdsInv

\* A socket after a read of n cells.
LEMMA CellsRead ==
  ASSUME NEW s \in SocketSet, NEW c \in Seq(CellSet)
  PROVE  LET new == [s EXCEPT !.cells = c]
         IN  /\ new \in SocketSet /\ new.state = s.state
             /\ new.cells = c /\ new.shut = s.shut /\ new.ended = s.ended
  BY DEF SocketSet

\* The minimum of two numbers.
LEMMA MinOfTwo ==
  ASSUME NEW m \in Nat, NEW n \in Nat
  PROVE  Min({m, n}) \in Nat /\ Min({m, n}) <= m /\ Min({m, n}) <= n
<1>1. CASE m <= n
  <2>1. m \in {m, n} /\ \A y \in {m, n} : m <= y
    BY <1>1
  <2> QED
    BY <2>1 DEF Min
<1>2. CASE ~ (m <= n)
  <2>1. n \in {m, n} /\ \A y \in {m, n} : n <= y
    BY <1>2
  <2> QED
    BY <2>1 DEF Min
<1> QED
  BY <1>1, <1>2

\* read() puts cells behind those of the buffer, or ends the connection.
LEMMA ReadStep ==
  ASSUME UdsInv, main_pc # "terminated", Read
  PROVE  UdsInv'
<1>1. /\ UNCHANGED <<g_running, listening, main_pc, sent, conn_fd_, queue,
                     ring_full_drops, parsed>>
      /\ pc = "read" /\ offset' = 0
  BY DEF Read, process, ring
<1>2. Sound /\ FollowsNow
  BY DEF UdsInv
<1>3. /\ conn_fd_ \in 1 .. Len(sockets) /\ sockets[conn_fd_].state = "accepted" /\ offset = 0
      /\ StreamAt(Unread(buf, offset, sockets[conn_fd_].cells), sent[conn_fd_],
                  FramesFrom(parsed, conn_fd_) + 1, sockets[conn_fd_].ended)
      /\ \A d \in 1 .. Len(sockets) : sockets[d].state = "accepted" => d = conn_fd_
  BY <1>1, <1>2 DEF FollowsNow, Follows, Reading, Closing
<1>0. PICK n \in Nat : n = Len(sockets)
  BY <1>2, SoundParts
<1>4. PICK fd \in 1 .. n : fd = conn_fd_ /\ n = Len(sockets)
  BY <1>0, <1>3
<1>5. /\ sockets \in Seq(SocketSet) /\ sockets[fd] \in SocketSet
      /\ buf \in Seq(CellSet) /\ Len(buf) \in Nat /\ Len(buf) <= kBufferCells
      /\ main_pc # "start" /\ kBufferCells \in Nat
  BY <1>1, <1>2, <1>4, SoundParts, UdsAssumption DEF Sound
<1>6. PICK c \in Seq(CellSet) : c = sockets[fd].cells
  BY <1>5 DEF SocketSet
<1>7. PICK room \in Nat : room = kBufferCells - Len(buf)
  BY <1>5
<1>8. CASE pc' = "close" /\ UNCHANGED <<buf, sockets>>
  <2>1. Sound'
    <3>1. 0 \in 0 .. Len(buf)
      BY <1>5
    <3>2. TypeOK'
      BY <1>1, <1>2, <1>8, <3>1 DEF Sound, TypeOK, Connections
    <3> QED
      BY <1>1, <1>2, <1>5, <1>8, <3>2 DEF Sound
  <2>2. Follows("close", conn_fd_, sockets, sent, parsed, buf, 0)
    BY <1>1, <1>2 DEF FollowsNow, Follows, Reading, Closing
  <2>3. FollowsNow'
    BY <1>1, <1>8, <2>2 DEF FollowsNow
  <2> QED
    BY <2>1, <2>3 DEF UdsInv
<1>9. ASSUME NEW k \in 1 .. Min({room, Len(c)}), pc' = "parse",
             buf' = buf \o SubSeq(c, 1, k),
             sockets' = [sockets EXCEPT ![fd].cells = SubSeq(@, k + 1, Len(@))]
      PROVE  UdsInv'
  <2>1. k \in 1 .. Len(c) /\ k <= room
    <3>1. Len(c) \in Nat
      OBVIOUS
    <3>2. PICK l \in Nat : l = Min({room, Len(c)}) /\ l <= room /\ l <= Len(c)
      BY <3>1, MinOfTwo
    <3> QED
      BY <3>1, <3>2
  <2>2. PICK rest \in Seq(CellSet), b \in Seq(CellSet) :
          /\ rest = SubSeq(c, k + 1, Len(c)) /\ b = buf \o SubSeq(c, 1, k)
          /\ Len(b) = Len(buf) + k /\ b \o rest = buf \o c
    BY <1>5, <2>1, ReadMoves
  <2>3. PICK new \in SocketSet :
          /\ new = [sockets[fd] EXCEPT !.cells = rest]
          /\ new.state = sockets[fd].state /\ new.cells = rest /\ new.ended = sockets[fd].ended
    BY <1>5, CellsRead, ZenonT(30)
  <2>4. sockets' = [sockets EXCEPT ![fd] = new]
    BY <1>6, <1>9, <2>2, <2>3
  <2>5. /\ sockets' \in Seq(SocketSet) /\ Len(sockets') = n /\ sockets'[fd] = new
        /\ \A d \in 1 .. n : d # fd => sockets'[d] = sockets[d]
    BY <1>4, <1>5, <2>4, ExceptSeq
  <2>6. Len(b) \in Nat /\ Len(b) <= kBufferCells /\ 0 \in 0 .. Len(b)
    BY <1>5, <1>7, <2>1, <2>2
  <2>7. Sound'
    <3>1. TypeOK'
      BY <1>1, <1>2, <1>4, <1>9, <2>2, <2>5, <2>6 DEF Sound, TypeOK, Connections, CellSet
    <3>2. Environment(sockets', sent)
      BY <1>2, <1>4, <2>5 DEF Sound, Environment
    <3> QED
      BY <1>1, <1>2, <1>5, <3>1, <3>2 DEF Sound
  <2>8. Unread(buf, 0, c) = Unread(b, 0, rest)
    <3>1. SubSeq(buf, 0 + 1, Len(buf)) = buf /\ SubSeq(b, 0 + 1, Len(b)) = b
      BY <1>5, SubSeqFull
    <3> QED
      BY <2>2, <3>1 DEF Unread
  <2>9. StreamAt(Unread(b, 0, new.cells), sent[fd], FramesFrom(parsed, fd) + 1, new.ended)
    <3>1. StreamAt(Unread(buf, 0, c), sent[fd], FramesFrom(parsed, fd) + 1, sockets[fd].ended)
      BY <1>3, <1>4, <1>6
    <3> QED
      BY <2>3, <2>8, <3>1
  <2>10. \A d \in 1 .. n : sockets'[d].state = sockets[d].state
    BY <2>3, <2>5
  <2>11. ASSUME NEW d \in 1 .. n, sockets'[d].state = "pending"
         PROVE  Fresh(sockets'[d], sent[d], parsed, d)
    <3>1. d # fd /\ sockets[d].state = "pending"
      BY <1>3, <1>4, <2>10, <2>11
    <3>2. Fresh(sockets[d], sent[d], parsed, d)
      BY <1>2, <1>4, <3>1 DEF FollowsNow, Follows
    <3> QED
      BY <2>5, <3>1, <3>2
  <2>12. \A d \in 1 .. n : sockets'[d].state = "accepted" => d = fd
    BY <1>3, <1>4, <2>10
  <2>13. sockets'[fd].state = "accepted"
    BY <1>3, <1>4, <2>10
  <2>14. Follows("parse", fd, sockets', sent, parsed, b, 0)
    BY <1>4, <2>5, <2>9, <2>11, <2>12, <2>13 DEF Follows, Reading, Closing
  <2>15. FollowsNow'
    BY <1>1, <1>4, <1>9, <2>2, <2>14 DEF FollowsNow
  <2> QED
    BY <2>7, <2>15 DEF UdsInv
<1> QED
  BY <1>4, <1>6, <1>7, <1>8, <1>9 DEF Read

\* What the parser finds at offset is the first cell of the next message, and the whole
\* frame is that message.
LEMMA AtOffset ==
  ASSUME Sound, FollowsNow, pc = "parse", Rest >= PrefixCells
  PROVE  LET fd == conn_fd_
             m  == buf[offset + 1].message
         IN  /\ m \in Messages /\ Announced = m.len
             /\ fd \in 1 .. Len(sockets)
             /\ ~ Oversized /\ Whole =>
                  LET z == Size(m.len)
                      f == SubSeq(buf, offset + 1, offset + z)
                  IN  /\ z \in Nat /\ z >= 3 /\ offset + z <= Len(buf)
                      /\ m.len <= kMaxWirePayload /\ FramesFrom(parsed, fd) + 1 <= Len(sent[fd])
                      /\ m = sent[fd][FramesFrom(parsed, fd) + 1]
                      /\ f \in Seq(CellSet) /\ f = [k \in 1 .. z |-> [message |-> m, k |-> k]]
                      /\ StreamAt(Unread(buf, offset + z, sockets[fd].cells), sent[fd],
                                  FramesFrom(parsed, fd) + 2, sockets[fd].ended)
<1> DEFINE fd == conn_fd_
           m  == buf[offset + 1].message
<1>1. /\ fd \in 1 .. Len(sockets)
      /\ StreamAt(Unread(buf, offset, sockets[fd].cells), sent[fd],
                  FramesFrom(parsed, fd) + 1, sockets[fd].ended)
  BY DEF FollowsNow, Follows, Reading, Closing
<1>2. PICK o \in Nat, l \in Nat : o = offset /\ l = Len(buf) /\ o <= l
  BY SoundParts
<1>3. /\ buf \in Seq(CellSet) /\ sockets[fd] \in SocketSet /\ sent[fd] \in Seq(Messages)
      /\ o + 2 <= l /\ o + 1 \in 1 .. l
  BY <1>1, <1>2, SoundParts DEF Rest, PrefixCells
<1>4. PICK c \in Seq(CellSet) : c = sockets[fd].cells
  BY <1>3 DEF SocketSet
<1>5. PICK n \in Nat : n = FramesFrom(parsed, fd)
  <2>1. Len(parsed) \in Nat /\ PlacesOf(parsed, fd) \subseteq 1 .. Len(parsed)
    BY DEF Sound, PlacesOf
  <2>2. IsFiniteSet(PlacesOf(parsed, fd))
    <3>1. IsFiniteSet(1 .. Len(parsed))
      BY <2>1, FS_Interval
    <3> QED
      BY <2>1, <3>1, FS_Subset
  <2> QED
    BY <2>2, FS_CardinalityType DEF FramesFrom
<1> DEFINE t == Unread(buf, o, c)
<1>6. StreamAt(t, sent[fd], n + 1, sockets[fd].ended)
  BY <1>1, <1>2, <1>4, <1>5
<1>7. t \in Seq(CellSet) /\ Len(t) = l - o + Len(c) /\ \A i \in 1 .. l - o : t[i] = buf[o + i]
  <2>1. o + 0 <= Len(buf) /\ 0 \in Nat
    BY <1>2
  <2> QED
    BY <1>2, <1>3, <2>1, CutBuffer
<1>8. 1 \in 1 .. l - o /\ 1 \in 1 .. Len(t) /\ t # <<>>
  BY <1>2, <1>3, <1>7, EmptySeq
<1>9. t[1] = buf[o + 1]
  BY <1>7, <1>8
<1>10. m \in Messages
  BY <1>2, <1>7, <1>8, <1>9, StreamCells
<1>11. t[1].k = 1
  BY <1>6, <1>8 DEF StreamAt, Begins
<1>12. Announced = m.len
  BY <1>2, <1>9, <1>11 DEF Announced
<1>13. ASSUME ~ Oversized, Whole
       PROVE  LET z == Size(m.len)
                  f == SubSeq(buf, offset + 1, offset + z)
              IN  /\ z \in Nat /\ z >= 3 /\ offset + z <= Len(buf)
                  /\ m.len <= kMaxWirePayload /\ FramesFrom(parsed, fd) + 1 <= Len(sent[fd])
                  /\ m = sent[fd][FramesFrom(parsed, fd) + 1]
                  /\ f \in Seq(CellSet) /\ f = [k \in 1 .. z |-> [message |-> m, k |-> k]]
                  /\ StreamAt(Unread(buf, offset + z, sockets[fd].cells), sent[fd],
                              FramesFrom(parsed, fd) + 2, sockets[fd].ended)
  <2>1. m.len \in Nat /\ m.len <= kMaxWirePayload /\ kMaxWirePayload \in Nat
    BY <1>10, <1>12, <1>13, WireBounds DEF Oversized
  <2>2. PICK z \in Nat : z = Size(m.len) /\ z = WireCells(m) /\ z >= 3
    BY <1>10, <2>1, WireBounds
  <2>3. o + z <= l
    BY <1>2, <1>12, <1>13, <2>2 DEF Whole, Rest
  <2>4. /\ SubSeq(t, 1, z) = SubSeq(buf, o + 1, o + z)
        /\ SubSeq(t, z + 1, Len(t)) = Unread(buf, o + z, c)
    <3>1. o + z <= Len(buf)
      BY <1>2, <2>3
    <3>2. PICK b \in Seq(CellSet) : b = buf
      BY <1>3
    <3>3. o + z <= Len(b)
      BY <3>1, <3>2
    <3>4. /\ SubSeq(Unread(b, o, c), 1, z) = SubSeq(b, o + 1, o + z)
          /\ SubSeq(Unread(b, o, c), z + 1, Len(Unread(b, o, c))) = Unread(b, o + z, c)
      BY <3>3, CutBuffer
    <3> QED
      BY <3>2, <3>4
  <2>5. z <= Len(t) /\ m = t[1].message
    BY <1>2, <1>7, <1>9, <2>3
  <2>6. /\ m.number = n + 1 /\ n + 1 <= Len(sent[fd]) /\ m = sent[fd][n + 1]
        /\ SubSeq(t, 1, z) = [k \in 1 .. z |-> [message |-> m, k |-> k]]
        /\ StreamAt(SubSeq(t, z + 1, Len(t)), sent[fd], n + 1 + 1, sockets[fd].ended)
    <3> HIDE DEF t
    <3>1. n + 1 \in Nat /\ WireCells(t[1].message) <= Len(t)
      BY <2>2, <2>5
    <3> HIDE DEF m
    <3> QED
      BY <1>3, <1>6, <1>8, <2>2, <2>5, <3>1, StreamTaken
  <2>8. n + 1 + 1 = n + 2
    OBVIOUS
  <2>9. StreamAt(Unread(buf, o + z, c), sent[fd], n + 2, sockets[fd].ended)
    BY <2>4, <2>6, <2>8
  <2>10. SubSeq(buf, o + 1, o + z) \in Seq(CellSet)
    <3>1. \A i \in o + 1 .. o + z : buf[i] \in CellSet
      BY <1>2, <1>3, <2>3, ElementOfSeq
    <3> QED
      BY <3>1, SubSeqProperties
  <2> QED
    BY <1>2, <1>4, <1>5, <2>1, <2>2, <2>3, <2>4, <2>6, <2>9, <2>10
<1> QED
  BY <1>1, <1>10, <1>12, <1>13

\* The places of the frames of one connection are finitely many.
LEMMA PlacesFinite ==
  ASSUME NEW ps \in Seq(Seq(CellSet)), NEW c
  PROVE  /\ PlacesOf(ps, c) \subseteq 1 .. Len(ps) /\ IsFiniteSet(PlacesOf(ps, c))
         /\ FramesFrom(ps, c) \in Nat
<1>1. Len(ps) \in Nat /\ PlacesOf(ps, c) \subseteq 1 .. Len(ps)
  BY DEF PlacesOf
<1>2. IsFiniteSet(1 .. Len(ps))
  BY <1>1, FS_Interval
<1>3. IsFiniteSet(PlacesOf(ps, c))
  BY <1>1, <1>2, FS_Subset
<1> QED
  BY <1>1, <1>3, FS_CardinalityType DEF FramesFrom

FrameOf(m) == [k \in 1 .. Size(m.len) |-> [message |-> m, k |-> k]]

\* One more frame, the next message of connection c.
LEMMA FrameAdded ==
  ASSUME NEW ps \in Seq(Seq(CellSet)), NEW s, FramesSound(ps, s), NEW c \in 1 .. Len(s),
         NEW m \in Messages, m.len <= kMaxWirePayload, m.conn = c,
         NEW f \in Seq(CellSet), f = FrameOf(m),
         FramesFrom(ps, c) + 1 <= Len(s[c]), m = s[c][FramesFrom(ps, c) + 1]
  PROVE  /\ FramesSound(Append(ps, f), s)
         /\ FramesFrom(Append(ps, f), c) = FramesFrom(ps, c) + 1
         /\ \A d : d # c => FramesFrom(Append(ps, f), d) = FramesFrom(ps, d)
<1>1. PICK n \in Nat : n = Len(ps)
  OBVIOUS
<1>2. PICK qs \in Seq(Seq(CellSet)) :
        /\ qs = Append(ps, f) /\ Len(qs) = n + 1 /\ qs[n + 1] = f
        /\ \A i \in 1 .. n : qs[i] = ps[i]
  <2>1. /\ Append(ps, f) \in Seq(Seq(CellSet)) /\ Len(Append(ps, f)) = Len(ps) + 1
        /\ Append(ps, f)[Len(ps) + 1] = f
        /\ \A i \in 1 .. Len(ps) : Append(ps, f)[i] = ps[i]
    BY AppendProperties
  <2> QED
    BY <1>1, <2>1
<1>3. f[1].message = m
  <2>1. 1 \in 1 .. Size(m.len)
    BY WireBounds
  <2>2. f[1] = [message |-> m, k |-> 1]
    BY <2>1 DEF FrameOf
  <2> QED
    BY <2>2
<1>4. /\ \A i \in 1 .. n + 1 : i \in 1 .. n \/ i = n + 1
      /\ n + 1 \in 1 .. n + 1 /\ 1 .. n \subseteq 1 .. n + 1 /\ n + 1 \notin 1 .. n
  OBVIOUS
<1>5. PlacesOf(qs, c) = PlacesOf(ps, c) \cup {n + 1}
  BY <1>1, <1>2, <1>3, <1>4 DEF PlacesOf
<1>6. ASSUME NEW d, d # c
      PROVE  PlacesOf(qs, d) = PlacesOf(ps, d)
  <2>1. qs[n + 1][1].message.conn # d
    BY <1>2, <1>3, <1>6
  <2>2. ASSUME NEW i PROVE i \in PlacesOf(qs, d) <=> i \in PlacesOf(ps, d)
    <3>1. i \in PlacesOf(qs, d) <=> i \in 1 .. n + 1 /\ qs[i][1].message.conn = d
      BY <1>2 DEF PlacesOf
    <3>2. i \in PlacesOf(ps, d) <=> i \in 1 .. n /\ ps[i][1].message.conn = d
      BY <1>1 DEF PlacesOf
    <3> QED
      BY <1>2, <1>4, <2>1, <3>1, <3>2
  <2> QED
    BY <2>2
<1>7. /\ n + 1 \notin PlacesOf(ps, c) /\ IsFiniteSet(PlacesOf(ps, c))
      /\ FramesFrom(ps, c) \in Nat
      /\ \A d : PlacesOf(ps, d) \subseteq 1 .. n
  BY <1>1, <1>4, PlacesFinite
<1>8. FramesFrom(qs, c) = FramesFrom(ps, c) + 1
  BY <1>5, <1>7, FS_AddElement DEF FramesFrom
<1>9. \A d : d # c => FramesFrom(qs, d) = FramesFrom(ps, d)
  BY <1>6 DEF FramesFrom
<1>10. \A i \in 1 .. n + 1 : WholeFrame(qs[i]) /\ qs[i][1].message.conn \in 1 .. Len(s)
  <2>1. \A i \in 1 .. n : WholeFrame(ps[i]) /\ ps[i][1].message.conn \in 1 .. Len(s)
    BY <1>1 DEF FramesSound
  <2>2. WholeFrame(f)
    BY <1>3 DEF WholeFrame, FrameOf
  <2> QED
    BY <1>2, <1>3, <1>4, <2>1, <2>2
<1>11. ASSUME NEW d \in 1 .. Len(s), NEW i \in PlacesOf(qs, d)
       PROVE  /\ Cardinality({j \in PlacesOf(qs, d) : j <= i}) <= Len(s[d])
              /\ qs[i][1].message = s[d][Cardinality({j \in PlacesOf(qs, d) : j <= i})]
  <2>1. CASE i \in PlacesOf(ps, d)
    <3>1. i \in 1 .. n
      BY <1>7, <2>1
    <3>2. PlacesOf(qs, d) = PlacesOf(ps, d) \/ PlacesOf(qs, d) = PlacesOf(ps, d) \cup {n + 1}
      BY <1>5, <1>6
    <3>3. ~ (n + 1 <= i)
      BY <3>1
    <3>4. {j \in PlacesOf(qs, d) : j <= i} = {j \in PlacesOf(ps, d) : j <= i}
      BY <3>2, <3>3
    <3>5. qs[i] = ps[i]
      BY <1>2, <3>1
    <3> QED
      BY <2>1, <3>4, <3>5 DEF FramesSound
  <2>2. CASE i \notin PlacesOf(ps, d)
    <3>1. d = c /\ i = n + 1
      BY <1>5, <1>6, <1>11, <2>2
    <3>2. \A j \in PlacesOf(qs, d) : j <= i
      <4>1. \A j \in 1 .. n : j <= n + 1
        OBVIOUS
      <4>2. n + 1 <= n + 1
        OBVIOUS
      <4> QED
        BY <1>5, <1>7, <3>1, <4>1, <4>2
    <3>3. {j \in PlacesOf(qs, d) : j <= i} = PlacesOf(qs, c)
      BY <3>1, <3>2
    <3>4. Cardinality({j \in PlacesOf(qs, d) : j <= i}) = FramesFrom(ps, c) + 1
      BY <1>8, <3>3 DEF FramesFrom
    <3> QED
      BY <1>2, <1>3, <3>1, <3>4
  <2> QED
    BY <2>1, <2>2
<1>12. FramesSound(qs, s)
  BY <1>2, <1>10, <1>11 DEF FramesSound
<1> QED
  BY <1>2, <1>8, <1>9, <1>12

\* A whole frame leaves the buffer and is the next message.
LEMMA FrameStep ==
  ASSUME UdsInv, main_pc # "terminated", Frame
  PROVE  UdsInv'
<1>1. /\ UNCHANGED <<g_running, listening, main_pc, sockets, sent, conn_fd_, buf>>
      /\ pc = "parse" /\ pc' = "parse" /\ ~ Oversized /\ Whole /\ Rest >= PrefixCells
      /\ offset' = offset + Size(Announced)
      /\ parsed' = Append(parsed, SubSeq(buf, offset + 1, offset + Size(Announced)))
  BY DEF Frame, FrameThen, Goto, process, environment, Whole
<1>2. Sound /\ FollowsNow
  BY DEF UdsInv
<1>3. PICK fd \in 1 .. Len(sockets) : fd = conn_fd_
  BY <1>1, <1>2, AtOffset
<1>4. PICK m \in Messages : m = buf[offset + 1].message /\ Announced = m.len
  BY <1>1, <1>2, AtOffset
<1>5. PICK z \in Nat : z = Size(m.len) /\ z >= 3 /\ offset + z <= Len(buf)
  BY <1>1, <1>2, <1>4, AtOffset
<1>6. PICK f \in Seq(CellSet) :
        /\ f = SubSeq(buf, offset + 1, offset + z)
        /\ f = [k \in 1 .. Size(m.len) |-> [message |-> m, k |-> k]]
  BY <1>1, <1>2, <1>4, <1>5, AtOffset
<1>7. /\ m.len <= kMaxWirePayload /\ FramesFrom(parsed, fd) + 1 <= Len(sent[fd])
      /\ m = sent[fd][FramesFrom(parsed, fd) + 1]
      /\ StreamAt(Unread(buf, offset + z, sockets[fd].cells), sent[fd],
                  FramesFrom(parsed, fd) + 2, sockets[fd].ended)
  BY <1>1, <1>2, <1>3, <1>4, <1>5, AtOffset
<1>8. parsed' = Append(parsed, f) /\ offset' = offset + z
  BY <1>1, <1>4, <1>5, <1>6
<1>9. /\ parsed \in Seq(Seq(CellSet)) /\ FramesSound(parsed, sent) /\ Len(parsed) \in Nat
      /\ queue \in Seq(Seq(CellSet)) /\ Len(queue) \in Nat /\ Len(queue) <= Capacity
      /\ ring_full_drops \in 0 .. Len(parsed) /\ fd \in 1 .. Len(sent)
      /\ main_pc # "start" /\ Capacity \in Nat
  BY <1>1, <1>2, SoundParts, UdsAssumption, SMTT(30) DEF Sound, TypeOK
<1>10. m.conn = fd
  <2>1. FramesFrom(parsed, fd) + 1 \in 1 .. Len(sent[fd])
    BY <1>2, <1>7, <1>9, PlacesFinite, SoundParts, SMTT(30)
  <2> QED
    BY <1>2, <1>7, <1>9, <2>1 DEF Sound, Environment
<1>11. /\ FramesSound(parsed', sent)
       /\ FramesFrom(parsed', fd) = FramesFrom(parsed, fd) + 1
       /\ \A d : d # fd => FramesFrom(parsed', d) = FramesFrom(parsed, d)
  <2>1. f = FrameOf(m)
    BY <1>6 DEF FrameOf
  <2>2. /\ FramesSound(Append(parsed, f), sent)
        /\ FramesFrom(Append(parsed, f), fd) = FramesFrom(parsed, fd) + 1
        /\ \A d : d # fd => FramesFrom(Append(parsed, f), d) = FramesFrom(parsed, d)
    <3>1. /\ parsed \in Seq(Seq(CellSet)) /\ FramesSound(parsed, sent) /\ fd \in 1 .. Len(sent)
          /\ m.len <= kMaxWirePayload /\ m.conn = fd
          /\ FramesFrom(parsed, fd) + 1 <= Len(sent[fd])
          /\ m = sent[fd][FramesFrom(parsed, fd) + 1]
      BY <1>7, <1>9, <1>10
    <3> QED
      BY <2>1, <3>1, FrameAdded
  <2> QED
    BY <1>8, <2>2
<1>12. parsed' \in Seq(Seq(CellSet)) /\ Len(parsed') = Len(parsed) + 1
  BY <1>8, <1>9, AppendProperties
<1>13. /\ queue' \in Seq(Seq(CellSet)) /\ Len(queue') <= Capacity
       /\ ring_full_drops' \in 0 .. Len(parsed')
  <2>1. CASE Len(queue) < Capacity
    <3>1. queue' = Append(queue, f) /\ ring_full_drops' = ring_full_drops
      BY <1>4, <1>5, <1>6, <2>1 DEF Frame, FrameThen
    <3>2. queue' \in Seq(Seq(CellSet)) /\ Len(queue') = Len(queue) + 1
      BY <1>9, <3>1, AppendProperties
    <3> QED
      BY <1>9, <1>12, <2>1, <3>1, <3>2
  <2>2. CASE ~ (Len(queue) < Capacity)
    <3>1. queue' = queue /\ ring_full_drops' = ring_full_drops + 1
      BY <2>2 DEF Frame, FrameThen
    <3> QED
      BY <1>9, <1>12, <3>1
  <2> QED
    BY <2>1, <2>2
<1>14. Sound'
  <2>1. offset' \in 0 .. Len(buf)
    BY <1>2, <1>5, <1>8, SoundParts
  <2>2. TypeOK'
    BY <1>1, <1>2, <1>13, <2>1 DEF Sound, TypeOK, Connections
  <2> QED
    BY <1>1, <1>2, <1>9, <1>11, <1>12, <1>13, <2>2 DEF Sound
<1>15. Follows("parse", fd, sockets, sent, parsed', buf, offset')
  <2>1. /\ sockets[fd].state = "accepted"
        /\ \A c, d \in 1 .. Len(sockets) :
             sockets[c].state = "accepted" /\ sockets[d].state = "accepted" => c = d
    BY <1>1, <1>2, <1>3 DEF FollowsNow, Follows, Reading, Closing
  <2>2. ASSUME NEW c \in 1 .. Len(sockets), sockets[c].state = "pending"
        PROVE  Fresh(sockets[c], sent[c], parsed', c)
    <3>1. Fresh(sockets[c], sent[c], parsed, c) /\ c # fd
      BY <1>2, <2>1, <2>2 DEF FollowsNow, Follows
    <3> QED
      BY <1>11, <3>1 DEF Fresh
  <2>3. FramesFrom(parsed', fd) + 1 = FramesFrom(parsed, fd) + 2
    <3>1. FramesFrom(parsed, fd) \in Nat
      BY <1>9, PlacesFinite
    <3> QED
      BY <1>11, <3>1
  <2>4. StreamAt(Unread(buf, offset', sockets[fd].cells), sent[fd],
                 FramesFrom(parsed', fd) + 1, sockets[fd].ended)
    BY <1>7, <1>8, <2>3
  <2> QED
    BY <2>1, <2>2, <2>4 DEF Follows, Reading, Closing
<1>16. FollowsNow'
  BY <1>1, <1>3, <1>15 DEF FollowsNow
<1> QED
  BY <1>14, <1>16 DEF UdsInv

\* The buffer has room unless it holds a whole frame or too great a length.
LEMMA RoomLeft ==
  ASSUME Sound, ~ Oversized, ~ Whole
  PROVE  Rest < kBufferCells
<1>1. PICK o \in Nat, l \in Nat : o = offset /\ l = Len(buf) /\ o <= l /\ buf \in Seq(CellSet)
  BY SoundParts
<1>2. PICK rest \in Nat : rest = l - o /\ rest = Rest
  <2>1. l - o \in Nat /\ Rest = l - o
    BY <1>1 DEF Rest
  <2> QED
    BY <2>1
<1>3. /\ kMaxWirePayload \in Nat /\ kBufferCells \in Nat
      /\ kBufferCells >= 3 + kMaxWirePayload
  BY UdsAssumption DEF Size, PrefixCells
<1>4. CASE rest < 2
  BY <1>2, <1>3, <1>4
<1>5. CASE ~ (rest < 2)
  <2>1. o + 1 \in 1 .. l
    BY <1>1, <1>2, <1>5
  <2>2. buf[o + 1].message \in Messages
    BY <1>1, <2>1, StreamCells
  <2>3. PICK a \in Nat : a = Announced
    BY <1>1, <2>2, WireBounds DEF Announced
  <2>4. a <= kMaxWirePayload
    BY <1>2, <1>3, <1>5, <2>3 DEF Oversized, PrefixCells
  <2>5. rest < 3 + a
    BY <1>2, <1>5, <2>3 DEF Whole, Size, PrefixCells
  <2> QED
    BY <1>2, <1>3, <2>3, <2>4, <2>5
<1> QED
  BY <1>4, <1>5

\* The rest moves to the front of the buffer, and none of it is thrown away.
LEMMA CompactStep ==
  ASSUME UdsInv, main_pc # "terminated", Compact
  PROVE  UdsInv'
<1>1. /\ UNCHANGED <<g_running, listening, main_pc, sockets, sent, conn_fd_, queue,
                     ring_full_drops, parsed>>
      /\ pc = "parse" /\ pc' = "pump" /\ ~ Oversized /\ ~ Whole /\ offset' = 0
  BY DEF Compact, CompactTo, Goto, process, environment, ring
<1>2. Sound /\ FollowsNow
  BY DEF UdsInv
<1>3. buf' = SubSeq(buf, offset + 1, Len(buf))
  <2>1. Rest < kBufferCells /\ kBufferCells \in Nat
    BY <1>1, <1>2, RoomLeft, UdsAssumption
  <2>2. Rest \in Nat
    BY <1>2, SoundParts DEF Rest
  <2>3. Rest # kBufferCells
    BY <2>1, <2>2
  <2> QED
    BY <2>3 DEF Compact, CompactTo
<1>4. PICK o \in Nat, l \in Nat : o = offset /\ l = Len(buf) /\ o <= l /\ buf \in Seq(CellSet)
  BY <1>2, SoundParts
<1>5. PICK b \in Seq(CellSet) : b = buf' /\ Len(b) \in Nat /\ Len(b) <= l
  <2>1. \A i \in o + 1 .. l : buf[i] \in CellSet
    BY <1>4, ElementOfSeq
  <2>2. buf' \in Seq(CellSet) /\ Len(buf') = IF o + 1 <= l THEN l - (o + 1) + 1 ELSE 0
    BY <1>3, <1>4, <2>1, SubSeqProperties
  <2> QED
    BY <1>4, <2>2
<1>6. main_pc # "start" /\ Len(b) <= kBufferCells /\ 0 \in 0 .. Len(b)
  BY <1>1, <1>2, <1>4, <1>5, SoundParts, UdsAssumption DEF Sound
<1>7. Sound'
  <2>1. TypeOK'
    BY <1>1, <1>2, <1>5, <1>6 DEF Sound, TypeOK, Connections, CellSet
  <2> QED
    BY <1>1, <1>2, <1>6, <2>1 DEF Sound
<1>8. \A c : Unread(b, 0, c) = Unread(buf, offset, c)
  <2>1. SubSeq(b, 0 + 1, Len(b)) = b
    BY SubSeqFull
  <2> QED
    BY <1>3, <1>5, <2>1 DEF Unread
<1>9. Follows("pump", conn_fd_, sockets, sent, parsed, b, 0)
  BY <1>1, <1>2, <1>8 DEF FollowsNow, Follows, Reading, Closing
<1>10. FollowsNow'
  BY <1>1, <1>5, <1>9 DEF FollowsNow
<1> QED
  BY <1>7, <1>10 DEF UdsInv

\* A socket that was closed.
LEMMA ClosedSocket ==
  ASSUME NEW s \in SocketSet
  PROVE  LET new == [s EXCEPT !.state = "closed", !.cells = <<>>]
         IN  new \in SocketSet /\ new.state = "closed"
<1>1. <<>> \in Seq(CellSet)
  OBVIOUS
<1> QED
  BY <1>1 DEF SocketSet

\* The connection is closed, and what it still had to say is lost.
LEMMA CloseStep ==
  ASSUME UdsInv, main_pc # "terminated", Close
  PROVE  UdsInv'
<1>1. /\ UNCHANGED <<g_running, listening, main_pc, sent, conn_fd_, buf, offset, queue,
                     ring_full_drops, parsed>>
      /\ pc \in Closing /\ pc' = "closed"
  BY DEF Close, Closing, process, buffer, ring
<1>2. Sound /\ FollowsNow
  BY DEF UdsInv
<1>3. PICK n \in Nat : n = Len(sockets) /\ sockets \in Seq(SocketSet)
  BY <1>2, SoundParts
<1>4. PICK fd \in 1 .. n : fd = conn_fd_
  BY <1>1, <1>2, <1>3 DEF FollowsNow, Follows
<1>5. PICK new \in SocketSet :
        new = [sockets[fd] EXCEPT !.state = "closed", !.cells = <<>>] /\ new.state = "closed"
  <2>1. sockets[fd] \in SocketSet
    BY <1>3, ElementOfSeq
  <2> QED
    BY <2>1, ClosedSocket
<1>6. sockets' = [sockets EXCEPT ![fd] = new]
  <2>1. sockets' = [sockets EXCEPT ![fd].state = "closed", ![fd].cells = <<>>]
    BY <1>4 DEF Close
  <2> QED
    BY <1>3, <1>5, <2>1
<1>7. /\ sockets' \in Seq(SocketSet) /\ Len(sockets') = n /\ sockets'[fd] = new
      /\ \A c \in 1 .. n : c # fd => sockets'[c] = sockets[c]
  BY <1>3, <1>6, ExceptSeq
<1>8. Sound'
  <2>1. TypeOK'
    BY <1>1, <1>2, <1>3, <1>7 DEF Sound, TypeOK, Connections
  <2>2. Environment(sockets', sent)
    BY <1>2, <1>3, <1>7 DEF Sound, Environment
  <2>3. main_pc' # "start"
    BY <1>1, <1>2 DEF Sound, Closing
  <2> QED
    BY <1>1, <1>2, <2>1, <2>2, <2>3 DEF Sound
<1>9. \A c \in 1 .. n : sockets'[c].state # "accepted"
  BY <1>1, <1>2, <1>3, <1>4, <1>5, <1>7 DEF FollowsNow, Follows
<1>10. \A c \in 1 .. n : sockets'[c].state = "pending" => Fresh(sockets'[c], sent[c], parsed, c)
  BY <1>2, <1>3, <1>5, <1>7 DEF FollowsNow, Follows
<1>11. Follows("closed", conn_fd_, sockets', sent, parsed, buf, offset)
  BY <1>7, <1>9, <1>10 DEF Follows, Reading, Closing
<1>12. FollowsNow'
  BY <1>1, <1>11 DEF FollowsNow
<1> QED
  BY <1>8, <1>12 DEF UdsInv

-----------------------------------------------------------------------------
(* Producers.                                                              *)

\* The frames stay the first messages when more are sent.
LEMMA MoreSent ==
  ASSUME NEW ps \in Seq(Seq(CellSet)), NEW s, NEW s2, FramesSound(ps, s),
         Len(s) \in Nat, Len(s2) \in Nat, Len(s) <= Len(s2),
         \A c \in 1 .. Len(s) : /\ Len(s[c]) \in Nat /\ Len(s2[c]) \in Nat
                                /\ Len(s[c]) <= Len(s2[c])
                                /\ \A k \in 1 .. Len(s[c]) : s2[c][k] = s[c][k]
  PROVE  FramesSound(ps, s2)
<1>1. ASSUME NEW c \in 1 .. Len(s2), NEW i \in PlacesOf(ps, c)
      PROVE  /\ Cardinality({j \in PlacesOf(ps, c) : j <= i}) <= Len(s2[c])
             /\ ps[i][1].message = s2[c][Cardinality({j \in PlacesOf(ps, c) : j <= i})]
  <2>1. i \in 1 .. Len(ps) /\ ps[i][1].message.conn = c
    BY DEF PlacesOf
  <2>2. c \in 1 .. Len(s)
    BY <2>1 DEF FramesSound
  <2> DEFINE B == {j \in PlacesOf(ps, c) : j <= i}
  <2>3. i \in B
    <3>1. i <= i
      BY <2>1
    <3> QED
      BY <3>1
  <2>4. IsFiniteSet(B) /\ B # {}
    <3>1. B \subseteq PlacesOf(ps, c) /\ IsFiniteSet(PlacesOf(ps, c))
      BY PlacesFinite
    <3> QED
      BY <2>3, <3>1, FS_Subset
  <2>5. Cardinality(B) <= Len(s[c]) /\ ps[i][1].message = s[c][Cardinality(B)]
    BY <2>2 DEF FramesSound
  <2> HIDE DEF B
  <2>6. Cardinality(B) \in Nat /\ Cardinality(B) # 0
    BY <2>4, FS_CardinalityType, FS_EmptySet
  <2>7. Cardinality(B) \in 1 .. Len(s[c]) /\ Cardinality(B) <= Len(s2[c])
    BY <2>2, <2>5, <2>6
  <2>8. ps[i][1].message = s2[c][Cardinality(B)]
    BY <2>2, <2>5, <2>7
  <2> QED
    BY <2>7, <2>8 DEF B
<1>2. \A i \in 1 .. Len(ps) : WholeFrame(ps[i]) /\ ps[i][1].message.conn \in 1 .. Len(s2)
  <2>1. 1 .. Len(s) \subseteq 1 .. Len(s2)
    OBVIOUS
  <2> QED
    BY <2>1 DEF FramesSound
<1> QED
  BY <1>1, <1>2 DEF FramesSound

\* A new connection, of which nothing was sent or read.
LEMMA ConnectStep == ASSUME UdsInv, Connect PROVE UdsInv'
<1>1. /\ UNCHANGED <<g_running, listening, main_pc, pc, conn_fd_, buf, offset, queue,
                     ring_full_drops, parsed>>
      /\ Len(sockets) < MaxConnections
      /\ sockets' = Append(sockets, NewSocket) /\ sent' = Append(sent, <<>>)
  BY DEF Connect, process, buffer, ring
<1>2. Sound
  BY DEF UdsInv
<1>3. PICK n \in Nat : /\ n = Len(sockets) /\ n = Len(sent)
                       /\ sockets \in Seq(SocketSet) /\ sent \in Seq(Seq(Messages))
  BY <1>2, SoundParts
<1>4. NewSocket \in SocketSet /\ <<>> \in Seq(Messages)
  BY DEF NewSocket, SocketSet
<1>5. /\ sockets' \in Seq(SocketSet) /\ Len(sockets') = n + 1 /\ sockets'[n + 1] = NewSocket
      /\ \A c \in 1 .. n : sockets'[c] = sockets[c]
  <2>1. PICK new \in SocketSet : new = NewSocket
    BY <1>4
  <2>2. PICK so \in Seq(SocketSet) : so = sockets
    BY <1>3
  <2>3. /\ Append(so, new) \in Seq(SocketSet) /\ Len(Append(so, new)) = Len(so) + 1
        /\ Append(so, new)[Len(so) + 1] = new
        /\ \A c \in 1 .. Len(so) : Append(so, new)[c] = so[c]
    BY AppendProperties
  <2> QED
    BY <1>1, <1>3, <2>1, <2>2, <2>3
<1>6. /\ sent' \in Seq(Seq(Messages)) /\ Len(sent') = n + 1 /\ sent'[n + 1] = <<>>
      /\ \A c \in 1 .. n : sent'[c] = sent[c]
  <2>1. LET a == Append(sent, <<>>)
        IN  /\ a \in Seq(Seq(Messages)) /\ Len(a) = Len(sent) + 1
            /\ a[Len(sent) + 1] = <<>>
            /\ \A c \in 1 .. Len(sent) : a[c] = sent[c]
    BY <1>3, <1>4, AppendProperties
  <2> QED
    BY <1>1, <1>3, <2>1
<1>7. \A c \in 1 .. n + 1 : c \in 1 .. n \/ c = n + 1
  OBVIOUS
<1>8. n + 1 \notin 1 .. n /\ 1 .. n \subseteq 1 .. n + 1 /\ n + 1 \in 1 .. n + 1 /\ n <= n + 1
  OBVIOUS
<1>9. parsed \in Seq(Seq(CellSet)) /\ FramesSound(parsed, sent)
  BY <1>2 DEF Sound
<1>10. Sound'
  <2>1. TypeOK'
    BY <1>1, <1>2, <1>3, <1>5, <1>8 DEF Sound, TypeOK, Connections
  <2>2. Environment(sockets', sent')
    <3>1. n + 1 <= MaxConnections
      BY <1>1, <1>3, UdsAssumption
    <3>2. \A c \in 1 .. n + 1 : \A i \in 1 .. Len(sent'[c]) : sent'[c][i].conn = c
      <4>1. \A c \in 1 .. n : \A i \in 1 .. Len(sent[c]) : sent[c][i].conn = c
        BY <1>2, <1>3 DEF Sound, Environment
      <4>2. 1 .. Len(sent'[n + 1]) = {}
        BY <1>6
      <4> QED
        BY <1>6, <1>7, <4>1, <4>2
    <3> QED
      BY <1>5, <1>6, <3>1, <3>2 DEF Environment
  <2>3. FramesSound(parsed, sent')
    <3>1. ASSUME NEW c \in 1 .. n
          PROVE  /\ Len(sent[c]) \in Nat /\ Len(sent'[c]) \in Nat
                 /\ Len(sent[c]) <= Len(sent'[c])
                 /\ \A k \in 1 .. Len(sent[c]) : sent'[c][k] = sent[c][k]
      <4>1. sent[c] \in Seq(Messages) /\ sent'[c] = sent[c]
        BY <1>3, <1>6, ElementOfSeq
      <4> QED
        BY <4>1
    <3>2. Len(sent) \in Nat /\ Len(sent') \in Nat /\ Len(sent) <= Len(sent')
      BY <1>3, <1>6
    <3> QED
      BY <1>3, <1>9, <3>1, <3>2, MoreSent
  <2> QED
    BY <1>1, <1>2, <2>1, <2>2, <2>3 DEF Sound
<1>11. ASSUME FollowsNow PROVE FollowsNow'
  <2>1. Fresh(NewSocket, <<>>, parsed, n + 1)
    <3>1. StreamAt(<<>>, <<>>, 1, FALSE)
      BY NoStream
    <3>2. PlacesOf(parsed, n + 1) = {}
      <4>1. \A i \in 1 .. Len(parsed) : parsed[i][1].message.conn \in 1 .. n
        BY <1>3, <1>9 DEF FramesSound
      <4> QED
        BY <1>8, <4>1 DEF PlacesOf
    <3>3. FramesFrom(parsed, n + 1) = 0
      BY <3>2, FS_EmptySet DEF FramesFrom
    <3> QED
      BY <3>1, <3>3 DEF Fresh, NewSocket
  <2>2. NewSocket.state = "pending"
    BY DEF NewSocket
  <2>3. Follows(pc, conn_fd_, sockets', sent', parsed, buf, offset)
    <3>1. ASSUME pc \in Reading \cup Closing
          PROVE  conn_fd_ \in 1 .. n /\ sockets'[conn_fd_] = sockets[conn_fd_]
                 /\ sent'[conn_fd_] = sent[conn_fd_] /\ sockets[conn_fd_].state = "accepted"
      BY <1>3, <1>5, <1>6, <1>11, <3>1 DEF FollowsNow, Follows
    <3>2. ASSUME NEW c \in 1 .. n + 1, sockets'[c].state = "accepted"
          PROVE  c \in 1 .. n /\ sockets[c].state = "accepted"
      BY <1>5, <1>7, <2>2, <3>2
    <3>3. ASSUME NEW c \in 1 .. n + 1, sockets'[c].state = "pending" \/
                   (sockets'[c].state = "accepted" /\ pc = "accepted")
          PROVE  Fresh(sockets'[c], sent'[c], parsed, c)
      <4>1. CASE c = n + 1
        BY <1>5, <1>6, <2>1, <4>1
      <4>2. CASE c \in 1 .. n
        BY <1>3, <1>5, <1>6, <1>11, <3>3, <4>2 DEF FollowsNow, Follows
      <4> QED
        BY <1>7, <4>1, <4>2
    <3>4. pc = "accepted" => \E c \in 1 .. n + 1 : sockets'[c].state = "accepted"
      BY <1>3, <1>5, <1>8, <1>11 DEF FollowsNow, Follows
    <3>5. pc \in Reading =>
            StreamAt(Unread(buf, offset, sockets'[conn_fd_].cells), sent'[conn_fd_],
                     FramesFrom(parsed, conn_fd_) + 1, sockets'[conn_fd_].ended)
      BY <1>11, <3>1 DEF FollowsNow, Follows
    <3>6. pc \in {"pump", "read"} => offset = 0
      BY <1>11 DEF FollowsNow, Follows
    <3>7. /\ \A c, d \in 1 .. n + 1 :
               sockets'[c].state = "accepted" /\ sockets'[d].state = "accepted" => c = d
          /\ \A c \in 1 .. n + 1 :
               sockets'[c].state = "accepted" => pc \in Reading \cup Closing \cup {"accepted"}
      BY <1>3, <1>11, <3>2 DEF FollowsNow, Follows
    <3>8. pc \in Reading \cup Closing =>
            conn_fd_ \in 1 .. n + 1 /\ sockets'[conn_fd_].state = "accepted"
      BY <1>8, <3>1
    <3> QED
      BY <1>5, <3>3, <3>4, <3>5, <3>6, <3>7, <3>8 DEF Follows
  <2> QED
    BY <1>1, <2>3 DEF FollowsNow
<1> QED
  BY <1>1, <1>10, <1>11 DEF UdsInv

\* What has not been read of a connection grows with what its kernel buffer does.
LEMMA UnreadGrows ==
  ASSUME NEW b \in Seq(CellSet), NEW o \in Nat, o <= Len(b), NEW c \in Seq(CellSet),
         NEW d \in Seq(CellSet)
  PROVE  Unread(b, o, c \o d) = Unread(b, o, c) \o d
<1>1. PICK l \in Nat : l = Len(b)
  OBVIOUS
<1>2. PICK a \in Seq(CellSet) : a = SubSeq(b, o + 1, l)
  <2>1. \A i \in o + 1 .. l : b[i] \in CellSet
    BY <1>1, ElementOfSeq
  <2>2. SubSeq(b, o + 1, l) \in Seq(CellSet)
    BY <1>1, <2>1, SubSeqProperties
  <2> QED
    BY <2>2
<1>3. (a \o c) \o d = a \o (c \o d)
  BY ConcatAssociative
<1> QED
  BY <1>1, <1>2, <1>3 DEF Unread

\* One socket and the messages of its connection change, neither moves to another
\* place; what is unread of it is still a stream.
LEMMA SocketChanges ==
  ASSUME NEW p, NEW fd, NEW ps, NEW b, NEW o, NEW n \in Nat, NEW so, NEW s, NEW so2, NEW s2,
         Len(so) = n, Len(so2) = n, Follows(p, fd, so, s, ps, b, o), NEW c \in 1 .. n,
         \A d \in 1 .. n : d # c => so2[d] = so[d] /\ s2[d] = s[d],
         so2[c].state = so[c].state,
         so[c].state # "closed" =>
           \A k : /\ StreamAt(so[c].cells, s[c], 1, so[c].ended)
                       => StreamAt(so2[c].cells, s2[c], 1, so2[c].ended)
                  /\ k \in Nat /\ StreamAt(Unread(b, o, so[c].cells), s[c], k, so[c].ended)
                       => StreamAt(Unread(b, o, so2[c].cells), s2[c], k, so2[c].ended),
         FramesFrom(ps, c) + 1 \in Nat
  PROVE  Follows(p, fd, so2, s2, ps, b, o)
<1>1. \A d \in 1 .. n : so2[d].state = so[d].state
  OBVIOUS
<1>2. ASSUME NEW d \in 1 .. n,
             so2[d].state = "pending" \/ (so2[d].state = "accepted" /\ p = "accepted")
      PROVE  Fresh(so2[d], s2[d], ps, d)
  <2>1. Fresh(so[d], s[d], ps, d) /\ so[d].state # "closed"
    BY <1>1, <1>2 DEF Follows
  <2>2. CASE d = c
    BY <2>1, <2>2 DEF Fresh
  <2>3. CASE d # c
    BY <2>1, <2>3
  <2> QED
    BY <2>2, <2>3
<1>3. ASSUME p \in Reading
      PROVE  StreamAt(Unread(b, o, so2[fd].cells), s2[fd], FramesFrom(ps, fd) + 1, so2[fd].ended)
  <2>1. /\ fd \in 1 .. n /\ so[fd].state = "accepted"
        /\ StreamAt(Unread(b, o, so[fd].cells), s[fd], FramesFrom(ps, fd) + 1, so[fd].ended)
    BY <1>3 DEF Follows
  <2>2. CASE fd = c
    BY <2>1, <2>2
  <2>3. CASE fd # c
    BY <2>1, <2>3
  <2> QED
    BY <2>2, <2>3
<1> QED
  BY <1>1, <1>2, <1>3 DEF Follows

\* A socket that a producer left.
LEMMA EndedSocket ==
  ASSUME NEW s \in SocketSet
  PROVE  LET new == [s EXCEPT !.ended = TRUE]
         IN  /\ new \in SocketSet /\ new.state = s.state /\ new.cells = s.cells
             /\ new.ended = TRUE
  BY DEF SocketSet

\* A socket changes in its place, and the other variables that Sound is about do not.
LEMMA SoundSockets ==
  ASSUME Sound, NEW c \in 1 .. Len(sockets), NEW new \in SocketSet,
         sockets' = [sockets EXCEPT ![c] = new], sent' \in Seq(Seq(Messages)),
         Len(sent') = Len(sent), FramesSound(parsed, sent'),
         \A d \in 1 .. Len(sent') : \A i \in 1 .. Len(sent'[d]) : sent'[d][i].conn = d,
         UNCHANGED <<process, pc, conn_fd_, buffer, ring>>
  PROVE  /\ Sound' /\ Len(sockets') = Len(sockets) /\ sockets'[c] = new
         /\ \A d \in 1 .. Len(sockets) : d # c => sockets'[d] = sockets[d]
<1>1. PICK n \in Nat : n = Len(sockets) /\ sockets \in Seq(SocketSet)
  BY SoundParts
<1>2. /\ sockets' \in Seq(SocketSet) /\ Len(sockets') = n /\ sockets'[c] = new
      /\ \A d \in 1 .. n : d # c => sockets'[d] = sockets[d]
  BY <1>1, ExceptSeq
<1>3. UNCHANGED <<g_running, listening, main_pc, pc, conn_fd_, buf, offset, queue,
                  ring_full_drops, parsed>>
  BY DEF process, buffer, ring
<1>4. TypeOK'
  BY <1>1, <1>2, <1>3 DEF Sound, TypeOK, Connections
<1>5. Environment(sockets', sent')
  BY <1>1, <1>2 DEF Sound, Environment
<1>6. Sound'
  BY <1>3, <1>4, <1>5 DEF Sound
<1> QED
  BY <1>1, <1>2, <1>6

\* A producer ends.
LEMMA DisconnectStep ==
  ASSUME UdsInv, NEW c \in Connections, Disconnect(c)
  PROVE  UdsInv'
<1>1. /\ UNCHANGED <<process, sent, pc, conn_fd_, buffer, ring>>
      /\ sockets' = [sockets EXCEPT ![c].ended = TRUE]
  BY DEF Disconnect
<1>2. Sound
  BY DEF UdsInv
<1>3. PICK n \in Nat : n = Len(sockets) /\ sockets \in Seq(SocketSet) /\ Len(sent) = n
  BY <1>2, SoundParts
<1>4. c \in 1 .. n /\ sockets[c] \in SocketSet
  BY <1>3, ElementOfSeq DEF Connections
<1>5. PICK new \in SocketSet : /\ new = [sockets[c] EXCEPT !.ended = TRUE]
                               /\ new.state = sockets[c].state /\ new.cells = sockets[c].cells
                               /\ new.ended = TRUE
  BY <1>4, EndedSocket
<1>6. sockets' = [sockets EXCEPT ![c] = new]
  BY <1>1, <1>5
<1>7. /\ sent' = sent /\ sent' \in Seq(Seq(Messages)) /\ FramesSound(parsed, sent')
      /\ \A d \in 1 .. Len(sent') : \A i \in 1 .. Len(sent'[d]) : sent'[d][i].conn = d
  BY <1>1, <1>2 DEF Sound, Environment
<1>8. /\ Sound' /\ Len(sockets') = n /\ sockets'[c] = new
      /\ \A d \in 1 .. n : d # c => sockets'[d] = sockets[d]
  <2>1. c \in 1 .. Len(sockets) /\ Len(sent') = Len(sent)
    BY <1>3, <1>4, <1>7
  <2>2. UNCHANGED <<process, pc, conn_fd_, buffer, ring>>
    BY <1>1
  <2>3. /\ Sound' /\ Len(sockets') = Len(sockets) /\ sockets'[c] = new
        /\ \A d \in 1 .. Len(sockets) : d # c => sockets'[d] = sockets[d]
    BY <1>2, <1>6, <1>7, <2>1, <2>2, SoundSockets
  <2> QED
    BY <1>3, <2>3
<1>9. ASSUME FollowsNow PROVE FollowsNow'
  <2>1. FramesFrom(parsed, c) + 1 \in Nat
    BY <1>2, PlacesFinite DEF Sound
  <2>2. \A t, k : StreamAt(t, sent[c], k, sockets[c].ended) => StreamAt(t, sent[c], k, TRUE)
    BY StreamStops
  <2>3. /\ \A k : /\ StreamAt(sockets[c].cells, sent[c], 1, sockets[c].ended)
                       => StreamAt(sockets'[c].cells, sent'[c], 1, sockets'[c].ended)
                  /\ k \in Nat /\ StreamAt(Unread(buf, offset, sockets[c].cells), sent[c], k,
                                           sockets[c].ended)
                       => StreamAt(Unread(buf, offset, sockets'[c].cells), sent'[c], k,
                                   sockets'[c].ended)
        /\ sockets'[c].state = sockets[c].state
    BY <1>5, <1>7, <1>8, <2>2
  <2>4. /\ Follows(pc, conn_fd_, sockets, sent, parsed, buf, offset)
        /\ \A d \in 1 .. n : d # c => sockets'[d] = sockets[d] /\ sent'[d] = sent[d]
    BY <1>7, <1>8, <1>9 DEF FollowsNow
  <2>5. Follows(pc, conn_fd_, sockets', sent', parsed, buf, offset)
    BY <1>3, <1>4, <1>8, <2>1, <2>3, <2>4, SocketChanges
  <2>6. UNCHANGED <<pc, conn_fd_, parsed, buf, offset>>
    BY <1>1 DEF buffer, ring
  <2> QED
    BY <2>5, <2>6 DEF FollowsNow
<1>10. main_pc' = main_pc
  BY <1>1 DEF process
<1> QED
  BY <1>8, <1>9, <1>10 DEF UdsInv

\* A producer writes a message, or the beginning of one.
LEMMA WriteStep ==
  ASSUME UdsInv, NEW c \in Connections, NEW len \in Lengths, NEW cells \in 1 .. Size(len),
         Write(c, len, cells)
  PROVE  UdsInv'
<1> DEFINE size == IF len > kMaxWirePayload THEN Size(0) ELSE Size(len)
<1>1. Sound
  BY DEF UdsInv
<1>2. PICK n \in Nat : n = Len(sockets) /\ sockets \in Seq(SocketSet) /\ Len(sent) = n
                       /\ sent \in Seq(Seq(Messages)) /\ n <= MaxConnections
  BY <1>1, SoundParts DEF Sound, Environment
<1>3. c \in 1 .. n /\ sockets[c] \in SocketSet /\ sent[c] \in Seq(Messages)
  BY <1>2, ElementOfSeq DEF Connections
<1>4. PICK m \in Messages :
        m = [conn |-> c, number |-> Len(sent[c]) + 1, len |-> len, whole |-> cells = size]
  <2>1. c \in 1 .. MaxConnections
    BY <1>2, <1>3, UdsAssumption
  <2>2. Len(sent[c]) + 1 \in Nat \ {0}
    <3>1. Len(sent[c]) \in Nat
      BY <1>3
    <3> QED
      BY <3>1
  <2>3. PICK whole \in BOOLEAN : whole = (cells = size)
    OBVIOUS
  <2>4. [conn |-> c, number |-> Len(sent[c]) + 1, len |-> len, whole |-> whole] \in Messages
    BY <2>1, <2>2 DEF Messages
  <2> QED
    BY <2>3, <2>4, Zenon
<1>5. m.conn = c /\ m.number = Len(sent[c]) + 1 /\ WireCells(m) = size
  BY <1>4 DEF WireCells
<1> DEFINE new == [k \in 1 .. cells |-> [message |-> m, k |-> k]]
<1>6. /\ UNCHANGED <<process, pc, conn_fd_, buffer, ring>>
      /\ ~ sockets[c].ended /\ cells <= size
      /\ sockets' = [sockets EXCEPT ![c].cells = @ \o new, ![c].ended = cells < size]
      /\ sent' = [sent EXCEPT ![c] = Append(@, m)]
  BY <1>4 DEF Write
<1>7. cells \in 1 .. WireCells(m) /\ sockets[c].ended = FALSE
  <2>1. cells \in Nat /\ cells >= 1 /\ size \in Nat
    <3>1. len \in Nat /\ kMaxWirePayload \in Nat
      BY UdsAssumption
    <3>2. Size(len) \in Nat /\ Size(0) \in Nat
      BY <3>1 DEF Size, PrefixCells
    <3> QED
      BY <3>2
  <2>2. sockets[c].ended \in BOOLEAN
    BY <1>3 DEF SocketSet
  <2> QED
    BY <1>5, <1>6, <2>1, <2>2
<1>8. new \in Seq(CellSet)
  <2>1. \A k \in 1 .. cells : [message |-> m, k |-> k] \in CellSet
    <3>1. 1 .. cells \subseteq 1 .. Size(kMaxWirePayload)
      <4>1. WireCells(m) \in Nat /\ WireCells(m) <= Size(kMaxWirePayload)
        BY WireBounds
      <4>2. Size(kMaxWirePayload) \in Nat
        BY UdsAssumption DEF Size, PrefixCells
      <4> QED
        BY <1>7, <4>1, <4>2
    <3> QED
      BY <3>1 DEF CellSet
  <2>2. cells \in Nat
    BY <1>7, WireBounds
  <2> QED
    BY <2>1, <2>2
<1> HIDE DEF new, size
\* The stream of the connection, or what is unread of it, goes on.
<1>9. ASSUME NEW t, NEW k \in Nat, StreamAt(t, sent[c], k, sockets[c].ended)
      PROVE  StreamAt(t \o new, Append(sent[c], m), k, cells < size)
  <2>1. StreamAt(t, sent[c], k, FALSE)
    BY <1>7, <1>9
  <2>2. StreamAt(t \o new, Append(sent[c], m), k, cells < WireCells(m))
    BY <1>3, <1>5, <1>7, <2>1, StreamGrows DEF new
  <2> QED
    BY <1>5, <2>2
<1>10. PICK cc \in Seq(CellSet) : cc = sockets[c].cells
  BY <1>3 DEF SocketSet
<1>11. PICK so \in SocketSet : /\ so = [sockets[c] EXCEPT !.cells = cc \o new,
                                                          !.ended = cells < size]
                               /\ so.state = sockets[c].state /\ so.cells = cc \o new
                               /\ so.ended = (cells < size)
  <2>1. PICK all \in Seq(CellSet) : all = cc \o new
    BY <1>8, <1>10, ConcatProperties
  <2>2. PICK e \in BOOLEAN : e = (cells < size)
    <3>1. cells \in Nat /\ size \in Nat
      BY <1>5, <1>7, WireBounds
    <3>2. (cells < size) \in BOOLEAN
      BY <3>1
    <3> QED
      BY <3>2
  <2>3. PICK x \in SocketSet : x = sockets[c]
    BY <1>3
  <2>4. LET y == [x EXCEPT !.cells = all, !.ended = e]
        IN  y \in SocketSet /\ y.state = x.state /\ y.cells = all /\ y.ended = e
    BY DEF SocketSet
  <2> QED
    BY <2>1, <2>2, <2>3, <2>4, Zenon
<1>12. sockets' = [sockets EXCEPT ![c] = so]
  BY <1>2, <1>3, <1>6, <1>10, <1>11
<1>13. PICK sc \in Seq(Messages) :
         /\ sc = Append(sent[c], m) /\ Len(sc) = Len(sent[c]) + 1 /\ sc[Len(sent[c]) + 1] = m
         /\ \A i \in 1 .. Len(sent[c]) : sc[i] = sent[c][i]
  <2>1. PICK s \in Seq(Messages) : s = sent[c]
    BY <1>3
  <2>2. /\ Append(s, m) \in Seq(Messages) /\ Len(Append(s, m)) = Len(s) + 1
        /\ Append(s, m)[Len(s) + 1] = m
        /\ \A i \in 1 .. Len(s) : Append(s, m)[i] = s[i]
    BY AppendProperties
  <2> QED
    BY <2>1, <2>2
<1>14. /\ sent' \in Seq(Seq(Messages)) /\ Len(sent') = n /\ sent'[c] = sc
       /\ \A d \in 1 .. n : d # c => sent'[d] = sent[d]
  <2>1. sent' = [sent EXCEPT ![c] = sc]
    BY <1>6, <1>13
  <2> QED
    BY <1>2, <1>3, <2>1, ExceptSeq
<1>15. Len(sent[c]) \in Nat /\ \A d \in 1 .. n : Len(sent[d]) \in Nat
  BY <1>2, <1>3, ElementOfSeq
<1>16. \A d \in 1 .. Len(sent') : \A i \in 1 .. Len(sent'[d]) : sent'[d][i].conn = d
  <2>1. \A d \in 1 .. n : \A i \in 1 .. Len(sent[d]) : sent[d][i].conn = d
    BY <1>1, <1>2 DEF Sound, Environment
  <2>2. ASSUME NEW i \in 1 .. Len(sc) PROVE sc[i].conn = c
    <3>1. i \in 1 .. Len(sent[c]) \/ i = Len(sent[c]) + 1
      BY <1>13, <1>15, SMTT(30)
    <3> QED
      BY <1>3, <1>5, <1>13, <2>1, <3>1
  <2> QED
    BY <1>14, <2>1, <2>2
<1>17. FramesSound(parsed, sent')
  <2>1. ASSUME NEW d \in 1 .. n
        PROVE  /\ Len(sent[d]) \in Nat /\ Len(sent'[d]) \in Nat
               /\ Len(sent[d]) <= Len(sent'[d])
               /\ \A k \in 1 .. Len(sent[d]) : sent'[d][k] = sent[d][k]
    <3>1. CASE d = c
      <4>1. sent'[d] = sc /\ Len(sc) = Len(sent[d]) + 1 /\ Len(sent[d]) \in Nat
        BY <1>13, <1>14, <1>15, <3>1
      <4>2. \A k \in 1 .. Len(sent[d]) : sc[k] = sent[d][k]
        BY <1>13, <3>1
      <4> QED
        BY <4>1, <4>2
    <3>2. CASE d # c
      <4>1. sent'[d] = sent[d] /\ Len(sent[d]) \in Nat
        BY <1>14, <1>15, <3>2
      <4> QED
        BY <4>1
    <3> QED
      BY <3>1, <3>2
  <2>2. Len(sent) = n /\ Len(sent') = n /\ n <= n
    BY <1>2, <1>14
  <2>3. parsed \in Seq(Seq(CellSet)) /\ FramesSound(parsed, sent)
    BY <1>1 DEF Sound
  <2> QED
    BY <2>1, <2>2, <2>3, MoreSent
<1>18. /\ Sound' /\ Len(sockets') = n /\ sockets'[c] = so
       /\ \A d \in 1 .. n : d # c => sockets'[d] = sockets[d]
  <2>1. c \in 1 .. Len(sockets) /\ Len(sent') = Len(sent)
    BY <1>2, <1>3, <1>14
  <2>2. UNCHANGED <<process, pc, conn_fd_, buffer, ring>>
    BY <1>6
  <2>3. /\ Sound' /\ Len(sockets') = Len(sockets) /\ sockets'[c] = so
        /\ \A d \in 1 .. Len(sockets) : d # c => sockets'[d] = sockets[d]
    BY <1>1, <1>12, <1>14, <1>16, <1>17, <2>1, <2>2, SoundSockets
  <2> QED
    BY <1>2, <2>3
<1>19. ASSUME FollowsNow PROVE FollowsNow'
  <2>1. FramesFrom(parsed, c) + 1 \in Nat
    BY <1>1, PlacesFinite DEF Sound
  <2>2. Unread(buf, offset, cc \o new) = Unread(buf, offset, cc) \o new
    BY <1>1, <1>8, SoundParts, UnreadGrows
  <2>3. \A k : /\ StreamAt(sockets[c].cells, sent[c], 1, sockets[c].ended)
                    => StreamAt(sockets'[c].cells, sent'[c], 1, sockets'[c].ended)
               /\ k \in Nat /\ StreamAt(Unread(buf, offset, sockets[c].cells), sent[c], k,
                                        sockets[c].ended)
                    => StreamAt(Unread(buf, offset, sockets'[c].cells), sent'[c], k,
                                sockets'[c].ended)
    <3>1. /\ sockets'[c].cells = cc \o new /\ sent'[c] = Append(sent[c], m)
          /\ sockets'[c].ended = (cells < size) /\ sockets[c].cells = cc
      BY <1>10, <1>11, <1>13, <1>14, <1>18
    <3> QED
      BY <1>9, <2>2, <3>1
  <2>4. /\ Follows(pc, conn_fd_, sockets, sent, parsed, buf, offset)
        /\ sockets'[c].state = sockets[c].state
        /\ \A d \in 1 .. n : d # c => sockets'[d] = sockets[d] /\ sent'[d] = sent[d]
    BY <1>11, <1>14, <1>18, <1>19 DEF FollowsNow
  <2>5. Follows(pc, conn_fd_, sockets', sent', parsed, buf, offset)
    <3>1. PICK so2 : so2 = sockets'
      OBVIOUS
    <3>2. PICK s2 : s2 = sent'
      OBVIOUS
    <3>3. /\ Len(sockets) = n /\ Len(so2) = n /\ c \in 1 .. n
          /\ \A d \in 1 .. n : d # c => so2[d] = sockets[d] /\ s2[d] = sent[d]
          /\ so2[c].state = sockets[c].state
      BY <1>2, <1>3, <1>18, <2>4, <3>1, <3>2
    <3>4. \A k : /\ StreamAt(sockets[c].cells, sent[c], 1, sockets[c].ended)
                      => StreamAt(so2[c].cells, s2[c], 1, so2[c].ended)
                 /\ k \in Nat /\ StreamAt(Unread(buf, offset, sockets[c].cells), sent[c], k,
                                          sockets[c].ended)
                      => StreamAt(Unread(buf, offset, so2[c].cells), s2[c], k, so2[c].ended)
      BY <2>3, <3>1, <3>2, Zenon
    <3>5. Follows(pc, conn_fd_, so2, s2, parsed, buf, offset)
      BY <2>1, <2>4, <3>3, <3>4, SocketChanges
    <3> QED
      BY <3>1, <3>2, <3>5, Zenon
  <2>6. UNCHANGED <<pc, conn_fd_, parsed, buf, offset>>
    BY <1>6 DEF buffer, ring
  <2> QED
    BY <2>5, <2>6 DEF FollowsNow
<1>20. main_pc' = main_pc
  BY <1>6 DEF process
<1> QED
  BY <1>18, <1>19, <1>20 DEF UdsInv

-----------------------------------------------------------------------------
(* main and the hot loop.                                                  *)

\* Steps of main that touch no connection.
LEMMA MainStep ==
  ASSUME UdsInv, Start \/ StartFails \/ Setup \/ Pop \/ Ends \/ StopListening \/ JoinThread
  PROVE  UdsInv'
<1>1. UNCHANGED <<sockets, sent, conn_fd_, buf, offset, ring_full_drops, parsed>>
  BY DEF Start, StartFails, Setup, Pop, Ends, StopListening, JoinThread, environment, buffer,
         ring
<1>2. /\ main_pc # "terminated" /\ main_pc' # "start"
      /\ pc' = pc \/ (main_pc = "start" /\ pc' = "run")
  BY DEF Start, StartFails, Setup, Pop, Ends, StopListening, JoinThread, MainGoes, process
<1>3. g_running' \in {g_running, FALSE} /\ listening' \in {listening, TRUE, FALSE}
  BY DEF Start, StartFails, Setup, Pop, Ends, StopListening, JoinThread, process
<1>4. Sound /\ FollowsNow
  BY <1>2 DEF UdsInv
<1>5. queue' \in Seq(Seq(CellSet)) /\ Len(queue') <= Capacity
  <2>1. queue \in Seq(Seq(CellSet)) /\ Len(queue) <= Capacity /\ Capacity \in Nat
    BY <1>4, UdsAssumption DEF Sound, TypeOK
  <2>2. CASE queue' = queue
    BY <2>1, <2>2
  <2>3. CASE queue # <<>> /\ queue' = Tail(queue)
    <3>1. Tail(queue) \in Seq(Seq(CellSet)) /\ Len(Tail(queue)) = Len(queue) - 1
      BY <2>1, <2>3, HeadTailProperties
    <3>2. Len(queue) \in Nat
      BY <2>1
    <3> QED
      BY <2>1, <2>3, <3>1, <3>2
  <2> QED
    BY <2>2, <2>3 DEF Start, StartFails, Setup, Pop, Ends, StopListening, JoinThread, ring
<1>6. Sound'
  <2>1. TypeOK'
    BY <1>1, <1>3, <1>4, <1>5 DEF Sound, TypeOK, Connections
  <2> QED
    BY <1>1, <1>2, <1>4, <1>5, <2>1 DEF Sound
<1>7. Follows(pc', conn_fd_, sockets, sent, parsed, buf, offset)
  <2>1. CASE pc' = pc
    BY <1>4, <2>1 DEF FollowsNow
  <2>2. CASE main_pc = "start" /\ pc' = "run"
    <3>1. Follows("none", conn_fd_, sockets, sent, parsed, buf, offset)
      BY <1>4, <2>2 DEF Sound, FollowsNow
    <3>2. Follows("run", conn_fd_, sockets, sent, parsed, buf, offset)
      BY <3>1 DEF Follows, Reading, Closing
    <3> QED
      BY <2>2, <3>2
  <2> QED
    BY <1>2, <2>1, <2>2
<1>8. FollowsNow'
  BY <1>1, <1>7 DEF FollowsNow
<1> QED
  BY <1>6, <1>8 DEF UdsInv

\* The signal handler.
LEMMA SignalStep == ASSUME UdsInv, Signal PROVE UdsInv'
<1>1. /\ UNCHANGED <<listening, main_pc, sockets, sent, pc, conn_fd_, buf, offset, queue,
                     ring_full_drops, parsed>>
      /\ g_running' = FALSE
  BY DEF Signal, environment, buffer, ring
<1>2. Sound => Sound'
  BY <1>1 DEF Sound, TypeOK, Connections
<1>3. FollowsNow' <=> FollowsNow
  BY <1>1 DEF FollowsNow
<1> QED
  BY <1>1, <1>2, <1>3 DEF UdsInv

\* Sound when every socket is another, and main and the listening socket change.
LEMMA SoundOtherwise ==
  ASSUME Sound, main_pc' # "start", listening' \in BOOLEAN,
         UNCHANGED <<g_running, sent, pc, conn_fd_, buffer, ring>>,
         DOMAIN sockets' = 1 .. Len(sockets),
         sockets' = [c \in 1 .. Len(sockets) |-> sockets'[c]],
         \A c \in 1 .. Len(sockets) : sockets'[c] \in SocketSet
  PROVE  Sound' /\ Len(sockets') = Len(sockets)
<1>1. PICK n \in Nat : n = Len(sockets)
  BY SoundParts
<1>2. sockets' \in Seq(SocketSet) /\ Len(sockets') = n
  BY <1>1
<1>3. UNCHANGED <<buf, offset, queue, ring_full_drops, parsed>>
  BY DEF buffer, ring
<1>4. TypeOK'
  BY <1>1, <1>2, <1>3 DEF Sound, TypeOK, Connections
<1>5. Environment(sockets', sent')
  BY <1>1, <1>2 DEF Sound, Environment
<1> QED
  BY <1>1, <1>2, <1>3, <1>4, <1>5 DEF Sound

\* A socket that is shut down.
LEMMA ShutSocket ==
  ASSUME NEW s \in SocketSet
  PROVE  LET new == [s EXCEPT !.shut = TRUE]
         IN  /\ new \in SocketSet /\ new.state = s.state /\ new.cells = s.cells
             /\ new.ended = s.ended
  BY DEF SocketSet

\* stop() shuts the connection down: what was written to it is still read.
LEMMA StopConnectionStep == ASSUME UdsInv, StopConnection PROVE UdsInv'
<1>1. /\ UNCHANGED <<g_running, listening, sent, pc, conn_fd_, buffer, ring>>
      /\ main_pc = "stop_conn" /\ main_pc' = "join"
  BY DEF StopConnection, MainGoes
<1>2. Sound /\ FollowsNow
  BY <1>1 DEF UdsInv
<1>3. PICK n \in Nat : n = Len(sockets)
  BY <1>2, SoundParts
<1>4. \A c \in 1 .. n : sockets[c] \in SocketSet
  BY <1>2, <1>3, SoundParts
<1>5. sockets' = [c \in 1 .. n |->
                    IF c = conn_fd_ /\ sockets[c].state = "accepted"
                      THEN [sockets[c] EXCEPT !.shut = TRUE] ELSE sockets[c]]
  BY <1>3 DEF StopConnection, Connections
<1>6. ASSUME NEW c \in 1 .. n
      PROVE  /\ sockets'[c] \in SocketSet /\ sockets'[c].state = sockets[c].state
             /\ sockets'[c].cells = sockets[c].cells /\ sockets'[c].ended = sockets[c].ended
  <2>1. CASE c = conn_fd_ /\ sockets[c].state = "accepted"
    <3>1. sockets'[c] = [sockets[c] EXCEPT !.shut = TRUE]
      BY <1>5, <2>1
    <3> QED
      BY <1>4, <3>1, ShutSocket
  <2>2. CASE ~ (c = conn_fd_ /\ sockets[c].state = "accepted")
    <3>1. sockets'[c] = sockets[c]
      BY <1>5, <2>2
    <3> QED
      BY <1>4, <3>1
  <2> QED
    BY <2>1, <2>2
<1>7. Sound' /\ Len(sockets') = n
  <2>1. DOMAIN sockets' = 1 .. n /\ sockets' = [c \in 1 .. n |-> sockets'[c]]
    BY <1>5
  <2>2. listening' \in BOOLEAN /\ main_pc' # "start"
    BY <1>1, <1>2 DEF Sound, TypeOK
  <2> QED
    BY <1>1, <1>2, <1>3, <1>6, <2>1, <2>2, SoundOtherwise
<1>8. Follows(pc, conn_fd_, sockets', sent, parsed, buf, offset)
  BY <1>2, <1>3, <1>6, <1>7 DEF FollowsNow, Follows, Fresh, Reading, Closing
<1>9. FollowsNow'
  BY <1>1, <1>8 DEF FollowsNow, buffer, ring
<1> QED
  BY <1>7, <1>9 DEF UdsInv

\* The session table cannot be made: every socket is closed, and the process ends or
\* has no thread that would read.
LEMMA SetupThrowsStep == ASSUME UdsInv, SetupThrows PROVE UdsInv'
<1>1. /\ UNCHANGED <<g_running, sent, pc, conn_fd_, buffer, ring>>
      /\ main_pc = "setup" /\ listening' = FALSE
      /\ main_pc' = IF pc = "none" THEN "fatal" ELSE "terminated"
  BY DEF SetupThrows, MainGoes
<1>2. Sound /\ FollowsNow
  BY <1>1 DEF UdsInv
<1>3. PICK n \in Nat : n = Len(sockets)
  BY <1>2, SoundParts
<1>4. \A c \in 1 .. n : sockets[c] \in SocketSet
  BY <1>2, <1>3, SoundParts
<1>5. sockets' = [c \in 1 .. n |-> [sockets[c] EXCEPT !.state = "closed", !.cells = <<>>]]
  BY <1>3 DEF SetupThrows, Connections
<1>6. ASSUME NEW c \in 1 .. n
      PROVE  sockets'[c] \in SocketSet /\ sockets'[c].state = "closed"
  <2>1. sockets'[c] = [sockets[c] EXCEPT !.state = "closed", !.cells = <<>>]
    BY <1>5
  <2> QED
    BY <1>4, <2>1, ClosedSocket
<1>7. Sound' /\ Len(sockets') = n
  <2>1. DOMAIN sockets' = 1 .. n /\ sockets' = [c \in 1 .. n |-> sockets'[c]]
    BY <1>5
  <2>2. listening' \in BOOLEAN /\ main_pc' # "start"
    BY <1>1
  <2> QED
    BY <1>1, <1>2, <1>3, <1>6, <2>1, <2>2, SoundOtherwise
<1>8. ASSUME main_pc' # "terminated" PROVE FollowsNow'
  <2>1. pc = "none"
    BY <1>1, <1>8
  <2>2. Follows("none", conn_fd_, sockets', sent, parsed, buf, offset)
    BY <1>6, <1>7 DEF Follows, Reading, Closing
  <2> QED
    BY <1>1, <2>1, <2>2 DEF FollowsNow, buffer, ring
<1> QED
  BY <1>7, <1>8 DEF UdsInv

-----------------------------------------------------------------------------
LEMMA NextUdsInv == UdsInv /\ [Next]_vars => UdsInv'
<1> SUFFICES ASSUME UdsInv, [Next]_vars PROVE UdsInv'
  OBVIOUS
<1>1. CASE IngestThread
  BY <1>1, MoveStep, AcceptStep, AssignStep, ReadStep, FrameStep, CompactStep, CloseStep
     DEF IngestThread
<1>2. CASE AcceptFails
  BY <1>2, MoveStep DEF AcceptFails
<1>7. CASE ReadFails
  BY <1>7, MoveStep DEF ReadFails
<1>3. CASE Producers
  BY <1>3, ConnectStep, DisconnectStep, WriteStep DEF Producers
<1>4. CASE Main
  BY <1>4, MainStep, SignalStep, SetupThrowsStep DEF Main
<1>5. CASE Stop
  BY <1>5, MainStep, StopConnectionStep DEF Stop
<1>6. CASE UNCHANGED vars
  <2>1. UNCHANGED <<g_running, listening, main_pc, sockets, sent, pc, conn_fd_, buf, offset,
                    queue, ring_full_drops, parsed>>
    BY <1>6 DEF vars, process, environment, buffer, ring
  <2>2. Sound' <=> Sound
    BY <2>1 DEF Sound, TypeOK, Connections
  <2>3. FollowsNow' <=> FollowsNow
    BY <2>1 DEF FollowsNow
  <2> QED
    BY <2>1, <2>2, <2>3 DEF UdsInv
<1> QED
  BY <1>1, <1>2, <1>3, <1>4, <1>5, <1>6, <1>7 DEF Next

\* What is unread of the accepted connection, the rest of the buffer and what the kernel
\* holds behind it, is the stream of its messages from the one after those parsed.
THEOREM UdsInvariant == Spec => []UdsInv
<1>1. Init => UdsInv
  BY InitUdsInv
<1>2. UdsInv /\ [Next]_vars => UdsInv'
  BY NextUdsInv
<1> QED
  BY <1>1, <1>2, PTL DEF Spec

\* However the byte stream is cut into reads, the frames are whole messages, for each
\* connection the first it sent, in order and without a gap, also behind a connection
\* that was dropped or died in the middle of a message (pump of vhp_consumer.cpp).
THEOREM FramesMatch == Spec => []FramesAreMessages
<1>1. ASSUME Sound PROVE FramesAreMessages
  <2>1. FramesSound(parsed, sent)
    BY <1>1 DEF Sound
  <2>2. FramesWhole
    BY <2>1 DEF FramesSound, WholeFrame, FramesWhole
  <2>3. \A c : FramesOf(c) = PlacesOf(parsed, c)
    BY DEF FramesOf, PlacesOf
  <2>4. Len(sent) = Len(sockets)
    BY <1>1, SoundParts
  <2>5. NoneSkipped
    BY <2>1, <2>3, <2>4 DEF FramesSound, NoneSkipped, Connections
  <2> QED
    BY <2>2, <2>5 DEF FramesAreMessages
<1>2. UdsInv => FramesAreMessages
  BY <1>1 DEF UdsInv
<1> QED
  BY <1>2, UdsInvariant, PTL

\* The read buffer never overflows, read() is never asked for no bytes, and the guard
\* against a full buffer without a frame never throws data away (pump of
\* vhp_consumer.cpp).
THEOREM BufferBounded == Spec => []BufferInv
<1>1. ASSUME Sound PROVE BufferInv
  BY <1>1, RoomLeft DEF Sound, BufferInv, GuardIdle
<1>2. UdsInv => BufferInv
  BY <1>1 DEF UdsInv
<1> QED
  BY <1>2, UdsInvariant, PTL
=============================================================================
