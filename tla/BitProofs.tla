----------------------------- MODULE BitProofs -----------------------------
(***************************************************************************)
(* The proofs about the bit containers: BitArray, BitSet and BitSpan do to *)
(* the string of their bits what their calls are for, for every width of a *)
(* byte, every size, every content and every view.                         *)
(*                                                                         *)
(* The calls work on bytes and words, their promises are about bits.  For  *)
(* each class, therefore: what one bit of the result is, by the arithmetic *)
(* of its index; from it, the whole string; and that no call leaves the    *)
(* bits beyond the last where a later call would take them for bits.       *)
(***************************************************************************)
EXTENDS MCContainers, SequenceTheorems, FiniteSetTheorems, FunctionTheorems,
        WellFoundedInduction, TLAPS

LEMMA CellsAreSeq ==
    ASSUME NEW T, NEW n \in Nat, NEW c \in [1 .. n -> T]
    PROVE  c \in Seq(T) /\ Len(c) = n /\ DOMAIN c = 1 .. n
<1>1. c \in Seq(T)
  OBVIOUS
<1> QED
  BY <1>1, LenProperties

LEMMA LeastElement ==
    ASSUME NEW T \in SUBSET Nat, T # {}
    PROVE  \E x \in T : \A y \in T : x <= y
<1>1. PICK x \in T : \A y \in T : ~ (<<y, x>> \in OpToRel(<, Nat))
  BY NatLessThanWellFounded, WFMin
<1>2. \A y \in T : ~ (y < x)
  BY <1>1 DEF OpToRel
<1> QED
  BY <1>2

-----------------------------------------------------------------------------
(* Bit arrays *)

\* Where a bit lies, for indices and widths of every size.
LEMMA Multiples ==
    ASSUME NEW m \in Nat \ {0}, NEW p \in Int, NEW q \in Int, p < q
    PROVE  p * m + m <= q * m
<1>1. PICK d \in Nat : q = p + 1 + d
  <2>1. q - p - 1 \in Nat /\ q = p + 1 + (q - p - 1)
    OBVIOUS
  <2> QED
    BY <2>1
<1>2. q * m = p * m + m + d * m
  BY <1>1
<1>3. d * m >= 0
  OBVIOUS
<1>4. p * m \in Int /\ q * m \in Int /\ d * m \in Int
  OBVIOUS
<1> QED
  BY <1>2, <1>3, <1>4

\* Bit o of byte b has an index of its own.
IndexOfCell(b, o) == (b - 1) * ByteBits + o

LEMMA ByteOfIndex ==
    ASSUME NEW i \in Nat
    PROVE  /\ ByteIndex(i) \in Nat /\ BitOffset(i) \in Offsets
           /\ IndexOfCell(ByteIndex(i) + 1, BitOffset(i)) = i
<1>1. ByteBits \in Nat \ {0}
  BY LayoutAssumption
<1>2. i \div ByteBits \in Nat /\ i % ByteBits \in 0 .. ByteBits - 1
  BY <1>1
<1>3. i = ByteBits * (i \div ByteBits) + (i % ByteBits)
  BY <1>1
<1> QED
  BY <1>1, <1>2, <1>3 DEF ByteIndex, BitOffset, Offsets, IndexOfCell

LEMMA IndexOfByte ==
    ASSUME NEW b \in Nat \ {0}, NEW o \in Offsets
    PROVE  /\ IndexOfCell(b, o) \in Nat
           /\ ByteIndex(IndexOfCell(b, o)) = b - 1 /\ BitOffset(IndexOfCell(b, o)) = o
<1> DEFINE i == IndexOfCell(b, o)
           q == ByteIndex(i)
           r == BitOffset(i)
<1>1. ByteBits \in Nat \ {0} /\ o \in 0 .. ByteBits - 1
  BY LayoutAssumption DEF Offsets
<1>2. (b - 1) * ByteBits \in Nat
  BY <1>1
<1>3. i \in Nat
  BY <1>1, <1>2 DEF IndexOfCell
<1>4. q \in Nat /\ r \in 0 .. ByteBits - 1 /\ i = q * ByteBits + r
  BY <1>3, ByteOfIndex DEF IndexOfCell, Offsets
<1>5. i = (b - 1) * ByteBits + o
  BY DEF IndexOfCell
<1> HIDE DEF i, q, r
<1>6. ~ (q < b - 1)
  <2> SUFFICES ASSUME q < b - 1 PROVE FALSE
    OBVIOUS
  <2>1. q * ByteBits + ByteBits <= (b - 1) * ByteBits
    BY <1>1, <1>4, Multiples
  <2>2. q * ByteBits \in Int
    BY <1>1, <1>4
  <2> QED
    BY <2>1, <2>2, <1>1, <1>2, <1>4, <1>5
<1>7. ~ (b - 1 < q)
  <2> SUFFICES ASSUME b - 1 < q PROVE FALSE
    OBVIOUS
  <2>1. (b - 1) * ByteBits + ByteBits <= q * ByteBits
    BY <1>1, <1>4, Multiples
  <2>2. q * ByteBits \in Int
    BY <1>1, <1>4
  <2> QED
    BY <2>1, <2>2, <1>1, <1>2, <1>4, <1>5
<1>8. q = b - 1
  BY <1>4, <1>6, <1>7
<1>9. r = o
  BY <1>1, <1>2, <1>4, <1>5, <1>8
<1> QED
  BY <1>3, <1>8, <1>9 DEF i, q, r

\* Indices are ordered as their bytes, and in a byte as their offsets.
LEMMA IndexOrder ==
    ASSUME NEW i \in Nat, NEW j \in Nat
    PROVE  /\ ByteIndex(i) < ByteIndex(j) => i < j
           /\ ByteIndex(i) = ByteIndex(j) => (i < j <=> BitOffset(i) < BitOffset(j))
<1> DEFINE p == ByteIndex(i)
           q == ByteIndex(j)
           u == BitOffset(i)
           v == BitOffset(j)
<1>1. ByteBits \in Nat \ {0}
  BY LayoutAssumption
<1>2. p \in Nat /\ u \in 0 .. ByteBits - 1 /\ i = p * ByteBits + u
  BY ByteOfIndex DEF IndexOfCell, Offsets
<1>3. q \in Nat /\ v \in 0 .. ByteBits - 1 /\ j = q * ByteBits + v
  BY ByteOfIndex DEF IndexOfCell, Offsets
<1> HIDE DEF p, q, u, v
<1>4. p * ByteBits \in Int /\ q * ByteBits \in Int
  BY <1>1, <1>2, <1>3
<1>5. p < q => p * ByteBits + ByteBits <= q * ByteBits
  BY <1>1, <1>2, <1>3, Multiples
<1>6. p < q => i < j
  BY <1>1, <1>2, <1>3, <1>4, <1>5
<1>7. p = q => (i < j <=> u < v)
  BY <1>1, <1>2, <1>3, <1>4
<1> QED
  BY <1>6, <1>7 DEF p, q, u, v

\* There are as many bytes as bits need.
LEMMA BytesForBits ==
    ASSUME NEW n \in Nat
    PROVE  /\ BufferSizeForBits(n) \in Nat
           /\ n = 0 => BufferSizeForBits(n) = 0
           /\ n > 0 => BufferSizeForBits(n) = ByteIndex(n - 1) + 1
<1> DEFINE i == n - 1
<1>1. ByteBits \in Nat \ {0}
  BY LayoutAssumption
<1>2. CASE n = 0
  <2>1. (n + ByteBits - 1) \div ByteBits = 0
    BY <1>1, <1>2
  <2> QED
    BY <1>2, <2>1 DEF BufferSizeForBits
<1>3. CASE n > 0
  <2>1. i \in Nat
    BY <1>3
  <2>2. /\ ByteIndex(i) \in Nat /\ BitOffset(i) \in Offsets
        /\ IndexOfCell(ByteIndex(i) + 1, BitOffset(i)) = i
    BY <2>1, ByteOfIndex
  <2>3. n + ByteBits - 1 = IndexOfCell(ByteIndex(i) + 2, BitOffset(i))
    <3> DEFINE q == ByteIndex(i)
    <3>1. q \in Nat /\ BitOffset(i) \in 0 .. ByteBits - 1
      BY <2>2 DEF Offsets
    <3>2. ((q + 2) - 1) * ByteBits = q * ByteBits + ByteBits /\ q * ByteBits \in Int /\ q + 1 - 1 = q
      BY <1>1, <3>1
    <3>3. i = ((q + 1) - 1) * ByteBits + BitOffset(i)
      BY <2>2 DEF IndexOfCell
    <3> HIDE DEF q
    <3>4. n + ByteBits - 1 = ((q + 2) - 1) * ByteBits + BitOffset(i)
      BY <1>1, <3>1, <3>2, <3>3
    <3>5. n + ByteBits - 1 = IndexOfCell(q + 2, BitOffset(i))
      BY <3>4, Zenon DEF IndexOfCell
    <3> QED
      BY <3>5, Zenon DEF q
  <2>4. ByteIndex(IndexOfCell(ByteIndex(i) + 2, BitOffset(i))) = ByteIndex(i) + 2 - 1
    BY <2>2, IndexOfByte
  <2>5. BufferSizeForBits(n) = ByteIndex(i) + 1
    BY <2>2, <2>3, <2>4 DEF BufferSizeForBits, ByteIndex
  <2> QED
    BY <1>3, <2>2, <2>5
<1> QED
  BY <1>2, <1>3

LEMMA MoreBitsMoreBytes ==
    ASSUME NEW m \in Nat, NEW n \in Nat, m <= n
    PROVE  BufferSizeForBits(m) <= BufferSizeForBits(n)
<1>1. CASE m = 0
  BY <1>1, BytesForBits
<1>2. CASE m > 0
  <2>1. m - 1 \in Nat /\ n - 1 \in Nat /\ ByteIndex(m - 1) \in Nat /\ ByteIndex(n - 1) \in Nat
    BY <1>2, ByteOfIndex
  <2>2. ~ (ByteIndex(n - 1) < ByteIndex(m - 1))
    BY <2>1, IndexOrder
  <2> QED
    BY <1>2, <2>1, <2>2, BytesForBits
<1> QED
  BY <1>1, <1>2

\* A bit below n is in one of the bytes for n; one that is not is behind it.
LEMMA BitIsInside ==
    ASSUME NEW n \in Nat, NEW i \in Nat
    PROVE  /\ i < n => ByteIndex(i) + 1 <= BufferSizeForBits(n)
           /\ ByteIndex(i) + 1 < BufferSizeForBits(n) => i < n
<1>1. CASE n = 0
  BY <1>1, BytesForBits, ByteOfIndex
<1>2. CASE n > 0
  <2>1. n - 1 \in Nat /\ ByteIndex(n - 1) \in Nat /\ ByteIndex(i) \in Nat
    BY <1>2, ByteOfIndex
  <2>2. BufferSizeForBits(n) = ByteIndex(n - 1) + 1
    BY <1>2, BytesForBits
  <2>3. ByteIndex(n - 1) < ByteIndex(i) => n - 1 < i
    BY <2>1, IndexOrder
  <2>4. ByteIndex(i) < ByteIndex(n - 1) => i < n - 1
    BY <2>1, IndexOrder
  <2> QED
    BY <2>1, <2>2, <2>3, <2>4
<1> QED
  BY <1>1, <1>2

\* What an array's fields are.
ArrayRecord == [buffer : Seq(SUBSET Offsets), bitCount : Nat]
HasBytes(a) == a \in ArrayRecord /\ Len(a.buffer) >= BufferSizeForBits(a.bitCount)

\* Every one is below the size.
IsClear(a) ==
  \A b \in DOMAIN a.buffer : \A o \in a.buffer[b] : (b - 1) * ByteBits + o < a.bitCount
\* Between the calls.
Sound(a) == HasBytes(a) /\ (~ Surplus(a) => IsClear(a))

\* What is said of an array, one fact at a time.
LEMMA ArrayIs ==
    ASSUME NEW a, HasBytes(a)
    PROVE  /\ a.bitCount \in Nat /\ Len(a.buffer) \in Nat /\ DOMAIN a.buffer = 1 .. Len(a.buffer)
           /\ BufferSizeForBits(a.bitCount) \in Nat
           /\ a.buffer = [b \in 1 .. Len(a.buffer) |-> a.buffer[b]]
           /\ \A b \in 1 .. Len(a.buffer) : a.buffer[b] \in SUBSET Offsets
           /\ \A i \in Nat : i < a.bitCount => ByteIndex(i) + 1 \in 1 .. Len(a.buffer)
<1>1. a.bitCount \in Nat /\ a.buffer \in Seq(SUBSET Offsets)
  BY DEF HasBytes, ArrayRecord
<1>2. Len(a.buffer) \in Nat /\ DOMAIN a.buffer = 1 .. Len(a.buffer)
      /\ \A b \in 1 .. Len(a.buffer) : a.buffer[b] \in SUBSET Offsets
  BY <1>1
<1>3. a.buffer = [b \in 1 .. Len(a.buffer) |-> a.buffer[b]]
  BY <1>1
<1>4. BufferSizeForBits(a.bitCount) \in Nat /\ BufferSizeForBits(a.bitCount) <= Len(a.buffer)
  BY <1>1, BytesForBits DEF HasBytes
<1>5. ASSUME NEW i \in Nat, i < a.bitCount PROVE ByteIndex(i) + 1 \in 1 .. Len(a.buffer)
  <2>1. ByteIndex(i) \in Nat /\ ByteIndex(i) + 1 <= BufferSizeForBits(a.bitCount)
    BY <1>1, <1>5, ByteOfIndex, BitIsInside
  <2> QED
    BY <1>2, <1>4, <2>1
<1> QED
  BY <1>1, <1>2, <1>3, <1>4, <1>5

\* An array made of its bytes.
Bytes(c, L) == c = [b \in 1 .. L |-> c[b]] /\ \A b \in 1 .. L : c[b] \in SUBSET Offsets
Made(c, n) == [buffer |-> c, bitCount |-> n]

LEMMA ArrayMade ==
    ASSUME NEW L \in Nat, NEW n \in Nat, NEW c, Bytes(c, L), BufferSizeForBits(n) <= L
    PROVE  /\ HasBytes(Made(c, n)) /\ Made(c, n).buffer = c /\ Made(c, n).bitCount = n
           /\ Len(c) = L /\ DOMAIN c = 1 .. L
<1>1. c \in [1 .. L -> SUBSET Offsets]
  BY DEF Bytes
<1>2. c \in Seq(SUBSET Offsets) /\ Len(c) = L /\ DOMAIN c = 1 .. L
  BY <1>1, CellsAreSeq
<1> QED
  BY <1>2 DEF HasBytes, ArrayRecord, Made

\* In an array without surplus bytes the last byte is that of the last bit.
LEMMA LastByte ==
    ASSUME NEW n \in Nat, n > 0
    PROVE  /\ n - 1 \in Nat /\ ByteIndex(n - 1) \in Nat /\ BitOffset(n - 1) \in Offsets
           /\ BufferSizeForBits(n) = ByteIndex(n - 1) + 1
  BY ByteOfIndex, BytesForBits

\* The bits of the last byte that are not part of the array are cleared.
LEMMA UnusedCleared ==
    ASSUME NEW a, HasBytes(a)
    PROVE  LET c == ClearUnusedBits(a)
           IN /\ Sound(c) /\ c.bitCount = a.bitCount /\ Len(c.buffer) = Len(a.buffer)
              /\ \A i \in Nat : TestBit(c, i) <=> TestBit(a, i)
<1> DEFINE c == ClearUnusedBits(a)
           n == a.bitCount
           L == Len(a.buffer)
<1>1. /\ n \in Nat /\ L \in Nat /\ DOMAIN a.buffer = 1 .. L
      /\ BufferSizeForBits(n) \in Nat /\ BufferSizeForBits(n) <= L
      /\ a.buffer = [b \in 1 .. L |-> a.buffer[b]]
      /\ \A b \in 1 .. L : a.buffer[b] \in SUBSET Offsets
  BY ArrayIs DEF HasBytes
<1>2. CASE n = 0
  <2>1. c = a
    BY <1>2 DEF ClearUnusedBits
  <2>2. ~ Surplus(a) => L = 0
    BY <1>1, <1>2, BytesForBits DEF Surplus
  <2>3. ~ Surplus(a) => IsClear(a)
    BY <1>1, <2>2 DEF IsClear
  <2> QED
    BY <2>1, <2>3 DEF Sound
<1>3. CASE n > 0
  <2> DEFINE last == ByteIndex(n - 1) + 1
             off == BitOffset(n - 1)
             d == [b \in 1 .. L |-> IF b = last THEN a.buffer[b] \cap 0 .. off ELSE a.buffer[b]]
  <2>1. /\ n - 1 \in Nat /\ last \in Nat \ {0} /\ off \in Offsets /\ last = BufferSizeForBits(n) /\ last <= L
        /\ ByteIndex(n - 1) \in Nat
    <3>1. \A m \in Nat : m > 0 => /\ m - 1 \in Nat /\ ByteIndex(m - 1) \in Nat
                                 /\ BitOffset(m - 1) \in Offsets
                                 /\ BufferSizeForBits(m) = ByteIndex(m - 1) + 1
      BY LastByte
    <3> HIDE DEF n, L
    <3>2. /\ n - 1 \in Nat /\ ByteIndex(n - 1) \in Nat /\ BitOffset(n - 1) \in Offsets
          /\ BufferSizeForBits(n) = ByteIndex(n - 1) + 1
      BY <1>1, <1>3, <3>1
    <3> QED
      BY <1>1, <3>2
  <2>2. c = [a EXCEPT !.buffer = [a.buffer EXCEPT ![last] = a.buffer[last] \cap 0 .. off]]
    BY <1>3 DEF ClearUnusedBits
  <2>3. [a.buffer EXCEPT ![last] = a.buffer[last] \cap 0 .. off] = d
    BY <1>1, <2>1
  <2>4. c = [buffer |-> d, bitCount |-> n]
    BY <2>2, <2>3 DEF HasBytes, ArrayRecord
  <2>5. \A b \in 1 .. L : d[b] \in SUBSET Offsets /\ d[b] \subseteq a.buffer[b]
    BY <1>1
  <2>6. HasBytes(c) /\ Len(d) = L /\ DOMAIN d = 1 .. L
    <3> HIDE DEF n, L
    <3>1. Bytes(d, L)
      BY <2>5 DEF Bytes
    <3>2. c = Made(d, n)
      BY <2>4 DEF Made
    <3> HIDE DEF d, c
    <3> QED
      BY <1>1, <3>1, <3>2, ArrayMade
  <2>7. c.buffer = d /\ c.bitCount = n
    BY <2>4
  <2> HIDE DEF c
  <2>8. ASSUME NEW i \in Nat PROVE TestBit(c, i) <=> TestBit(a, i)
    <3> DEFINE b == ByteIndex(i) + 1
    <3>1. CASE i < n
      <4>1. b \in 1 .. L /\ ByteIndex(i) \in Nat /\ BitOffset(i) \in Offsets
        BY <3>1, ArrayIs, ByteOfIndex
      <4>2. b = last => BitOffset(i) \in 0 .. off
        <5> SUFFICES ASSUME b = last PROVE BitOffset(i) \in 0 .. off
          OBVIOUS
        <5>1. ByteIndex(i) = ByteIndex(n - 1)
          BY <2>1, <4>1
        <5>2. ~ (n - 1 < i)
          BY <1>1, <3>1
        <5>3. ~ (off < BitOffset(i))
          BY <2>1, <5>1, <5>2, IndexOrder
        <5> QED
          BY <2>1, <4>1, <5>3 DEF Offsets
      <4>3. BitOffset(i) \in d[b] <=> BitOffset(i) \in a.buffer[b]
        BY <4>1, <4>2
      <4> QED
        BY <2>7, <4>3 DEF TestBit
    <3>2. CASE ~ (i < n)
      BY <2>7, <3>2 DEF TestBit
    <3> QED
      BY <3>1, <3>2
  <2>9. ASSUME ~ Surplus(c), NEW b \in DOMAIN c.buffer, NEW o \in c.buffer[b]
        PROVE  (b - 1) * ByteBits + o < c.bitCount
    <3> DEFINE i == IndexOfCell(b, o)
    <3>1. L = last /\ b \in 1 .. L /\ o \in Offsets /\ b \in Nat \ {0}
      BY <1>1, <2>1, <2>5, <2>6, <2>7, <2>9 DEF Surplus
    <3>2. i \in Nat /\ ByteIndex(i) = b - 1 /\ BitOffset(i) = o
      BY <3>1, IndexOfByte
    <3>3. i < n
      <4>1. CASE b < last
        BY <1>1, <2>1, <3>1, <3>2, <4>1, BitIsInside
      <4>2. CASE b = last
        <5>1. o \in 0 .. off
          BY <2>7, <2>9, <3>1, <4>2
        <5>2. ByteIndex(n - 1) = ByteIndex(i) /\ ~ (BitOffset(n - 1) < BitOffset(i))
          BY <2>1, <3>1, <3>2, <4>2, <5>1 DEF Offsets
        <5>3. ~ (n - 1 < i)
          BY <2>1, <3>2, <5>2, IndexOrder
        <5> QED
          BY <1>1, <3>2, <5>3
      <4> QED
        BY <2>1, <3>1, <4>1, <4>2
    <3> QED
      BY <2>7, <3>3 DEF IndexOfCell
  <2> QED
    BY <2>6, <2>7, <2>8, <2>9 DEF Sound, IsClear, c
<1> QED
  BY <1>1, <1>2, <1>3

\* What lies in the bytes, where nothing lies beyond the size.
LEMMA ClearReads ==
    ASSUME NEW a, Sound(a), ~ Surplus(a), NEW i \in Nat
    PROVE  /\ Len(a.buffer) = BufferSizeForBits(a.bitCount)
           /\ ByteIndex(i) + 1 \in 1 .. Len(a.buffer) =>
                (BitOffset(i) \in a.buffer[ByteIndex(i) + 1] <=> TestBit(a, i))
<1> DEFINE b == ByteIndex(i) + 1
           o == BitOffset(i)
<1>1. HasBytes(a) /\ IsClear(a)
  BY DEF Sound
<1>2. /\ a.bitCount \in Nat /\ Len(a.buffer) \in Nat /\ DOMAIN a.buffer = 1 .. Len(a.buffer)
      /\ BufferSizeForBits(a.bitCount) \in Nat
  BY <1>1, ArrayIs
<1>3. Len(a.buffer) = BufferSizeForBits(a.bitCount)
  BY <1>1, <1>2 DEF HasBytes, Surplus
<1>4. (b - 1) * ByteBits + o = i
  BY ByteOfIndex DEF IndexOfCell
<1> HIDE DEF b, o
<1>5. b \in 1 .. Len(a.buffer) /\ o \in a.buffer[b] => i < a.bitCount
  BY <1>1, <1>2, <1>4 DEF IsClear
<1> QED
  BY <1>3, <1>5 DEF b, o, TestBit

\* An array of new bytes whose last is masked.
LEMMA MaskedIs ==
    ASSUME NEW L \in Nat, NEW n \in Nat, NEW c, Bytes(c, L), BufferSizeForBits(n) <= L,
           NEW r, r = ClearUnusedBits(Made(c, n))
    PROVE  /\ HasBytes(r) /\ Sound(r) /\ r.bitCount = n /\ Len(r.buffer) = L
           /\ \A i \in Nat : TestBit(r, i) <=> i < n /\ BitOffset(i) \in c[ByteIndex(i) + 1]
<1> DEFINE a == Made(c, n)
<1>1. HasBytes(a) /\ Len(c) = L /\ a.buffer = c /\ a.bitCount = n
  BY ArrayMade
<1>2. a.buffer = c /\ a.bitCount = n
  BY <1>1
<1>3. r = ClearUnusedBits(a)
  OBVIOUS
<1> HIDE DEF a
<1>4. /\ Sound(r) /\ r.bitCount = a.bitCount /\ Len(r.buffer) = Len(a.buffer)
      /\ \A i \in Nat : TestBit(r, i) <=> TestBit(a, i)
  BY <1>1, <1>3, UnusedCleared
<1>5. \A i : TestBit(a, i) <=> i < n /\ BitOffset(i) \in c[ByteIndex(i) + 1]
  BY <1>2 DEF TestBit
<1> QED
  BY <1>1, <1>2, <1>4, <1>5 DEF Sound

\* A loop of setBit() over a range: what the bits from a set are.
SetTo(a, first, last, S) ==
  [a EXCEPT !.buffer = [b \in DOMAIN a.buffer |->
     {o \in Offsets :
        LET i == (b - 1) * ByteBits + o
        IN IF first <= i /\ i < last /\ i < a.bitCount THEN i \in S ELSE o \in a.buffer[b]}]]

LEMMA SetToIs ==
    ASSUME NEW a, HasBytes(a), NEW first \in Int, NEW last \in Int, NEW S
    PROVE  LET r == SetTo(a, first, last, S)
           IN /\ HasBytes(r) /\ r.bitCount = a.bitCount /\ Len(r.buffer) = Len(a.buffer)
              /\ \A i \in Nat :
                   TestBit(r, i) <=> IF first <= i /\ i < last /\ i < a.bitCount THEN i \in S ELSE TestBit(a, i)
              /\ Sound(a) => Sound(r)
<1> DEFINE L == Len(a.buffer)
           n == a.bitCount
           On(b, o) == LET i == IndexOfCell(b, o)
                       IN IF first <= i /\ i < last /\ i < n THEN i \in S ELSE o \in a.buffer[b]
           c == [b \in 1 .. L |-> {o \in Offsets : On(b, o)}]
           r == SetTo(a, first, last, S)
<1>1. /\ n \in Nat /\ L \in Nat /\ DOMAIN a.buffer = 1 .. L
      /\ BufferSizeForBits(n) \in Nat /\ BufferSizeForBits(n) <= L
      /\ \A i \in Nat : i < n => ByteIndex(i) + 1 \in 1 .. L
      /\ \A b \in 1 .. L : a.buffer[b] \in SUBSET Offsets
  BY ArrayIs DEF HasBytes
<1>2. r = [a EXCEPT !.buffer = c]
  BY <1>1 DEF SetTo, IndexOfCell
<1>3. r = Made(c, n)
  BY <1>2 DEF HasBytes, ArrayRecord, Made
<1>4. r.buffer = c /\ r.bitCount = n
  BY <1>3 DEF Made
<1>5. Bytes(c, L) /\ \A b \in 1 .. L : c[b] \in SUBSET Offsets
  BY DEF Bytes
<1>6. \A b \in 1 .. L : \A o \in Offsets : o \in c[b] <=> On(b, o)
  OBVIOUS
<1> HIDE DEF c, r, L, n
<1>7. HasBytes(r) /\ Len(c) = L /\ DOMAIN c = 1 .. L
  BY <1>1, <1>3, <1>5, ArrayMade
<1>8. ASSUME NEW i \in Nat
      PROVE  TestBit(r, i) <=> IF first <= i /\ i < last /\ i < n THEN i \in S ELSE TestBit(a, i)
  <2>1. CASE i < n
    <3>1. ByteIndex(i) + 1 \in 1 .. L /\ BitOffset(i) \in Offsets
          /\ IndexOfCell(ByteIndex(i) + 1, BitOffset(i)) = i
      BY <1>1, <2>1, ByteOfIndex
    <3>2. TestBit(r, i) <=> On(ByteIndex(i) + 1, BitOffset(i))
      BY <1>4, <1>6, <2>1, <3>1 DEF TestBit
    <3>3. TestBit(a, i) <=> BitOffset(i) \in a.buffer[ByteIndex(i) + 1]
      BY <2>1 DEF TestBit, n
    <3> QED
      BY <3>1, <3>2, <3>3
  <2>2. CASE ~ (i < n)
    BY <1>4, <2>2 DEF TestBit, n
  <2> QED
    BY <2>1, <2>2
<1>9. ASSUME Sound(a), ~ Surplus(r), NEW b \in 1 .. L, NEW o \in c[b]
      PROVE  (b - 1) * ByteBits + o < n
  <2>1. ~ Surplus(a) /\ IsClear(a)
    BY <1>4, <1>7, <1>9 DEF Surplus, Sound, L, n
  <2>2. b \in Nat \ {0} /\ o \in Offsets
    BY <1>1, <1>5, <1>9
  <2>3. IndexOfCell(b, o) \in Nat
    BY <2>2, IndexOfByte
  <2>4. o \in a.buffer[b] => IndexOfCell(b, o) < n
    BY <1>1, <2>1 DEF IsClear, IndexOfCell, n
  <2>5. On(b, o)
    BY <1>6, <1>9, <2>2
  <2> QED
    BY <2>4, <2>5 DEF IndexOfCell
<1>10. Sound(a) => Sound(r)
  BY <1>4, <1>7, <1>9 DEF Sound, IsClear
<1> QED
  BY <1>4, <1>7, <1>8, <1>10 DEF r, L, n

\* Writing one byte so that one bit of it changes.
LEMMA OneBit ==
    ASSUME NEW a, HasBytes(a), NEW i \in Nat, i < a.bitCount, NEW v \in SUBSET Offsets,
           \A o \in Offsets : o # BitOffset(i) => (o \in v <=> o \in a.buffer[ByteIndex(i) + 1]),
           NEW r, r = [a EXCEPT !.buffer[ByteIndex(i) + 1] = v]
    PROVE  /\ HasBytes(r) /\ r.bitCount = a.bitCount
           /\ \A j \in Nat : TestBit(r, j) <=> IF j = i THEN BitOffset(i) \in v ELSE TestBit(a, j)
           /\ Sound(a) => Sound(r)
<1> DEFINE S == IF BitOffset(i) \in v THEN {i} ELSE {}
           L == Len(a.buffer)
           k == ByteIndex(i) + 1
<1>1. /\ a.bitCount \in Nat /\ L \in Nat /\ DOMAIN a.buffer = 1 .. L /\ k \in 1 .. L
      /\ a.buffer = [b \in 1 .. L |-> a.buffer[b]]
      /\ \A b \in 1 .. L : a.buffer[b] \in SUBSET Offsets
  BY ArrayIs
<1>2. BitOffset(i) \in Offsets /\ IndexOfCell(k, BitOffset(i)) = i
  BY ByteOfIndex
<1>3. ASSUME NEW b \in 1 .. L
      PROVE  (IF b = k THEN v ELSE a.buffer[b])
               = {o \in Offsets :
                    LET j == (b - 1) * ByteBits + o
                    IN IF i <= j /\ j < i + 1 /\ j < a.bitCount THEN j \in S ELSE o \in a.buffer[b]}
  <2>1. ASSUME NEW o \in Offsets
        PROVE  LET j == (b - 1) * ByteBits + o
               IN /\ j \in Nat
                  /\ (i <= j /\ j < i + 1 /\ j < a.bitCount) <=> (b = k /\ o = BitOffset(i))
    <3> DEFINE j == IndexOfCell(b, o)
    <3>1. j \in Nat /\ ByteIndex(j) = b - 1 /\ BitOffset(j) = o
      BY <1>1, IndexOfByte
    <3>2. j = i <=> b = k /\ o = BitOffset(i)
      BY <1>1, <1>2, <3>1
    <3> HIDE DEF j
    <3>3. i <= j /\ j < i + 1 /\ j < a.bitCount <=> j = i
      BY <1>1, <3>1
    <3> QED
      BY <3>1, <3>2, <3>3 DEF j, IndexOfCell
  <2>2. \A o \in Offsets :
          o \in (IF b = k THEN v ELSE a.buffer[b]) <=>
            LET j == (b - 1) * ByteBits + o
            IN IF i <= j /\ j < i + 1 /\ j < a.bitCount THEN j \in S ELSE o \in a.buffer[b]
    <3> TAKE o \in Offsets
    <3> DEFINE j == (b - 1) * ByteBits + o
    <3>1. j \in Nat /\ ((i <= j /\ j < i + 1 /\ j < a.bitCount) <=> (b = k /\ o = BitOffset(i)))
      BY <2>1
    <3>2. (i <= j /\ j < i + 1 /\ j < a.bitCount) => j = i
      BY <1>1, <3>1
    <3> HIDE DEF j
    <3>3. o \in (IF b = k THEN v ELSE a.buffer[b]) <=>
            IF b = k /\ o = BitOffset(i) THEN BitOffset(i) \in v ELSE o \in a.buffer[b]
      OBVIOUS
    <3>4. j = i => (j \in S <=> BitOffset(i) \in v)
      OBVIOUS
    <3>5. o \in (IF b = k THEN v ELSE a.buffer[b]) <=>
            IF i <= j /\ j < i + 1 /\ j < a.bitCount THEN j \in S ELSE o \in a.buffer[b]
      BY <3>1, <3>2, <3>3, <3>4
    <3> QED
      BY <3>5 DEF j
  <2>3. (IF b = k THEN v ELSE a.buffer[b]) \subseteq Offsets
    BY <1>1
  <2> QED
    BY <2>2, <2>3
<1>4. [a.buffer EXCEPT ![k] = v] = [b \in 1 .. L |-> IF b = k THEN v ELSE a.buffer[b]]
  BY <1>1
<1>5. r = SetTo(a, i, i + 1, S)
  <2> DEFINE f == [b \in 1 .. L |->
                     {o \in Offsets :
                        LET j == (b - 1) * ByteBits + o
                        IN IF i <= j /\ j < i + 1 /\ j < a.bitCount THEN j \in S ELSE o \in a.buffer[b]}]
  <2>1. SetTo(a, i, i + 1, S) = [a EXCEPT !.buffer = f]
    BY <1>1 DEF SetTo
  <2>2. [b \in 1 .. L |-> IF b = k THEN v ELSE a.buffer[b]] = f
    BY <1>3
  <2> HIDE DEF f
  <2>3. r = [a EXCEPT !.buffer = f]
    BY <1>4, <2>2
  <2> QED
    BY <2>1, <2>3
<1> HIDE DEF S
<1>6. /\ HasBytes(r) /\ r.bitCount = a.bitCount /\ Len(r.buffer) = Len(a.buffer)
      /\ \A j \in Nat :
           TestBit(r, j) <=> IF i <= j /\ j < i + 1 /\ j < a.bitCount THEN j \in S ELSE TestBit(a, j)
      /\ Sound(a) => Sound(r)
  <2> DEFINE next == i + 1
  <2>1. i \in Int /\ next \in Int
    OBVIOUS
  <2> HIDE DEF next, L, k
  <2>2. LET q == SetTo(a, i, next, S)
        IN /\ HasBytes(q) /\ q.bitCount = a.bitCount /\ Len(q.buffer) = Len(a.buffer)
           /\ \A j \in Nat :
                TestBit(q, j) <=> IF i <= j /\ j < next /\ j < a.bitCount THEN j \in S ELSE TestBit(a, j)
           /\ Sound(a) => Sound(q)
    BY <2>1, SetToIs
  <2>3. r = SetTo(a, i, next, S)
    BY <1>5 DEF next
  <2> HIDE DEF S
  <2> QED
    BY <2>2, <2>3 DEF next
<1>7. \A j \in Nat : i <= j /\ j < i + 1 /\ j < a.bitCount <=> j = i
  BY <1>1
<1>8. i \in S <=> BitOffset(i) \in v
  BY DEF S
<1> QED
  BY <1>6, <1>7, <1>8

\* BitArray(size, fillValue)
LEMMA SizedIs ==
    ASSUME NEW n \in Nat, NEW value \in BOOLEAN
    PROVE  LET r == Sized(n, value)
           IN /\ Sound(r) /\ ~ Surplus(r) /\ r.bitCount = n
              /\ \A i \in Nat : TestBit(r, i) <=> i < n /\ value
<1> DEFINE L == BufferSizeForBits(n)
           c == ResizeBuffer(<<>>, L, FillByte(value))
           r == Sized(n, value)
<1>1. L \in Nat
  BY BytesForBits
<1>2. FillByte(value) \in SUBSET Offsets /\ \A o \in Offsets : o \in FillByte(value) <=> value
  BY DEF FillByte
<1>3. c = [b \in 1 .. L |-> FillByte(value)]
  BY DEF ResizeBuffer
<1>4. r = ClearUnusedBits(Made(c, n))
  BY DEF Sized, Made
<1>5. L = BufferSizeForBits(n) /\ BufferSizeForBits(n) <= L
  BY <1>1
<1>6. Bytes(c, L) /\ \A b \in 1 .. L : c[b] = FillByte(value)
  BY <1>2, <1>3 DEF Bytes
<1> HIDE DEF c, L, r
<1>7. /\ Sound(r) /\ r.bitCount = n /\ Len(r.buffer) = L
      /\ \A i \in Nat : TestBit(r, i) <=> i < n /\ BitOffset(i) \in c[ByteIndex(i) + 1]
  BY <1>1, <1>4, <1>5, <1>6, MaskedIs
<1>8. \A i \in Nat : BitOffset(i) \in Offsets /\ ByteIndex(i) + 1 \in Nat \ {0}
                    /\ (i < n => ByteIndex(i) + 1 <= L)
  BY <1>5, ByteOfIndex, BitIsInside
<1>9. ASSUME NEW i \in Nat PROVE TestBit(r, i) <=> i < n /\ value
  <2>1. CASE i < n
    <3>1. ByteIndex(i) + 1 \in 1 .. L /\ BitOffset(i) \in Offsets
      BY <1>1, <1>8, <2>1
    <3> QED
      BY <1>2, <1>6, <1>7, <2>1, <3>1
  <2>2. CASE ~ (i < n)
    BY <1>7, <2>2
  <2> QED
    BY <2>1, <2>2
<1>10. ~ Surplus(r)
  BY <1>1, <1>5, <1>7 DEF Surplus
<1> QED
  BY <1>7, <1>9, <1>10 DEF r

\* BitArray(size) and BitArray()
LEMMA UnsetIs ==
    ASSUME NEW n \in Nat
    PROVE  LET r == Sized(n, FALSE)
           IN Sound(r) /\ ~ Surplus(r) /\ r.bitCount = n /\ \A i \in Nat : ~ TestBit(r, i)
<1>1. PICK value \in BOOLEAN : value = FALSE
  OBVIOUS
<1> DEFINE r == Sized(n, value)
<1>2. /\ Sound(r) /\ ~ Surplus(r) /\ r.bitCount = n
      /\ \A i \in Nat : TestBit(r, i) <=> i < n /\ value
  BY SizedIs
<1>3. r = Sized(n, FALSE)
  BY <1>1
<1> HIDE DEF r
<1> QED
  BY <1>1, <1>2, <1>3

\* setBit(), clearBit(), toggleBit() and what a reference does.
LEMMA PutIs ==
    ASSUME NEW a, HasBytes(a), NEW i \in Nat, NEW value \in BOOLEAN,
           NEW r \in {SetBit(a, i, value), ToggleBit(a, i)}
    PROVE  /\ HasBytes(r) /\ r.bitCount = a.bitCount /\ (Sound(a) => Sound(r))
           /\ r = SetBit(a, i, value) =>
                \A j \in Nat : TestBit(r, j) <=> IF j = i /\ i < a.bitCount THEN value ELSE TestBit(a, j)
           /\ r = ToggleBit(a, i) =>
                \A j \in Nat : TestBit(r, j) <=> IF j = i /\ i < a.bitCount THEN ~ TestBit(a, j) ELSE TestBit(a, j)
<1>1. a.bitCount \in Nat
  BY ArrayIs
<1>2. CASE ~ (i < a.bitCount)
  <2>1. r = a
    BY <1>1, <1>2 DEF SetBit, SetBitTrue, ClearBit, ToggleBit
  <2> QED
    BY <1>2, <2>1
<1>3. CASE i < a.bitCount
  <2> DEFINE w == a.buffer[ByteIndex(i) + 1]
             o == BitOffset(i)
  <2>1. w \in SUBSET Offsets /\ o \in Offsets /\ (TestBit(a, i) <=> o \in w)
    BY <1>3, ArrayIs, ByteOfIndex DEF TestBit
  <2>2. ASSUME NEW v \in {w \cup {o}, w \ {o}, BitsXor(w, {o})},
               NEW q, q = [a EXCEPT !.buffer[ByteIndex(i) + 1] = v]
        PROVE  /\ HasBytes(q) /\ q.bitCount = a.bitCount /\ (Sound(a) => Sound(q))
               /\ \A j \in Nat : TestBit(q, j) <=> IF j = i THEN o \in v ELSE TestBit(a, j)
    <3>1. v \in SUBSET Offsets /\ \A k \in Offsets : k # o => (k \in v <=> k \in w)
      BY <2>1 DEF BitsXor
    <3> QED
      BY <1>3, <2>2, <3>1, OneBit
  <2>3. o \in w \cup {o} /\ o \notin w \ {o} /\ (o \in BitsXor(w, {o}) <=> o \notin w)
    BY DEF BitsXor
  <2>4. CASE r = SetBit(a, i, value) /\ value
    <3>1. r = [a EXCEPT !.buffer[ByteIndex(i) + 1] = w \cup {o}]
      BY <1>1, <1>3, <2>4 DEF SetBit, SetBitTrue
    <3> HIDE DEF w, o
    <3>2. /\ HasBytes(r) /\ r.bitCount = a.bitCount /\ (Sound(a) => Sound(r))
          /\ \A j \in Nat : TestBit(r, j) <=> IF j = i THEN TRUE ELSE TestBit(a, j)
      BY <2>2, <2>3, <3>1
    <3>3. r = ToggleBit(a, i) => r = [a EXCEPT !.buffer[ByteIndex(i) + 1] = BitsXor(w, {o})]
      BY <1>1, <1>3 DEF ToggleBit, w, o
    <3>4. r = ToggleBit(a, i) => \A j \in Nat : TestBit(r, j) <=> IF j = i THEN o \notin w ELSE TestBit(a, j)
      BY <2>2, <2>3, <3>3
    <3> QED
      BY <1>3, <2>1, <2>4, <3>2, <3>4
  <2>5. CASE r = SetBit(a, i, value) /\ ~ value
    <3>1. r = [a EXCEPT !.buffer[ByteIndex(i) + 1] = w \ {o}]
      BY <1>1, <1>3, <2>5 DEF SetBit, ClearBit
    <3> HIDE DEF w, o
    <3>2. /\ HasBytes(r) /\ r.bitCount = a.bitCount /\ (Sound(a) => Sound(r))
          /\ \A j \in Nat : TestBit(r, j) <=> IF j = i THEN FALSE ELSE TestBit(a, j)
      BY <2>2, <2>3, <3>1
    <3>3. r = ToggleBit(a, i) => r = [a EXCEPT !.buffer[ByteIndex(i) + 1] = BitsXor(w, {o})]
      BY <1>1, <1>3 DEF ToggleBit, w, o
    <3>4. r = ToggleBit(a, i) => \A j \in Nat : TestBit(r, j) <=> IF j = i THEN o \notin w ELSE TestBit(a, j)
      BY <2>2, <2>3, <3>3
    <3> QED
      BY <1>3, <2>1, <2>5, <3>2, <3>4
  <2>6. CASE r = ToggleBit(a, i) /\ r # SetBit(a, i, value)
    <3>1. r = [a EXCEPT !.buffer[ByteIndex(i) + 1] = BitsXor(w, {o})]
      BY <1>1, <1>3, <2>6 DEF ToggleBit
    <3> HIDE DEF w, o
    <3>2. /\ HasBytes(r) /\ r.bitCount = a.bitCount /\ (Sound(a) => Sound(r))
          /\ \A j \in Nat : TestBit(r, j) <=> IF j = i THEN o \notin w ELSE TestBit(a, j)
      BY <2>2, <2>3, <3>1
    <3> QED
      BY <1>3, <2>1, <2>6, <3>2
  <2> QED
    BY <2>4, <2>5, <2>6
<1> QED
  BY <1>2, <1>3

\* What the members that write all bytes make of them.
LEMMA EveryByte ==
    ASSUME NEW a, HasBytes(a), NEW value \in BOOLEAN
    PROVE  /\ LET r == Fill(a, value)
              IN /\ Sound(r) /\ r.bitCount = a.bitCount
                 /\ \A i \in Nat : TestBit(r, i) <=> i < a.bitCount /\ value
           /\ LET r == Not(a)
              IN /\ Sound(r) /\ r.bitCount = a.bitCount
                 /\ \A i \in Nat : TestBit(r, i) <=> i < a.bitCount /\ ~ TestBit(a, i)
<1> DEFINE L == Len(a.buffer)
           n == a.bitCount
           f == [b \in 1 .. L |-> FillByte(value)]
           g == [b \in 1 .. L |-> Offsets \ a.buffer[b]]
           F == Fill(a, value)
           N == Not(a)
<1>1. /\ n \in Nat /\ L \in Nat /\ DOMAIN a.buffer = 1 .. L /\ BufferSizeForBits(n) <= L
      /\ \A i \in Nat : i < n => ByteIndex(i) + 1 \in 1 .. L
  BY ArrayIs DEF HasBytes
<1>2. FillByte(value) \in SUBSET Offsets /\ \A o \in Offsets : o \in FillByte(value) <=> value
  BY DEF FillByte
<1>3. \A x : [a EXCEPT !.buffer = x] = Made(x, n)
  BY DEF HasBytes, ArrayRecord, Made
<1>4. F = ClearUnusedBits(Made(f, n)) /\ N = ClearUnusedBits(Made(g, n))
  BY <1>1, <1>3 DEF Fill, Not
<1>5. /\ Bytes(f, L) /\ \A b \in 1 .. L : f[b] = FillByte(value)
      /\ Bytes(g, L) /\ \A b \in 1 .. L : g[b] = Offsets \ a.buffer[b]
  BY <1>2 DEF Bytes
<1>6. \A i \in Nat : BitOffset(i) \in Offsets
  BY ByteOfIndex
<1>7. \A i \in Nat : i < n => (TestBit(a, i) <=> BitOffset(i) \in a.buffer[ByteIndex(i) + 1])
  BY DEF TestBit
<1> HIDE DEF L, n, f, g, F, N
<1>8. /\ Sound(F) /\ F.bitCount = n
      /\ \A i \in Nat : TestBit(F, i) <=> i < n /\ BitOffset(i) \in f[ByteIndex(i) + 1]
  BY <1>1, <1>4, <1>5, MaskedIs
<1>9. /\ Sound(N) /\ N.bitCount = n
      /\ \A i \in Nat : TestBit(N, i) <=> i < n /\ BitOffset(i) \in g[ByteIndex(i) + 1]
  BY <1>1, <1>4, <1>5, MaskedIs
<1>10. \A i \in Nat : i < n => (BitOffset(i) \in f[ByteIndex(i) + 1] <=> value)
  BY <1>1, <1>2, <1>5, <1>6
<1>11. \A i \in Nat : i < n => (BitOffset(i) \in g[ByteIndex(i) + 1] <=> ~ TestBit(a, i))
  BY <1>1, <1>5, <1>6, <1>7
<1> QED
  BY <1>8, <1>9, <1>10, <1>11 DEF F, N, n

LEMMA SmallerOfIs ==
    ASSUME NEW m \in Int, NEW n \in Int
    PROVE  /\ SmallerOf(m, n) \in {m, n} /\ SmallerOf(m, n) <= m /\ SmallerOf(m, n) <= n
           /\ \A k \in Int : k < SmallerOf(m, n) <=> k < m /\ k < n
  BY DEF SmallerOf

\* operator&=
LEMMA AndIs ==
    ASSUME NEW a, HasBytes(a), NEW o, HasBytes(o)
    PROVE  LET r == And(a, o)
           IN /\ Sound(r) /\ r.bitCount = SmallerOf(a.bitCount, o.bitCount)
              /\ \A i \in Nat : TestBit(r, i) <=> TestBit(a, i) /\ TestBit(o, i)
<1> DEFINE L == Len(a.buffer)
           K == Len(o.buffer)
           n == SmallerOf(a.bitCount, o.bitCount)
           c == [b \in 1 .. L |-> IF b <= K THEN a.buffer[b] \cap o.buffer[b] ELSE {}]
           r == And(a, o)
<1>1. /\ a.bitCount \in Nat /\ L \in Nat /\ DOMAIN a.buffer = 1 .. L
      /\ BufferSizeForBits(a.bitCount) \in Nat /\ BufferSizeForBits(a.bitCount) <= L
      /\ \A i \in Nat : i < a.bitCount => ByteIndex(i) + 1 \in 1 .. L
      /\ \A b \in 1 .. L : a.buffer[b] \in SUBSET Offsets
  BY ArrayIs DEF HasBytes
<1>2. /\ o.bitCount \in Nat /\ K \in Nat
      /\ \A i \in Nat : i < o.bitCount => ByteIndex(i) + 1 \in 1 .. K
  BY ArrayIs
<1>3. r = ClearUnusedBits(Made(c, n))
  BY <1>1 DEF And, Made
<1>4. /\ n \in Nat /\ n <= a.bitCount /\ \A i \in Nat : i < n <=> i < a.bitCount /\ i < o.bitCount
  <2>1. a.bitCount \in Int /\ o.bitCount \in Int
    BY <1>1, <1>2
  <2>2. /\ n \in {a.bitCount, o.bitCount} /\ n <= a.bitCount
        /\ \A k \in Int : k < n <=> k < a.bitCount /\ k < o.bitCount
    BY <2>1, SmallerOfIs
  <2> HIDE DEF n
  <2>3. n \in Nat
    BY <1>1, <1>2, <2>2
  <2>4. \A i \in Nat : i < n <=> i < a.bitCount /\ i < o.bitCount
    BY <2>2
  <2> QED
    BY <2>2, <2>3, <2>4
<1>5. /\ Bytes(c, L)
      /\ \A b \in 1 .. L : b <= K => c[b] = a.buffer[b] \cap o.buffer[b]
  BY <1>1 DEF Bytes
<1>6. \A i \in Nat : /\ TestBit(a, i) <=> i < a.bitCount /\ BitOffset(i) \in a.buffer[ByteIndex(i) + 1]
                     /\ TestBit(o, i) <=> i < o.bitCount /\ BitOffset(i) \in o.buffer[ByteIndex(i) + 1]
  BY DEF TestBit
<1>7. BufferSizeForBits(n) \in Nat /\ BufferSizeForBits(n) <= L
  <2>1. BufferSizeForBits(n) <= BufferSizeForBits(a.bitCount)
    BY <1>1, <1>4, MoreBitsMoreBytes
  <2>2. BufferSizeForBits(n) \in Nat
    BY <1>4, BytesForBits
  <2> QED
    BY <1>1, <2>1, <2>2
<1>8. n = SmallerOf(a.bitCount, o.bitCount)
  OBVIOUS
<1> HIDE DEF L, K, n, c, r
<1>9. /\ Sound(r) /\ r.bitCount = n
      /\ \A i \in Nat : TestBit(r, i) <=> i < n /\ BitOffset(i) \in c[ByteIndex(i) + 1]
  BY <1>1, <1>3, <1>4, <1>5, <1>7, MaskedIs
<1>10. ASSUME NEW i \in Nat PROVE TestBit(r, i) <=> TestBit(a, i) /\ TestBit(o, i)
  <2>0. /\ TestBit(r, i) <=> i < n /\ BitOffset(i) \in c[ByteIndex(i) + 1]
        /\ TestBit(a, i) <=> i < a.bitCount /\ BitOffset(i) \in a.buffer[ByteIndex(i) + 1]
        /\ TestBit(o, i) <=> i < o.bitCount /\ BitOffset(i) \in o.buffer[ByteIndex(i) + 1]
        /\ i < n <=> i < a.bitCount /\ i < o.bitCount
    BY <1>4, <1>6, <1>9
  <2>1. CASE i < n
    <3>1. /\ i < a.bitCount /\ i < o.bitCount
          /\ ByteIndex(i) + 1 \in 1 .. L /\ ByteIndex(i) + 1 \in 1 .. K
      BY <1>1, <1>2, <1>4, <2>1
    <3>2. c[ByteIndex(i) + 1] = a.buffer[ByteIndex(i) + 1] \cap o.buffer[ByteIndex(i) + 1]
      BY <1>2, <1>5, <3>1
    <3> QED
      BY <2>0, <2>1, <3>1, <3>2
  <2>2. CASE ~ (i < n)
    BY <2>0, <2>2
  <2> QED
    BY <2>1, <2>2
<1> QED
  BY <1>8, <1>9, <1>10 DEF r

\* The bits of a resized array before the last byte is masked.
LEMMA BufferResized ==
    ASSUME NEW a, HasBytes(a), NEW n \in Nat, NEW value \in BOOLEAN
    PROVE  LET L == BufferSizeForBits(n)
               c == ResizeBuffer(a.buffer, L, FillByte(value))
           IN /\ L \in Nat /\ Bytes(c, L) /\ HasBytes(Made(c, n)) /\ ~ Surplus(Made(c, n))
              /\ \A i \in Nat :
                   i < n => /\ ByteIndex(i) + 1 \in 1 .. L
                            /\ BitOffset(i) \in c[ByteIndex(i) + 1] <=>
                                 IF ByteIndex(i) + 1 <= Len(a.buffer)
                                 THEN BitOffset(i) \in a.buffer[ByteIndex(i) + 1] ELSE value
<1> DEFINE L == BufferSizeForBits(n)
           c == ResizeBuffer(a.buffer, L, FillByte(value))
           K == Len(a.buffer)
<1>1. L \in Nat /\ BufferSizeForBits(n) <= L
  BY BytesForBits
<1>2. FillByte(value) \in SUBSET Offsets /\ \A o \in Offsets : o \in FillByte(value) <=> value
  BY DEF FillByte
<1>3. K \in Nat /\ \A b \in 1 .. K : a.buffer[b] \in SUBSET Offsets
  BY ArrayIs
<1>4. c = [b \in 1 .. L |-> IF b <= K THEN a.buffer[b] ELSE FillByte(value)]
  BY DEF ResizeBuffer
<1>5. Bytes(c, L) /\ \A b \in 1 .. L : c[b] = IF b <= K THEN a.buffer[b] ELSE FillByte(value)
  BY <1>2, <1>3, <1>4 DEF Bytes
<1>6. L = BufferSizeForBits(n)
  OBVIOUS
<1> HIDE DEF c, L, K
<1>7. HasBytes(Made(c, n)) /\ Made(c, n).buffer = c /\ Made(c, n).bitCount = n /\ Len(c) = L
  BY <1>1, <1>5, ArrayMade
<1>8. ~ Surplus(Made(c, n))
  BY <1>1, <1>6, <1>7 DEF Surplus
<1>9. ASSUME NEW i \in Nat, i < n
      PROVE  /\ ByteIndex(i) + 1 \in 1 .. L
             /\ BitOffset(i) \in c[ByteIndex(i) + 1] <=>
                  IF ByteIndex(i) + 1 <= K THEN BitOffset(i) \in a.buffer[ByteIndex(i) + 1] ELSE value
  <2>1. BitOffset(i) \in Offsets /\ ByteIndex(i) \in Nat /\ ByteIndex(i) + 1 <= L
    BY <1>6, <1>9, ByteOfIndex, BitIsInside
  <2>2. ByteIndex(i) + 1 \in 1 .. L
    BY <1>1, <2>1
  <2> QED
    BY <1>2, <1>5, <2>1, <2>2
<1> QED
  BY <1>1, <1>5, <1>7, <1>8, <1>9 DEF c, L, K

\* A loop that sets every bit of a range.
LEMMA SetAllIs ==
    ASSUME NEW a, HasBytes(a), NEW first, NEW last, NEW value \in BOOLEAN
    PROVE  SetBits(a, first, last, LAMBDA i : value) = SetTo(a, first, last, IF value THEN Nat ELSE {})
<1>1. \A b \in DOMAIN a.buffer : \A o \in Offsets : (b - 1) * ByteBits + o \in Nat
  <2>0. Len(a.buffer) \in Nat /\ DOMAIN a.buffer = 1 .. Len(a.buffer)
    BY ArrayIs
  <2>1. \A b \in DOMAIN a.buffer : b \in Nat \ {0}
    BY <2>0
  <2>2. \A b \in Nat \ {0} : \A o \in Offsets : IndexOfCell(b, o) \in Nat
    BY IndexOfByte
  <2> QED
    BY <2>1, <2>2 DEF IndexOfCell
<1> DEFINE S == IF value THEN Nat ELSE {}
<1>2. \A i \in Nat : i \in S <=> value
  OBVIOUS
<1> HIDE DEF S
<1>3. ASSUME NEW b \in DOMAIN a.buffer
      PROVE  {o \in Offsets : LET i == (b - 1) * ByteBits + o
                              IN IF first <= i /\ i < last /\ i < a.bitCount THEN value ELSE o \in a.buffer[b]}
           = {o \in Offsets : LET i == (b - 1) * ByteBits + o
                              IN IF first <= i /\ i < last /\ i < a.bitCount THEN i \in S ELSE o \in a.buffer[b]}
  BY <1>1, <1>2
<1> QED
  BY <1>3 DEF SetBits, SetTo, S

\* What a new bit of a resized array is: the bytes of a are filled already.
NewBit(a, n, value, i) ==
  value /\ (\/ BufferSizeForBits(a.bitCount) = BufferSizeForBits(n)
            \/ ByteIndex(i) + 1 > BufferSizeForBits(a.bitCount))

\* resize()
LEMMA ResizeIs ==
    ASSUME NEW a, HasBytes(a), NEW n \in Nat, NEW value \in BOOLEAN
    PROVE  LET r == Resize(a, n, value)
           IN /\ Sound(r) /\ ~ Surplus(r) /\ r.bitCount = n
              /\ Sound(a) /\ ~ Surplus(a) =>
                   \A i \in Nat :
                     TestBit(r, i) <=> i < n /\ IF i < a.bitCount THEN TestBit(a, i) ELSE NewBit(a, n, value, i)
<1> DEFINE L == BufferSizeForBits(n)
           K == BufferSizeForBits(a.bitCount)
           c == ResizeBuffer(a.buffer, L, FillByte(value))
           sized == Made(c, n)
           r == Resize(a, n, value)
<1>1. /\ L \in Nat /\ Bytes(c, L) /\ HasBytes(sized) /\ ~ Surplus(sized)
      /\ \A i \in Nat :
           i < n => /\ ByteIndex(i) + 1 \in 1 .. L
                    /\ BitOffset(i) \in c[ByteIndex(i) + 1] <=>
                         IF ByteIndex(i) + 1 <= Len(a.buffer)
                         THEN BitOffset(i) \in a.buffer[ByteIndex(i) + 1] ELSE value
  BY BufferResized
<1>2. a.bitCount \in Nat /\ K \in Nat /\ sized.buffer = c /\ sized.bitCount = n
  BY ArrayIs DEF Made
<1>3. L = BufferSizeForBits(n)
  OBVIOUS
<1>4. CASE n = 0
  <2>1. r = Sized(0, FALSE)
    BY <1>4 DEF Resize, EmptyArray
  <2>2. Sound(r) /\ ~ Surplus(r) /\ r.bitCount = 0 /\ \A i \in Nat : ~ TestBit(r, i)
    <3> HIDE DEF r
    <3> QED
      BY <2>1, UnsetIs
  <2>3. \A i \in Nat : ~ (i < n)
    BY <1>4
  <2> QED
    BY <1>4, <2>2, <2>3
<1>5. CASE n # 0
  <2> DEFINE q == IF GrowsWithin(a, n, value) THEN SetTo(sized, a.bitCount, n, Nat) ELSE sized
  <2>1. r = ClearUnusedBits(q)
    <3>1. SetBits(sized, a.bitCount, n, LAMBDA i : TRUE) = SetTo(sized, a.bitCount, n, Nat)
      BY <1>1, SetAllIs
    <3> QED
      BY <1>5, <3>1 DEF Resize, Made
  <2> HIDE DEF c, L, K, sized, r
  <2>2. /\ HasBytes(q) /\ q.bitCount = n /\ Len(q.buffer) = Len(sized.buffer)
        /\ \A i \in Nat : TestBit(q, i) <=> IF GrowsWithin(a, n, value) /\ a.bitCount <= i /\ i < n
                                             THEN TRUE ELSE TestBit(sized, i)
    <3>1. CASE GrowsWithin(a, n, value)
      <4>1. q = SetTo(sized, a.bitCount, n, Nat)
        BY <3>1
      <4> HIDE DEF q
      <4>2. /\ HasBytes(q) /\ q.bitCount = sized.bitCount /\ Len(q.buffer) = Len(sized.buffer)
            /\ \A i \in Nat :
                 TestBit(q, i) <=> IF a.bitCount <= i /\ i < n /\ i < sized.bitCount THEN i \in Nat ELSE TestBit(sized, i)
        BY <1>1, <1>2, <4>1, SetToIs
      <4> QED
        BY <1>2, <3>1, <4>2
    <3>2. CASE ~ GrowsWithin(a, n, value)
      BY <1>1, <1>2, <3>2
    <3> QED
      BY <3>1, <3>2
  <2> HIDE DEF q
  <2>3. /\ Sound(r) /\ r.bitCount = n /\ Len(r.buffer) = Len(sized.buffer)
        /\ \A i \in Nat : TestBit(r, i) <=> TestBit(q, i)
    BY <2>1, <2>2, UnusedCleared
  <2>4. ~ Surplus(r)
    BY <1>1, <1>2, <2>3 DEF Surplus
  <2>5. ASSUME Sound(a), ~ Surplus(a), NEW i \in Nat
        PROVE  TestBit(r, i) <=> i < n /\ IF i < a.bitCount THEN TestBit(a, i) ELSE NewBit(a, n, value, i)
    <3> DEFINE b == ByteIndex(i) + 1
    <3>1. TestBit(sized, i) <=> i < n /\ BitOffset(i) \in c[b]
      BY <1>2 DEF TestBit
    <3>2. Len(a.buffer) = K /\ (b \in 1 .. K => (BitOffset(i) \in a.buffer[b] <=> TestBit(a, i)))
      BY <2>5, ClearReads DEF K
    <3>3. b \in Nat \ {0} /\ (i < a.bitCount => b <= K)
      BY <1>2, ByteOfIndex, BitIsInside DEF K
    <3>4. ASSUME i < n PROVE TestBit(sized, i) <=> IF b <= K THEN TestBit(a, i) ELSE value
      BY <1>1, <1>2, <3>1, <3>2, <3>3, <3>4
    <3>5. TestBit(r, i) <=> i < n /\ IF GrowsWithin(a, n, value) /\ a.bitCount <= i
                                     THEN TRUE ELSE IF b <= K THEN TestBit(a, i) ELSE value
      BY <2>2, <2>3, <3>1, <3>4
    <3>6. TestBit(a, i) => i < a.bitCount
      BY DEF TestBit
    <3>7. NewBit(a, n, value, i) <=> value /\ (K = L \/ b > K)
      BY <1>3 DEF NewBit, K
    <3>8. GrowsWithin(a, n, value) <=> n > a.bitCount /\ value /\ K = L /\ a.bitCount > 0
      BY <1>3 DEF GrowsWithin, K
    <3>9. a.bitCount = 0 => K = 0
      BY BytesForBits DEF K
    <3>10. i < n => b <= L
      BY <1>3, BitIsInside
    <3> HIDE DEF b
    <3> QED
      BY <1>1, <1>2, <3>3, <3>5, <3>6, <3>7, <3>8, <3>9, <3>10
  <2> QED
    BY <2>3, <2>4, <2>5 DEF r
<1> QED
  BY <1>4, <1>5

\* fill() of a range
LEMMA FillRangeIs ==
    ASSUME NEW a, Sound(a), NEW value \in BOOLEAN, NEW start \in Nat, NEW amount \in Nat
    PROVE  Sound(FillRange(a, value, start, amount)) /\ FillRange(a, value, start, amount).bitCount = a.bitCount
<1> DEFINE finish == EndOfRange(start, amount, a.bitCount)
           S == IF value THEN Nat ELSE {}
<1>1. HasBytes(a) /\ a.bitCount \in Nat
  BY ArrayIs DEF Sound
<1>2. (start + amount) % SizeLimit \in Int
  BY LayoutAssumption
<1>3. finish \in Int
  BY <1>1, <1>2, SmallerOfIs DEF EndOfRange
<1>4. CASE start >= a.bitCount
  BY <1>4 DEF FillRange
<1>5. CASE ~ (start >= a.bitCount)
  <2>1. FillRange(a, value, start, amount) = SetBits(a, start, finish, LAMBDA i : value)
    BY <1>5 DEF FillRange
  <2>2. SetBits(a, start, finish, LAMBDA i : value) = SetTo(a, start, finish, S)
    BY <1>1, SetAllIs
  <2> HIDE DEF finish, S
  <2>3. Sound(SetTo(a, start, finish, S)) /\ SetTo(a, start, finish, S).bitCount = a.bitCount
    BY <1>1, <1>3, SetToIs
  <2> QED
    BY <2>1, <2>2, <2>3
<1> QED
  BY <1>4, <1>5

\* The operand of |= and ^=, made as long as the other.
Wide(a, o) == IF o.bitCount > a.bitCount THEN Resize(a, o.bitCount, FALSE) ELSE a

LEMMA WideIs ==
    ASSUME NEW a, HasBytes(a), NEW o, HasBytes(o)
    PROVE  LET w == Wide(a, o)
           IN /\ HasBytes(w) /\ o.bitCount <= w.bitCount
              /\ w.bitCount = IF o.bitCount > a.bitCount THEN o.bitCount ELSE a.bitCount
              /\ Sound(a) /\ ~ Surplus(a) =>
                   Sound(w) /\ ~ Surplus(w) /\ \A i \in Nat : TestBit(w, i) <=> TestBit(a, i)
<1>1. a.bitCount \in Nat /\ o.bitCount \in Nat
  BY ArrayIs
<1>2. CASE o.bitCount > a.bitCount
  <2>1. PICK value \in BOOLEAN : value = FALSE
    OBVIOUS
  <2> DEFINE n == o.bitCount
             w == Resize(a, n, value)
  <2>2. n \in Nat /\ n > a.bitCount /\ w = Wide(a, o)
    BY <1>1, <1>2, <2>1 DEF Wide
  <2>3. n = o.bitCount
    OBVIOUS
  <2> HIDE DEF n
  <2>4. /\ Sound(w) /\ ~ Surplus(w) /\ w.bitCount = n
        /\ Sound(a) /\ ~ Surplus(a) =>
             \A i \in Nat :
               TestBit(w, i) <=> i < n /\ IF i < a.bitCount THEN TestBit(a, i) ELSE NewBit(a, n, value, i)
    BY <2>2, ResizeIs
  <2>5. \A i : ~ NewBit(a, n, value, i)
    BY <2>1 DEF NewBit
  <2>6. \A i \in Nat : TestBit(a, i) => i < a.bitCount
    BY DEF TestBit
  <2> HIDE DEF w
  <2>7. \A i \in Nat : TestBit(a, i) => i < n
    BY <1>1, <2>2, <2>6
  <2>8. Sound(a) /\ ~ Surplus(a) => \A i \in Nat : TestBit(w, i) <=> TestBit(a, i)
    BY <2>4, <2>5, <2>6, <2>7
  <2> QED
    BY <1>1, <1>2, <2>2, <2>3, <2>4, <2>8 DEF Sound
<1>3. CASE ~ (o.bitCount > a.bitCount)
  BY <1>1, <1>3 DEF Wide
<1> QED
  BY <1>2, <1>3

\* operator|= and operator^=
LEMMA JoinIs ==
    ASSUME NEW a, HasBytes(a), NEW o, HasBytes(o)
    PROVE  LET r == Or(a, o)
               x == Xor(a, o)
           IN /\ Sound(r) /\ r.bitCount = Wide(a, o).bitCount
              /\ Sound(x) /\ x.bitCount = Wide(a, o).bitCount
              /\ Sound(a) /\ ~ Surplus(a) /\ Sound(o) /\ ~ Surplus(o) =>
                   \A i \in Nat : /\ TestBit(r, i) <=> TestBit(a, i) \/ TestBit(o, i)
                                  /\ TestBit(x, i) <=> (TestBit(a, i) <=> ~ TestBit(o, i))
<1> DEFINE w == Wide(a, o)
           L == Len(w.buffer)
           K == Len(o.buffer)
           n == w.bitCount
           c == [b \in 1 .. L |-> IF b <= K THEN w.buffer[b] \cup o.buffer[b] ELSE w.buffer[b]]
           d == [b \in 1 .. L |-> IF b <= K THEN BitsXor(w.buffer[b], o.buffer[b]) ELSE w.buffer[b]]
           r == Or(a, o)
           x == Xor(a, o)
<1>1. /\ HasBytes(w) /\ o.bitCount <= n
      /\ Sound(a) /\ ~ Surplus(a) =>
           Sound(w) /\ ~ Surplus(w) /\ \A i \in Nat : TestBit(w, i) <=> TestBit(a, i)
  BY WideIs
<1> HIDE DEF w
<1>2. /\ n \in Nat /\ L \in Nat /\ DOMAIN w.buffer = 1 .. L /\ BufferSizeForBits(n) <= L
      /\ \A i \in Nat : i < n => ByteIndex(i) + 1 \in 1 .. L
      /\ \A b \in 1 .. L : w.buffer[b] \in SUBSET Offsets
  BY <1>1, ArrayIs DEF HasBytes
<1>3. /\ K \in Nat /\ o.bitCount \in Nat /\ \A b \in 1 .. K : o.buffer[b] \in SUBSET Offsets
      /\ \A i \in Nat : i < o.bitCount => ByteIndex(i) + 1 \in 1 .. K
  BY ArrayIs
<1>4. \A y : [w EXCEPT !.buffer = y] = Made(y, n)
  <2>1. w \in [buffer : Seq(SUBSET Offsets), bitCount : Nat]
    BY <1>1 DEF HasBytes, ArrayRecord
  <2>2. w = [buffer |-> w.buffer, bitCount |-> w.bitCount]
    BY <2>1
  <2>3. \A y : [w EXCEPT !.buffer = y] = [buffer |-> y, bitCount |-> w.bitCount]
    BY <2>2
  <2> QED
    BY <2>3 DEF Made
<1>5. r = ClearUnusedBits(Made(c, n)) /\ x = ClearUnusedBits(Made(d, n))
  <2>1. Or(a, o) = ClearUnusedBits([w EXCEPT !.buffer = c])
    BY <1>2 DEF Or, Combine, Wide, w
  <2>2. Xor(a, o) = ClearUnusedBits([w EXCEPT !.buffer = d])
    BY <1>2 DEF Xor, Combine, Wide, w
  <2> QED
    BY <1>4, <2>1, <2>2
<1>6. /\ Bytes(c, L)
      /\ \A b \in 1 .. L : c[b] = IF b <= K THEN w.buffer[b] \cup o.buffer[b] ELSE w.buffer[b]
  BY <1>2, <1>3 DEF Bytes
<1>7. /\ Bytes(d, L)
      /\ \A b \in 1 .. L : d[b] = IF b <= K THEN BitsXor(w.buffer[b], o.buffer[b]) ELSE w.buffer[b]
  BY <1>2, <1>3 DEF Bytes, BitsXor
<1> HIDE DEF L, K, n, c, d, r, x
<1>8. /\ Sound(r) /\ r.bitCount = n
      /\ \A i \in Nat : TestBit(r, i) <=> i < n /\ BitOffset(i) \in c[ByteIndex(i) + 1]
  BY <1>2, <1>5, <1>6, MaskedIs
<1>9. /\ Sound(x) /\ x.bitCount = n
      /\ \A i \in Nat : TestBit(x, i) <=> i < n /\ BitOffset(i) \in d[ByteIndex(i) + 1]
  BY <1>2, <1>5, <1>7, MaskedIs
<1>10. ASSUME Sound(a), ~ Surplus(a), Sound(o), ~ Surplus(o), NEW i \in Nat
       PROVE  /\ TestBit(r, i) <=> TestBit(a, i) \/ TestBit(o, i)
              /\ TestBit(x, i) <=> (TestBit(a, i) <=> ~ TestBit(o, i))
  <2> DEFINE b == ByteIndex(i) + 1
  <2>1. TestBit(w, i) <=> TestBit(a, i)
    BY <1>1, <1>10
  <2>2. (TestBit(w, i) => i < n) /\ (TestBit(o, i) => i < o.bitCount)
    BY DEF TestBit, n
  <2>3. b \in 1 .. K => (BitOffset(i) \in o.buffer[b] <=> TestBit(o, i))
    BY <1>10, ClearReads DEF K
  <2>4. b \in Nat \ {0}
    BY ByteOfIndex
  <2>5. CASE i < n
    <3>1. b \in 1 .. L /\ (TestBit(w, i) <=> BitOffset(i) \in w.buffer[b])
      BY <1>2, <2>5 DEF TestBit, n
    <3>2. /\ TestBit(r, i) <=> BitOffset(i) \in c[b]
          /\ TestBit(x, i) <=> BitOffset(i) \in d[b]
      BY <1>8, <1>9, <2>5
    <3>3. TestBit(o, i) => b \in 1 .. K
      BY <1>3, <2>2
    <3> HIDE DEF b
    <3>4. CASE b <= K
      <4>1. BitOffset(i) \in o.buffer[b] <=> TestBit(o, i)
        BY <1>3, <2>3, <2>4, <3>4
      <4>2. c[b] = w.buffer[b] \cup o.buffer[b] /\ d[b] = BitsXor(w.buffer[b], o.buffer[b])
        BY <1>6, <1>7, <3>1, <3>4
      <4> QED
        BY <2>1, <3>1, <3>2, <4>1, <4>2 DEF BitsXor
    <3>5. CASE ~ (b <= K)
      <4>1. ~ TestBit(o, i)
        BY <1>3, <2>4, <3>3, <3>5
      <4>2. c[b] = w.buffer[b] /\ d[b] = w.buffer[b]
        BY <1>6, <1>7, <3>1, <3>5
      <4> QED
        BY <2>1, <3>1, <3>2, <4>1, <4>2
    <3> QED
      BY <3>4, <3>5
  <2>6. CASE ~ (i < n)
    <3>1. ~ TestBit(w, i) /\ ~ TestBit(o, i)
      BY <1>1, <1>2, <1>3, <2>2, <2>6 DEF n
    <3> QED
      BY <1>8, <1>9, <2>1, <2>6, <3>1
  <2> QED
    BY <2>5, <2>6
<1> QED
  BY <1>8, <1>9, <1>10 DEF r, x, n, w

\* fromVec()
LEMMA FromVecIs ==
    ASSUME NEW s, NEW n \in Nat, s \in [1 .. n -> BOOLEAN]
    PROVE  LET r == FromVec(s)
           IN /\ Sound(r) /\ ~ Surplus(r) /\ r.bitCount = n
              /\ \A i \in Nat : TestBit(r, i) <=> i < n /\ s[i + 1]
<1> DEFINE a == Sized(n, FALSE)
           S == {i \in Nat : s[i + 1]}
           r == FromVec(s)
<1>1. Len(s) = n
  BY CellsAreSeq
<1>2. Sound(a) /\ ~ Surplus(a) /\ a.bitCount = n /\ \A i \in Nat : ~ TestBit(a, i)
  BY UnsetIs
<1>3. HasBytes(a) /\ Len(a.buffer) \in Nat /\ DOMAIN a.buffer = 1 .. Len(a.buffer)
  BY <1>2, ArrayIs DEF Sound
<1>4. r = SetBits(a, 0, n, LAMBDA i : s[i + 1])
  BY <1>1 DEF FromVec
<1> HIDE DEF a
<1>5. r = SetTo(a, 0, n, S)
  <2>1. \A b \in DOMAIN a.buffer : \A o \in Offsets : (b - 1) * ByteBits + o \in Nat
    <3>1. \A b \in DOMAIN a.buffer : b \in Nat \ {0}
      BY <1>3
    <3> QED
      BY <3>1, IndexOfByte DEF IndexOfCell
  <2>2. \A i \in Nat : i \in S <=> s[i + 1]
    OBVIOUS
  <2> HIDE DEF S
  <2>3. ASSUME NEW b \in DOMAIN a.buffer
        PROVE  {o \in Offsets : LET i == (b - 1) * ByteBits + o
                                IN IF 0 <= i /\ i < n /\ i < a.bitCount THEN s[i + 1] ELSE o \in a.buffer[b]}
             = {o \in Offsets : LET i == (b - 1) * ByteBits + o
                                IN IF 0 <= i /\ i < n /\ i < a.bitCount THEN i \in S ELSE o \in a.buffer[b]}
    BY <2>1, <2>2
  <2> QED
    BY <1>4, <2>3 DEF SetBits, SetTo
<1> HIDE DEF S, r
<1>6. /\ HasBytes(r) /\ r.bitCount = a.bitCount /\ Len(r.buffer) = Len(a.buffer)
      /\ \A i \in Nat : TestBit(r, i) <=> IF 0 <= i /\ i < n /\ i < a.bitCount THEN i \in S ELSE TestBit(a, i)
      /\ Sound(a) => Sound(r)
  BY <1>3, <1>5, SetToIs
<1>7. ~ Surplus(r)
  BY <1>2, <1>6 DEF Surplus
<1>8. \A i \in Nat : TestBit(r, i) <=> i < n /\ s[i + 1]
  BY <1>2, <1>6 DEF S
<1> QED
  BY <1>2, <1>6, <1>7, <1>8 DEF r

\* clear()
LEMMA EmptyIs ==
    Sound(EmptyArray) /\ ~ Surplus(EmptyArray) /\ EmptyArray.bitCount = 0 /\ \A i \in Nat : ~ TestBit(EmptyArray, i)
<1>1. 0 \in Nat
  OBVIOUS
<1>2. LET r == Sized(0, FALSE)
      IN Sound(r) /\ ~ Surplus(r) /\ r.bitCount = 0 /\ \A i \in Nat : ~ TestBit(r, i)
  BY <1>1, UnsetIs
<1>3. EmptyArray = Sized(0, FALSE)
  BY DEF EmptyArray
<1> QED
  BY <1>2, <1>3

\* mid(): the bits from start, no more than there are.
LEMMA MidIs ==
    ASSUME NEW a, HasBytes(a), NEW start \in Nat, NEW amount \in Nat
    PROVE  LET r == Mid(a, start, amount)
               most == a.bitCount - start
           IN /\ Sound(r) /\ ~ Surplus(r)
              /\ r.bitCount = IF start >= a.bitCount THEN 0
                              ELSE IF amount = npos THEN most ELSE SmallerOf(amount, most)
              /\ \A i \in Nat : TestBit(r, i) <=> i < r.bitCount /\ TestBit(a, start + i)
<1> DEFINE r == Mid(a, start, amount)
           most == a.bitCount - start
           n == IF amount = npos THEN most ELSE SmallerOf(amount, most)
           e == Sized(n, FALSE)
           S == {i \in Nat : TestBit(a, start + i)}
<1>1. a.bitCount \in Nat
  BY ArrayIs
<1>2. CASE start >= a.bitCount
  <2>1. r = EmptyArray
    BY <1>2 DEF Mid
  <2> HIDE DEF r
  <2>2. Sound(r) /\ ~ Surplus(r) /\ r.bitCount = 0 /\ \A i \in Nat : ~ TestBit(r, i)
    BY <2>1, EmptyIs
  <2> QED
    BY <1>2, <2>2 DEF r
<1>3. CASE ~ (start >= a.bitCount)
  <2>1. most \in Nat /\ n \in Nat
    <3>1. most \in Nat
      BY <1>1, <1>3
    <3> QED
      BY <3>1 DEF SmallerOf
  <2>2. r = SetBits(e, 0, n, LAMBDA i : TestBit(a, start + i))
    BY <1>3 DEF Mid
  <2> HIDE DEF n
  <2>3. Sound(e) /\ ~ Surplus(e) /\ e.bitCount = n /\ \A i \in Nat : ~ TestBit(e, i)
    BY <2>1, UnsetIs
  <2>4. HasBytes(e) /\ Len(e.buffer) \in Nat /\ DOMAIN e.buffer = 1 .. Len(e.buffer)
    BY <2>3, ArrayIs DEF Sound
  <2> HIDE DEF e
  <2>5. r = SetTo(e, 0, n, S)
    <3>1. \A b \in DOMAIN e.buffer : \A o \in Offsets : (b - 1) * ByteBits + o \in Nat
      <4>1. \A b \in DOMAIN e.buffer : b \in Nat \ {0}
        BY <2>4
      <4> QED
        BY <4>1, IndexOfByte DEF IndexOfCell
    <3>2. \A i \in Nat : i \in S <=> TestBit(a, start + i)
      OBVIOUS
    <3> HIDE DEF S
    <3>3. ASSUME NEW b \in DOMAIN e.buffer
          PROVE  {o \in Offsets : LET i == (b - 1) * ByteBits + o
                                  IN IF 0 <= i /\ i < n /\ i < e.bitCount THEN TestBit(a, start + i)
                                     ELSE o \in e.buffer[b]}
               = {o \in Offsets : LET i == (b - 1) * ByteBits + o
                                  IN IF 0 <= i /\ i < n /\ i < e.bitCount THEN i \in S ELSE o \in e.buffer[b]}
      BY <3>1, <3>2
    <3> QED
      BY <2>2, <3>3 DEF SetBits, SetTo
  <2> HIDE DEF S, r
  <2>6. /\ HasBytes(r) /\ r.bitCount = e.bitCount /\ Len(r.buffer) = Len(e.buffer)
        /\ \A i \in Nat : TestBit(r, i) <=> IF 0 <= i /\ i < n /\ i < e.bitCount THEN i \in S ELSE TestBit(e, i)
        /\ Sound(e) => Sound(r)
    <3>1. 0 \in Int /\ n \in Int
      BY <2>1
    <3> QED
      BY <2>4, <2>5, <3>1, SetToIs
  <2>7. ~ Surplus(r)
    BY <2>3, <2>6 DEF Surplus
  <2>8. \A i \in Nat : TestBit(r, i) <=> i < n /\ TestBit(a, start + i)
    BY <2>3, <2>6 DEF S
  <2>9. r.bitCount = n /\ Sound(r)
    BY <2>3, <2>6
  <2> QED
    BY <1>3, <2>7, <2>8, <2>9 DEF r, n
<1> QED
  BY <1>2, <1>3

\* left() and right() return what mid() does, or the array.
LEMMA EndsAre ==
    ASSUME NEW a, Sound(a), NEW amount \in Nat, NEW start \in Nat,
           NEW r \in {Mid(a, start, amount), Left(a, amount), Right(a, amount)}
    PROVE  Sound(r) /\ r.bitCount <= a.bitCount
<1>1. HasBytes(a) /\ a.bitCount \in Nat
  BY ArrayIs DEF Sound
<1>2. ASSUME NEW first \in Nat PROVE Sound(Mid(a, first, amount)) /\ Mid(a, first, amount).bitCount <= a.bitCount
  <2> DEFINE m == Mid(a, first, amount)
             most == a.bitCount - first
  <2>1. /\ Sound(m)
        /\ m.bitCount = IF first >= a.bitCount THEN 0
                        ELSE IF amount = npos THEN most ELSE SmallerOf(amount, most)
    BY <1>1, MidIs
  <2> HIDE DEF m
  <2>2. most \in Int /\ most <= a.bitCount /\ 0 <= a.bitCount
    BY <1>1
  <2> HIDE DEF most
  <2>3. SmallerOf(amount, most) <= most /\ SmallerOf(amount, most) \in {amount, most}
    BY <2>2, SmallerOfIs
  <2>4. m.bitCount <= a.bitCount
    BY <1>1, <2>1, <2>2, <2>3
  <2> QED
    BY <2>1, <2>4 DEF m
<1>3. Sound(EmptyArray) /\ EmptyArray.bitCount <= a.bitCount
  BY <1>1, EmptyIs
<1>4. Left(a, amount) \in {EmptyArray, a, Mid(a, 0, amount)}
  BY DEF Left
<1>5. ~ (amount >= a.bitCount) => a.bitCount - amount \in Nat
  BY <1>1
<1>6. Right(a, amount) \in {EmptyArray, a} \/ (a.bitCount - amount \in Nat /\ Right(a, amount) = Mid(a, a.bitCount - amount, amount))
  BY <1>5 DEF Right
<1>7. a.bitCount <= a.bitCount /\ 0 \in Nat
  BY <1>1
<1>8. CASE r = Mid(a, start, amount)
  BY <1>2, <1>8
<1>9. CASE r = Left(a, amount)
  BY <1>2, <1>3, <1>4, <1>7, <1>9
<1>10. CASE r = Right(a, amount)
  BY <1>2, <1>3, <1>6, <1>7, <1>10
<1> QED
  BY <1>8, <1>9, <1>10

\* The arrays of a caller.
LEMMA OperandIs ==
    ASSUME NEW o \in Operands, Sound(array), array.bitCount <= MaxBits
    PROVE  Sound(o) /\ o.bitCount <= MaxBits /\ (o # array => ~ Surplus(o))
<1>1. CASE o = array
  BY <1>1
<1>2. CASE o # array
  <2>1. PICK s \in BitStrings(MaxBits) : o = FromVec(s)
    BY <1>2 DEF Operands
  <2>2. PICK n \in 0 .. MaxBits : s \in [1 .. n -> BOOLEAN]
    BY <2>1 DEF BitStrings
  <2>3. n \in Nat /\ n <= MaxBits
    BY <2>2, ArrayAssumption, LayoutAssumption DEF npos
  <2>4. Sound(o) /\ ~ Surplus(o) /\ o.bitCount = n
    BY <2>1, <2>2, <2>3, FromVecIs
  <2> QED
    BY <2>3, <2>4
<1> QED
  BY <1>1, <1>2

\* Between the calls the array has its bytes and nothing in the padding.
ArrayInv == Sound(array) /\ array.bitCount <= MaxBits

LEMMA EveryCallIsSound ==
    ASSUME ArrayInv, ArrayNext
    PROVE  ArrayInv'
<1>1. /\ MaxBits \in Nat /\ npos \in Nat
      /\ \A i \in 0 .. MaxBits : i \in Nat /\ i <= MaxBits
      /\ SizesOf(MaxBits) \subseteq Nat
  BY ArrayAssumption, LayoutAssumption DEF npos, SizesOf
<1>2. Sound(array) /\ HasBytes(array) /\ array.bitCount \in Nat /\ array.bitCount <= MaxBits
  BY ArrayIs DEF ArrayInv, Sound
<1>3. ASSUME NEW r, array' = r, Sound(r), r.bitCount <= MaxBits PROVE ArrayInv'
  BY <1>3 DEF ArrayInv, Sound, HasBytes, IsClear, Surplus
<1>4. CASE ArrayResize
  <2>1. PICK n \in 0 .. MaxBits, v \in BOOLEAN : array' = Resize(array, n, v)
    BY <1>4 DEF ArrayResize
  <2>2. Sound(Resize(array, n, v)) /\ Resize(array, n, v).bitCount = n
    BY <1>1, <1>2, ResizeIs
  <2> QED
    BY <1>1, <1>3, <2>1, <2>2
<1>5. CASE ArrayClear
  <2>1. Sound(EmptyArray) /\ EmptyArray.bitCount <= MaxBits
    BY <1>1, EmptyIs
  <2> QED
    BY <1>3, <1>5, <2>1 DEF ArrayClear
<1>6. CASE ArrayAssign
  BY <1>2, <1>3, <1>6, OperandIs DEF ArrayAssign
<1>7. CASE ArraySetBit
  <2>1. PICK i \in 0 .. MaxBits, v \in BOOLEAN : array' = SetBit(array, i, v)
    BY <1>7 DEF ArraySetBit
  <2>2. SetBit(array, i, v) \in {SetBit(array, i, v), ToggleBit(array, i)}
    OBVIOUS
  <2>3. Sound(SetBit(array, i, v)) /\ SetBit(array, i, v).bitCount = array.bitCount
    BY <1>1, <1>2, <2>2, PutIs
  <2> QED
    BY <1>2, <1>3, <2>1, <2>3
<1>8. CASE ArrayToggleBit
  <2>1. PICK i \in 0 .. MaxBits : array' = ToggleBit(array, i)
    BY <1>8 DEF ArrayToggleBit
  <2>2. PICK v \in BOOLEAN : ToggleBit(array, i) \in {SetBit(array, i, v), ToggleBit(array, i)}
    OBVIOUS
  <2>3. Sound(ToggleBit(array, i)) /\ ToggleBit(array, i).bitCount = array.bitCount
    BY <1>1, <1>2, <2>2, PutIs
  <2> QED
    BY <1>2, <1>3, <2>1, <2>3
<1>9. CASE ArrayFill
  <2>1. PICK v \in BOOLEAN : array' = Fill(array, v)
    BY <1>9 DEF ArrayFill
  <2>2. Sound(Fill(array, v)) /\ Fill(array, v).bitCount = array.bitCount
    BY <1>2, EveryByte
  <2> QED
    BY <1>2, <1>3, <2>1, <2>2
<1>10. CASE ArrayFillRange
  <2>1. PICK v \in BOOLEAN, start \in 0 .. MaxBits, many \in SizesOf(MaxBits) :
          array' = FillRange(array, v, start, many)
    BY <1>10 DEF ArrayFillRange
  <2>2. start \in Nat /\ many \in Nat
    BY <1>1
  <2>3. Sound(FillRange(array, v, start, many)) /\ FillRange(array, v, start, many).bitCount = array.bitCount
    BY <1>2, <2>2, FillRangeIs
  <2> QED
    BY <1>2, <1>3, <2>1, <2>3
<1>11. CASE ArrayAnd
  <2>1. PICK o \in Operands : array' = And(array, o)
    BY <1>11 DEF ArrayAnd
  <2>2. HasBytes(o) /\ o.bitCount \in Nat
    BY <1>2, OperandIs, ArrayIs DEF Sound
  <2>3. Sound(And(array, o)) /\ And(array, o).bitCount = SmallerOf(array.bitCount, o.bitCount)
    BY <1>2, <2>2, AndIs
  <2>4. SmallerOf(array.bitCount, o.bitCount) <= MaxBits
    BY <1>1, <1>2, <2>2 DEF SmallerOf
  <2> QED
    BY <1>3, <2>1, <2>3, <2>4
<1>12. CASE ArrayOr \/ ArrayXor
  <2>1. PICK o \in Operands : array' \in {Or(array, o), Xor(array, o)}
    BY <1>12 DEF ArrayOr, ArrayXor
  <2>2. HasBytes(o) /\ o.bitCount \in Nat /\ o.bitCount <= MaxBits
    BY <1>2, OperandIs, ArrayIs DEF Sound
  <2>3. Wide(array, o).bitCount <= MaxBits
    BY <1>1, <1>2, <2>2, WideIs
  <2>4. /\ Sound(Or(array, o)) /\ Or(array, o).bitCount = Wide(array, o).bitCount
        /\ Sound(Xor(array, o)) /\ Xor(array, o).bitCount = Wide(array, o).bitCount
    BY <1>2, <2>2, JoinIs
  <2> QED
    BY <1>3, <2>1, <2>3, <2>4
<1>13. CASE ArrayNot
  <2>1. PICK v \in BOOLEAN : v = FALSE
    OBVIOUS
  <2>2. Sound(Not(array)) /\ Not(array).bitCount = array.bitCount
    BY <1>2, <2>1, EveryByte
  <2> QED
    BY <1>2, <1>3, <1>13, <2>2 DEF ArrayNot
<1>14. CASE ArrayMid
  <2>1. PICK start \in 0 .. MaxBits, many \in SizesOf(MaxBits) :
          array' \in {Mid(array, start, many), Left(array, many), Right(array, many)}
    BY <1>14 DEF ArrayMid
  <2>2. Sound(array') /\ array'.bitCount <= array.bitCount
    BY <1>1, <1>2, <2>1, EndsAre
  <2>3. array'.bitCount \in Nat
    BY <2>2, ArrayIs DEF Sound
  <2>4. array'.bitCount <= MaxBits
    BY <1>1, <1>2, <2>2, <2>3
  <2> QED
    BY <1>3, <2>2, <2>4
<1> QED
  BY <1>4, <1>5, <1>6, <1>7, <1>8, <1>9, <1>10, <1>11, <1>12, <1>13, <1>14 DEF ArrayNext

LEMMA ArrayStarts == ArrayInit => ArrayInv
<1>1. SUFFICES ASSUME NEW n \in 0 .. MaxBits, NEW v \in BOOLEAN, array = Sized(n, v) PROVE ArrayInv
  BY DEF ArrayInit
<1>2. n \in Nat /\ n <= MaxBits
  BY ArrayAssumption, LayoutAssumption DEF npos
<1>3. Sound(Sized(n, v)) /\ Sized(n, v).bitCount = n
  BY <1>2, SizedIs
<1> QED
  BY <1>1, <1>2, <1>3 DEF ArrayInv

LEMMA ArraySteps == ArrayInv /\ [ArrayNext]_array => ArrayInv'
<1>1. ArrayInv /\ UNCHANGED array => ArrayInv'
  BY DEF ArrayInv, Sound, HasBytes, IsClear, Surplus
<1> QED
  BY <1>1, EveryCallIsSound

\* A BitArray has the bytes its bits need, within the greatest size.
THEOREM ArrayInvHolds == ArraySpec => []ArrayInv
<1>1. ArrayInit => ArrayInv
  BY ArrayStarts
<1>2. ArrayInv /\ [ArrayNext]_array => ArrayInv'
  BY ArraySteps
<1> QED
  BY <1>1, <1>2, PTL DEF ArraySpec

\* The padding of the last byte is clear after any sequence of calls.
THEOREM PaddingIsAlwaysClear == ArraySpec => []PaddingIsClear
<1>1. ArrayInv => PaddingIsClear
  BY DEF ArrayInv, Sound, HasBytes, IsClear, PaddingIsClear
<1> QED
  BY <1>1, ArrayInvHolds, PTL

\* toVec(): as many values as there are bits.
LEMMA BitsOf ==
    ASSUME NEW a, HasBytes(a)
    PROVE  /\ ToVec(a) \in [1 .. a.bitCount -> BOOLEAN]
           /\ Len(ToVec(a)) = a.bitCount /\ DOMAIN ToVec(a) = 1 .. a.bitCount
           /\ \A k \in 1 .. a.bitCount : k - 1 \in Nat /\ k - 1 < a.bitCount /\ (ToVec(a)[k] <=> TestBit(a, k - 1))
<1>1. a.bitCount \in Nat
  BY ArrayIs
<1>2. \A i : TestBit(a, i) \in BOOLEAN
  BY DEF TestBit
<1>3. ToVec(a) = [k \in 1 .. a.bitCount |-> TestBit(a, k - 1)]
  BY DEF ToVec
<1>4. ToVec(a) \in [1 .. a.bitCount -> BOOLEAN]
  BY <1>2, <1>3
<1>5. \A k \in 1 .. a.bitCount : k - 1 \in Nat /\ k - 1 < a.bitCount /\ (ToVec(a)[k] <=> TestBit(a, k - 1))
  BY <1>1, <1>3
<1> QED
  BY <1>1, <1>4, <1>5, CellsAreSeq

\* An array shows a string when each of its bits does.
LEMMA Shows ==
    ASSUME NEW a, NEW n, a.bitCount = n, NEW t, t = [k \in 1 .. n |-> t[k]],
           \A k \in 1 .. n : t[k] \in BOOLEAN /\ (TestBit(a, k - 1) <=> t[k])
    PROVE  ToVec(a) = t
<1>1. \A i : TestBit(a, i) \in BOOLEAN
  BY DEF TestBit
<1>2. \A k \in 1 .. n : TestBit(a, k - 1) = t[k]
  BY <1>1
<1>3. ToVec(a) = [k \in 1 .. n |-> t[k]]
  BY <1>2 DEF ToVec
<1> QED
  BY <1>3

LEMMA SameBits ==
    ASSUME NEW a, HasBytes(a), NEW o, HasBytes(o), a.bitCount = o.bitCount
    PROVE  ToVec(a) = ToVec(o) <=> \A i \in Nat : i < a.bitCount => (TestBit(a, i) <=> TestBit(o, i))
<1> DEFINE n == a.bitCount
<1>1. n \in Nat
  BY ArrayIs
<1>2. /\ \A k \in 1 .. n : k - 1 \in Nat /\ k - 1 < n /\ (ToVec(a)[k] <=> TestBit(a, k - 1))
      /\ \A k \in 1 .. n : (ToVec(o)[k] <=> TestBit(o, k - 1))
      /\ ToVec(a) \in [1 .. n -> BOOLEAN] /\ ToVec(o) \in [1 .. n -> BOOLEAN]
  BY BitsOf
<1> HIDE DEF n
<1>3. ASSUME ToVec(a) = ToVec(o), NEW i \in Nat, i < n PROVE TestBit(a, i) <=> TestBit(o, i)
  <2>1. i + 1 \in 1 .. n /\ i + 1 - 1 = i
    BY <1>1, <1>3
  <2> QED
    BY <1>2, <1>3, <2>1
<1>4. ASSUME \A i \in Nat : i < n => (TestBit(a, i) <=> TestBit(o, i)) PROVE ToVec(a) = ToVec(o)
  <2>1. \A k \in 1 .. n : ToVec(a)[k] <=> ToVec(o)[k]
    BY <1>2, <1>4
  <2>2. \A k \in 1 .. n : ToVec(a)[k] \in BOOLEAN /\ ToVec(o)[k] \in BOOLEAN
    BY <1>2
  <2>3. \A k \in 1 .. n : ToVec(a)[k] = ToVec(o)[k]
    BY <2>1, <2>2
  <2>4. ToVec(a) = [k \in 1 .. n |-> ToVec(a)[k]] /\ ToVec(o) = [k \in 1 .. n |-> ToVec(o)[k]]
    BY <1>2
  <2> QED
    BY <2>3, <2>4, Zenon
<1> QED
  BY <1>3, <1>4 DEF n

\* resize(), with the bits it does not set.
ResizedBits(s, n, value) ==
  [i \in 1 .. n |->
     IF i <= Len(s) THEN s[i]
     ELSE value /\ (\/ BufferSizeForBits(Len(s)) = BufferSizeForBits(n)
                    \/ i > BufferSizeForBits(Len(s)) * ByteBits)]

LEMMA ResizeShows ==
    ASSUME NEW a, Sound(a), ~ Surplus(a), NEW n \in Nat, NEW value \in BOOLEAN
    PROVE  ToVec(Resize(a, n, value)) = ResizedBits(ToVec(a), n, value)
<1> DEFINE r == Resize(a, n, value)
           s == ToVec(a)
           t == ResizedBits(s, n, value)
<1>1. HasBytes(a) /\ a.bitCount \in Nat
  BY ArrayIs DEF Sound
<1>2. /\ s \in [1 .. a.bitCount -> BOOLEAN] /\ Len(s) = a.bitCount
      /\ \A k \in 1 .. a.bitCount : (s[k] <=> TestBit(a, k - 1))
  BY <1>1, BitsOf
<1>3. /\ r.bitCount = n
      /\ \A i \in Nat :
           TestBit(r, i) <=> i < n /\ IF i < a.bitCount THEN TestBit(a, i) ELSE NewBit(a, n, value, i)
  BY <1>1, ResizeIs
<1>4. BufferSizeForBits(a.bitCount) \in Nat
  BY <1>1, ArrayIs
<1> HIDE DEF r, s
<1>5. t = [k \in 1 .. n |-> t[k]]
  BY DEF ResizedBits
<1>6. ASSUME NEW k \in 1 .. n PROVE t[k] \in BOOLEAN /\ (TestBit(r, k - 1) <=> t[k])
  <2>1. k - 1 \in Nat /\ k - 1 < n
    OBVIOUS
  <2>2. t[k] = IF k <= Len(s) THEN s[k]
               ELSE value /\ (\/ BufferSizeForBits(Len(s)) = BufferSizeForBits(n)
                              \/ k > BufferSizeForBits(Len(s)) * ByteBits)
    BY DEF ResizedBits
  <2>3. CASE k <= Len(s)
    BY <1>1, <1>2, <1>3, <2>1, <2>2, <2>3
  <2>4. CASE ~ (k <= Len(s))
    <3> DEFINE K == BufferSizeForBits(a.bitCount)
               q == ByteIndex(k - 1)
               o == BitOffset(k - 1)
    <3>1. q \in Nat /\ o \in 0 .. ByteBits - 1 /\ (q + 1 - 1) * ByteBits + o = k - 1
      BY <2>1, ByteOfIndex DEF IndexOfCell, Offsets
    <3>2. ByteBits \in Nat \ {0}
      BY LayoutAssumption
    <3>3. q + 1 > K <=> k > K * ByteBits
      <4> HIDE DEF K, q, o
      <4>1. K \in Nat
        BY <1>4 DEF K
      <4>2. K * ByteBits \in Nat /\ q * ByteBits \in Nat /\ q * ByteBits + o = k - 1
        <5>1. q + 1 - 1 = q
          BY <3>1
        <5> QED
          BY <3>1, <3>2, <4>1, <5>1
      <4>3. q < K => q * ByteBits + ByteBits <= K * ByteBits
        BY <3>1, <3>2, <4>1, Multiples
      <4>4. K < q => K * ByteBits + ByteBits <= q * ByteBits
        BY <3>1, <3>2, <4>1, Multiples
      <4>5. CASE q < K
        BY <3>1, <3>2, <4>1, <4>2, <4>3, <4>5
      <4>6. CASE q >= K
        <5>1. K * ByteBits <= q * ByteBits
          BY <3>1, <3>2, <4>1, <4>2, <4>4, <4>6
        <5> QED
          BY <3>1, <3>2, <4>1, <4>2, <4>6, <5>1
      <4> QED
        BY <3>1, <4>1, <4>5, <4>6
    <3>4. TestBit(r, k - 1) <=> NewBit(a, n, value, k - 1)
      BY <1>1, <1>2, <1>3, <2>1, <2>4
    <3> QED
      BY <1>2, <2>2, <2>4, <3>3, <3>4 DEF NewBit
  <2> QED
    BY <2>3, <2>4
<1> HIDE DEF t
<1>7. ToVec(r) = t
  BY <1>3, <1>5, <1>6, Shows
<1> QED
  BY <1>7 DEF r, s, t

\* setBit(), toggleBit()
LEMMA PutShows ==
    ASSUME NEW a, HasBytes(a), NEW i \in 1 .. a.bitCount, NEW value \in BOOLEAN
    PROVE  /\ ToVec(SetBit(a, i - 1, value)) = [ToVec(a) EXCEPT ![i] = value]
           /\ ToVec(ToggleBit(a, i - 1)) = [ToVec(a) EXCEPT ![i] = ~ @]
<1> DEFINE s == ToVec(a)
           n == a.bitCount
           x == SetBit(a, i - 1, value)
           y == ToggleBit(a, i - 1)
<1>1. n \in Nat
  BY ArrayIs
<1>2. i - 1 \in Nat /\ i - 1 < n
  BY <1>1
<1>3. /\ s \in [1 .. n -> BOOLEAN]
      /\ \A k \in 1 .. n : k - 1 \in Nat /\ (s[k] <=> TestBit(a, k - 1))
  BY BitsOf
<1>4. x.bitCount = n /\ \A j \in Nat : TestBit(x, j) <=> IF j = i - 1 /\ i - 1 < n THEN value ELSE TestBit(a, j)
  <2>1. x \in {SetBit(a, i - 1, value), ToggleBit(a, i - 1)}
    OBVIOUS
  <2> QED
    BY <1>2, <2>1, PutIs
<1>5. y.bitCount = n /\ \A j \in Nat : TestBit(y, j) <=> IF j = i - 1 /\ i - 1 < n THEN ~ TestBit(a, j) ELSE TestBit(a, j)
  <2>1. y \in {SetBit(a, i - 1, value), ToggleBit(a, i - 1)}
    OBVIOUS
  <2> QED
    BY <1>2, <2>1, PutIs
<1> HIDE DEF x, y, s, n
<1>6. ToVec(x) = [s EXCEPT ![i] = value]
  <2> DEFINE t == [s EXCEPT ![i] = value]
  <2>1. t = [k \in 1 .. n |-> t[k]]
    BY <1>3
  <2>2. ASSUME NEW k \in 1 .. n PROVE t[k] \in BOOLEAN /\ (TestBit(x, k - 1) <=> t[k])
    <3>1. k - 1 \in Nat /\ k \in Int /\ i \in Int /\ (k - 1 = i - 1 <=> k = i)
      BY <1>1 DEF n
    <3> QED
      BY <1>2, <1>3, <1>4, <3>1
  <2> HIDE DEF t
  <2>3. ToVec(x) = t
    BY <1>4, <2>1, <2>2, Shows
  <2> QED
    BY <2>3 DEF t
<1>7. ToVec(y) = [s EXCEPT ![i] = ~ @]
  <2> DEFINE t == [s EXCEPT ![i] = ~ @]
  <2>1. t = [k \in 1 .. n |-> t[k]]
    BY <1>3
  <2>2. ASSUME NEW k \in 1 .. n PROVE t[k] \in BOOLEAN /\ (TestBit(y, k - 1) <=> t[k])
    <3>1. k - 1 \in Nat /\ k \in Int /\ i \in Int /\ (k - 1 = i - 1 <=> k = i)
      BY <1>1 DEF n
    <3> QED
      BY <1>2, <1>3, <1>5, <3>1
  <2> HIDE DEF t
  <2>3. ToVec(y) = t
    BY <1>5, <2>1, <2>2, Shows
  <2> QED
    BY <2>3 DEF t
<1> QED
  BY <1>6, <1>7 DEF x, y, s

\* fill(), operator~
LEMMA EveryShows ==
    ASSUME NEW a, HasBytes(a), NEW value \in BOOLEAN
    PROVE  /\ ToVec(Fill(a, value)) = [i \in DOMAIN ToVec(a) |-> value]
           /\ ToVec(Not(a)) = [i \in DOMAIN ToVec(a) |-> ~ ToVec(a)[i]]
<1> DEFINE s == ToVec(a)
           n == a.bitCount
           x == Fill(a, value)
           y == Not(a)
<1>1. n \in Nat
  BY ArrayIs
<1>2. /\ s \in [1 .. n -> BOOLEAN] /\ DOMAIN s = 1 .. n
      /\ \A k \in 1 .. n : k - 1 \in Nat /\ k - 1 < n /\ (s[k] <=> TestBit(a, k - 1))
  BY BitsOf
<1>3. x.bitCount = n /\ \A i \in Nat : TestBit(x, i) <=> i < n /\ value
  BY EveryByte
<1>4. y.bitCount = n /\ \A i \in Nat : TestBit(y, i) <=> i < n /\ ~ TestBit(a, i)
  BY EveryByte
<1> HIDE DEF x, y, s, n
<1>5. ToVec(x) = [i \in DOMAIN s |-> value]
  <2> DEFINE t == [i \in DOMAIN s |-> value]
  <2>1. t = [k \in 1 .. n |-> t[k]]
    BY <1>2
  <2>2. \A k \in 1 .. n : t[k] \in BOOLEAN /\ (TestBit(x, k - 1) <=> t[k])
    BY <1>2, <1>3
  <2> HIDE DEF t
  <2>3. ToVec(x) = t
    BY <1>3, <2>1, <2>2, Shows
  <2> QED
    BY <2>3 DEF t
<1>6. ToVec(y) = [i \in DOMAIN s |-> ~ s[i]]
  <2> DEFINE t == [i \in DOMAIN s |-> ~ s[i]]
  <2>1. t = [k \in 1 .. n |-> t[k]]
    BY <1>2
  <2>2. \A k \in 1 .. n : t[k] \in BOOLEAN /\ (TestBit(y, k - 1) <=> t[k])
    BY <1>2, <1>4
  <2> HIDE DEF t
  <2>3. ToVec(y) = t
    BY <1>4, <2>1, <2>2, Shows
  <2> QED
    BY <2>3 DEF t
<1> QED
  BY <1>5, <1>6 DEF x, y, s

\* operator&=, |= and ^= with an operand that is as sound.
LEMMA LogicShows ==
    ASSUME NEW a, Sound(a), ~ Surplus(a), NEW o, Sound(o)
    PROVE  LET s == ToVec(a)
               t == ToVec(o)
               m == Longer(s, t)
           IN /\ ToVec(And(a, o)) = [i \in 1 .. SmallerOf(Len(s), Len(t)) |-> s[i] /\ t[i]]
              /\ ~ Surplus(o) =>
                   /\ ToVec(Or(a, o)) = [i \in 1 .. m |-> Aligned(s, m)[i] \/ Aligned(t, m)[i]]
                   /\ ToVec(Xor(a, o)) = [i \in 1 .. m |-> Aligned(s, m)[i] # Aligned(t, m)[i]]
<1> DEFINE s == ToVec(a)
           t == ToVec(o)
           m == Longer(s, t)
           n == a.bitCount
           p == o.bitCount
           d == And(a, o)
           x == Or(a, o)
           y == Xor(a, o)
<1>1. HasBytes(a) /\ HasBytes(o) /\ n \in Nat /\ p \in Nat
  BY ArrayIs DEF Sound
<1>2. /\ s \in [1 .. n -> BOOLEAN] /\ Len(s) = n
      /\ \A k \in 1 .. n : k - 1 \in Nat /\ (s[k] <=> TestBit(a, k - 1))
  BY <1>1, BitsOf
<1>3. /\ t \in [1 .. p -> BOOLEAN] /\ Len(t) = p
      /\ \A k \in 1 .. p : k - 1 \in Nat /\ (t[k] <=> TestBit(o, k - 1))
  BY <1>1, BitsOf
<1>4. (\A i : TestBit(a, i) => i < n) /\ \A i : TestBit(o, i) => i < p
  BY DEF TestBit
<1>5. d.bitCount = SmallerOf(n, p) /\ \A i \in Nat : TestBit(d, i) <=> TestBit(a, i) /\ TestBit(o, i)
  BY <1>1, AndIs
<1>6. Wide(a, o).bitCount = IF p > n THEN p ELSE n
  BY <1>1, WideIs
<1>7. x.bitCount = Wide(a, o).bitCount /\ y.bitCount = Wide(a, o).bitCount
  BY <1>1, JoinIs
<1>8. ~ Surplus(o) =>
        \A i \in Nat : /\ TestBit(x, i) <=> TestBit(a, i) \/ TestBit(o, i)
                       /\ TestBit(y, i) <=> (TestBit(a, i) <=> ~ TestBit(o, i))
  BY <1>1, JoinIs
<1> HIDE DEF d, x, y, s, t, n, p
<1>9. m = (IF p > n THEN p ELSE n) /\ m \in Nat /\ n <= m /\ p <= m
  BY <1>1, <1>2, <1>3 DEF Longer
<1> HIDE DEF m
<1>10. /\ \A i \in 1 .. m : Aligned(s, m)[i] \in BOOLEAN /\ (Aligned(s, m)[i] <=> TestBit(a, i - 1))
       /\ \A i \in 1 .. m : Aligned(t, m)[i] \in BOOLEAN /\ (Aligned(t, m)[i] <=> TestBit(o, i - 1))
  <2>1. SUFFICES ASSUME NEW i \in 1 .. m
                 PROVE  /\ Aligned(s, m)[i] \in BOOLEAN /\ (Aligned(s, m)[i] <=> TestBit(a, i - 1))
                        /\ Aligned(t, m)[i] \in BOOLEAN /\ (Aligned(t, m)[i] <=> TestBit(o, i - 1))
    OBVIOUS
  <2>2. Aligned(s, m)[i] = (i <= n /\ s[i]) /\ Aligned(t, m)[i] = (i <= p /\ t[i])
    BY <1>2, <1>3 DEF Aligned
  <2>3. i - 1 \in Nat /\ (i <= n <=> i - 1 < n) /\ (i <= p <=> i - 1 < p)
        /\ (i <= n => i \in 1 .. n) /\ (i <= p => i \in 1 .. p)
    BY <1>1, <1>9
  <2>4. (i <= n /\ s[i] <=> TestBit(a, i - 1)) /\ (i <= p /\ t[i] <=> TestBit(o, i - 1))
    BY <1>2, <1>3, <1>4, <2>3
  <2>5. (i <= n /\ s[i]) \in BOOLEAN /\ (i <= p /\ t[i]) \in BOOLEAN
    OBVIOUS
  <2>6. (Aligned(s, m)[i] <=> (i <= n /\ s[i])) /\ (Aligned(t, m)[i] <=> (i <= p /\ t[i]))
    BY <2>2
  <2> QED
    BY <2>2, <2>4, <2>5, <2>6
<1>11. ToVec(d) = [i \in 1 .. SmallerOf(Len(s), Len(t)) |-> s[i] /\ t[i]]
  <2> DEFINE c == SmallerOf(n, p)
             f == [i \in 1 .. c |-> s[i] /\ t[i]]
  <2>1. c \in Nat /\ c <= n /\ c <= p
    BY <1>1 DEF SmallerOf
  <2> HIDE DEF c
  <2>2. f = [i \in 1 .. c |-> f[i]]
    OBVIOUS
  <2>3. ASSUME NEW k \in 1 .. c PROVE f[k] \in BOOLEAN /\ (TestBit(d, k - 1) <=> f[k])
    <3>1. k \in 1 .. n /\ k \in 1 .. p /\ k - 1 \in Nat
      BY <1>1, <2>1
    <3>2. f[k] \in BOOLEAN /\ (f[k] <=> s[k] /\ t[k])
      OBVIOUS
    <3> QED
      BY <1>2, <1>3, <1>5, <3>1, <3>2
  <2> HIDE DEF f
  <2>4. ToVec(d) = f
    BY <1>5, <2>2, <2>3, Shows DEF c
  <2> QED
    BY <1>2, <1>3, <2>4 DEF f, c
<1>12. ASSUME ~ Surplus(o) PROVE ToVec(x) = [i \in 1 .. m |-> Aligned(s, m)[i] \/ Aligned(t, m)[i]]
  <2> DEFINE f == [i \in 1 .. m |-> Aligned(s, m)[i] \/ Aligned(t, m)[i]]
  <2>1. f = [i \in 1 .. m |-> f[i]]
    OBVIOUS
  <2>2. ASSUME NEW k \in 1 .. m PROVE f[k] \in BOOLEAN /\ (TestBit(x, k - 1) <=> f[k])
    <3>1. k - 1 \in Nat
      BY <1>9
    <3>2. f[k] \in BOOLEAN /\ (f[k] <=> Aligned(s, m)[k] \/ Aligned(t, m)[k])
      OBVIOUS
    <3> QED
      BY <1>8, <1>10, <1>12, <3>1, <3>2
  <2> HIDE DEF f
  <2>3. x.bitCount = m
    BY <1>6, <1>7, <1>9
  <2>4. ToVec(x) = f
    BY <2>1, <2>2, <2>3, Shows
  <2> QED
    BY <2>4 DEF f
<1>13. ASSUME ~ Surplus(o) PROVE ToVec(y) = [i \in 1 .. m |-> Aligned(s, m)[i] # Aligned(t, m)[i]]
  <2> DEFINE f == [i \in 1 .. m |-> Aligned(s, m)[i] # Aligned(t, m)[i]]
  <2>1. f = [i \in 1 .. m |-> f[i]]
    OBVIOUS
  <2>2. ASSUME NEW k \in 1 .. m PROVE f[k] \in BOOLEAN /\ (TestBit(y, k - 1) <=> f[k])
    <3>1. k - 1 \in Nat
      BY <1>9
    <3>2. f[k] \in BOOLEAN /\ (f[k] <=> Aligned(s, m)[k] # Aligned(t, m)[k])
      OBVIOUS
    <3>3. Aligned(s, m)[k] # Aligned(t, m)[k] <=> (Aligned(s, m)[k] <=> ~ Aligned(t, m)[k])
      BY <1>10
    <3> QED
      BY <1>8, <1>10, <1>13, <3>1, <3>2, <3>3
  <2> HIDE DEF f
  <2>3. y.bitCount = m
    BY <1>6, <1>7, <1>9
  <2>4. ToVec(y) = f
    BY <2>1, <2>2, <2>3, Shows
  <2> QED
    BY <2>4 DEF f
<1> QED
  BY <1>11, <1>12, <1>13 DEF d, x, y, s, t, m

\* mid() and right() take a part of the string.
LEMMA CutIs ==
    ASSUME NEW T, NEW s \in Seq(T), NEW m \in Nat \ {0}, NEW n \in Nat
    PROVE  SubSeq(s, m, n) = [i \in 1 .. n - m + 1 |-> s[i + m - 1]]
  OBVIOUS

LEMMA MidShows ==
    ASSUME NEW a, HasBytes(a), a.bitCount <= npos, NEW start \in Nat, NEW amount \in Nat, amount <= npos
    PROVE  LET s == ToVec(a)
           IN ToVec(Mid(a, start, amount)) = SubSeq(s, start + 1, SmallerOf(start + amount, Len(s)))
<1> DEFINE s == ToVec(a)
           n == a.bitCount
           r == Mid(a, start, amount)
           e == SmallerOf(start + amount, n)
           u == SubSeq(s, start + 1, e)
<1>1. n \in Nat /\ npos \in Nat
  <2>1. n \in Nat
    BY ArrayIs
  <2>2. npos \in Nat
    BY LayoutAssumption DEF npos
  <2> QED
    BY <2>1, <2>2
<1>2. /\ s \in [1 .. n -> BOOLEAN] /\ Len(s) = n /\ s \in Seq(BOOLEAN)
      /\ \A k \in 1 .. n : k - 1 \in Nat /\ (s[k] <=> TestBit(a, k - 1))
  <2>1. /\ s \in [1 .. n -> BOOLEAN] /\ Len(s) = n
        /\ \A k \in 1 .. n : k - 1 \in Nat /\ (s[k] <=> TestBit(a, k - 1))
    BY BitsOf
  <2> QED
    BY <1>1, <2>1, CellsAreSeq
<1>3. /\ r.bitCount = IF start >= n THEN 0
                      ELSE IF amount = npos THEN n - start ELSE SmallerOf(amount, n - start)
      /\ \A i \in Nat : TestBit(r, i) <=> i < r.bitCount /\ TestBit(a, start + i)
  BY MidIs
<1> HIDE DEF r, s, n
<1>4. e \in Nat /\ e <= n /\ start + 1 \in Nat \ {0}
  BY <1>1 DEF SmallerOf
<1>5. /\ start < n => r.bitCount = e - start /\ r.bitCount \in Nat
      /\ start >= n => r.bitCount = 0 /\ e - start <= 0
  BY <1>1, <1>3 DEF SmallerOf, n
<1> HIDE DEF e
<1>6. u = [i \in 1 .. e - (start + 1) + 1 |-> s[i + (start + 1) - 1]]
  BY <1>2, <1>4, CutIs
<1>7. e - (start + 1) + 1 = e - start /\ \A i \in Int : i + (start + 1) - 1 = start + i
  BY <1>4
<1>8. u = [i \in 1 .. r.bitCount |-> u[i]]
      /\ \A i \in 1 .. r.bitCount : i \in Int /\ i <= e - start /\ u[i] = s[start + i]
  <2>1. 1 .. (e - (start + 1) + 1) = 1 .. r.bitCount
    BY <1>1, <1>4, <1>5
  <2>2. \A i \in 1 .. r.bitCount : i \in Int /\ i <= e - start
    BY <1>1, <1>4, <1>5
  <2>3. u = [i \in 1 .. r.bitCount |-> s[i + (start + 1) - 1]]
    BY <1>6, <2>1
  <2>4. \A i \in 1 .. r.bitCount : u[i] = s[i + (start + 1) - 1]
    BY <2>3
  <2> QED
    BY <1>7, <2>2, <2>3, <2>4
<1> HIDE DEF u
<1>9. ASSUME NEW k \in 1 .. r.bitCount PROVE u[k] \in BOOLEAN /\ (TestBit(r, k - 1) <=> u[k])
  <2>1. k \in Int /\ k <= e - start /\ 1 <= k /\ k <= r.bitCount
    <3>1. k \in Int /\ k <= e - start
      BY <1>8
    <3>2. r.bitCount \in Int
      BY <1>1, <1>5
    <3> QED
      BY <3>1, <3>2
  <2>2. k - 1 \in Nat /\ k - 1 < r.bitCount /\ start + k \in 1 .. n /\ start + k - 1 = start + (k - 1)
    BY <1>1, <1>4, <1>5, <2>1
  <2>3. TestBit(r, k - 1) <=> TestBit(a, start + (k - 1))
    BY <1>3, <2>2
  <2>4. s[start + k] \in BOOLEAN /\ (s[start + k] <=> TestBit(a, start + (k - 1)))
    BY <1>2, <2>2
  <2> QED
    BY <1>8, <2>3, <2>4
<1>10. ToVec(r) = u
  BY <1>8, <1>9, Shows
<1> QED
  BY <1>2, <1>10 DEF r, u, e, s, n

LEMMA RightShows ==
    ASSUME NEW a, HasBytes(a), a.bitCount <= npos, NEW amount \in Nat, amount <= npos
    PROVE  LET s == ToVec(a)
           IN ToVec(Right(a, amount)) = SubSeq(s, Len(s) - SmallerOf(amount, Len(s)) + 1, Len(s))
<1> DEFINE s == ToVec(a)
           n == a.bitCount
<1>1. n \in Nat
  BY ArrayIs
<1>2. s \in Seq(BOOLEAN) /\ Len(s) = n
  <2>1. s \in [1 .. n -> BOOLEAN] /\ Len(s) = n
    BY BitsOf
  <2> QED
    BY <1>1, <2>1, CellsAreSeq
<1>3. CASE amount = 0
  <2>1. EmptyArray.bitCount = 0 /\ HasBytes(EmptyArray)
    BY EmptyIs DEF Sound
  <2>2. ToVec(EmptyArray) \in [1 .. 0 -> BOOLEAN]
    BY <2>1, BitsOf
  <2>3. Right(a, amount) = EmptyArray /\ SmallerOf(amount, n) = 0
    BY <1>1, <1>3 DEF Right, SmallerOf
  <2> HIDE DEF s, n
  <2>4. SubSeq(s, n + 1, n) = << >>
    BY <1>1, SubSeqEmpty
  <2>5. ToVec(EmptyArray) = << >>
    BY <2>2
  <2> QED
    BY <1>1, <1>2, <2>3, <2>4, <2>5 DEF s, n
<1>4. CASE amount # 0 /\ amount >= n
  <2>1. Right(a, amount) = a /\ SmallerOf(amount, n) = n /\ n - n + 1 = 1
    BY <1>1, <1>4 DEF Right, SmallerOf
  <2> QED
    BY <1>2, <2>1, SubSeqFull
<1>5. CASE amount # 0 /\ ~ (amount >= n)
  <2>1. Right(a, amount) = Mid(a, n - amount, amount) /\ SmallerOf(amount, n) = amount
    BY <1>1, <1>5 DEF Right, SmallerOf
  <2>2. n - amount \in Nat /\ SmallerOf(n - amount + amount, n) = n
    BY <1>1, <1>5 DEF SmallerOf
  <2>3. ToVec(Mid(a, n - amount, amount)) = SubSeq(s, n - amount + 1, SmallerOf(n - amount + amount, Len(s)))
    BY <2>2, MidShows
  <2> QED
    BY <1>2, <2>1, <2>2, <2>3
<1> QED
  BY <1>3, <1>4, <1>5

\* operator== of whole bytes and of what remains is that of the bits.
LEMMA EqualIs ==
    ASSUME NEW a, HasBytes(a), NEW o, HasBytes(o)
    PROVE  Equal(a, o) <=> ToVec(a) = ToVec(o)
<1> DEFINE n == a.bitCount
           fullBytes == n \div ByteBits
           rest == 0 .. (n % ByteBits) - 1
<1>1. /\ n \in Nat /\ o.bitCount \in Nat
      /\ \A i \in Nat : i < n => ByteIndex(i) + 1 \in 1 .. Len(a.buffer)
      /\ \A b \in 1 .. Len(a.buffer) : a.buffer[b] \in SUBSET Offsets
      /\ Len(a.buffer) \in Nat
  BY ArrayIs
<1>2. /\ \A i \in Nat : i < o.bitCount => ByteIndex(i) + 1 \in 1 .. Len(o.buffer)
      /\ \A b \in 1 .. Len(o.buffer) : o.buffer[b] \in SUBSET Offsets
      /\ Len(o.buffer) \in Nat
  BY ArrayIs
<1>3. fullBytes = ByteIndex(n) /\ n % ByteBits = BitOffset(n) /\ fullBytes \in Nat /\ BitOffset(n) \in Offsets
  BY <1>1, ByteOfIndex DEF ByteIndex, BitOffset
<1>4. ToVec(a) = ToVec(o) => n = o.bitCount
  <2>1. Len(ToVec(a)) = n /\ Len(ToVec(o)) = o.bitCount
    BY BitsOf
  <2> QED
    BY <2>1
<1>5. Equal(a, o) <=> /\ n = o.bitCount
                      /\ \A b \in 1 .. fullBytes : a.buffer[b] = o.buffer[b]
                      /\ rest # {} => a.buffer[fullBytes + 1] \cap rest = o.buffer[fullBytes + 1] \cap rest
  BY DEF Equal
<1>6. ASSUME n = o.bitCount PROVE Equal(a, o) <=> ToVec(a) = ToVec(o)
  <2> DEFINE Same == \A i \in Nat : i < n => (TestBit(a, i) <=> TestBit(o, i))
  <2>1. ToVec(a) = ToVec(o) <=> Same
    BY <1>6, SameBits
  <2>2. \A i \in Nat : i < n => /\ TestBit(a, i) <=> BitOffset(i) \in a.buffer[ByteIndex(i) + 1]
                                /\ TestBit(o, i) <=> BitOffset(i) \in o.buffer[ByteIndex(i) + 1]
    BY <1>6 DEF TestBit
  <2> HIDE DEF n
  <2>3. ASSUME Equal(a, o), NEW i \in Nat, i < n PROVE TestBit(a, i) <=> TestBit(o, i)
    <3>1. ByteIndex(i) \in Nat /\ BitOffset(i) \in Offsets
      BY ByteOfIndex
    <3>2. CASE ByteIndex(i) < fullBytes
      <4>1. ByteIndex(i) + 1 \in 1 .. fullBytes
        BY <1>3, <3>1, <3>2
      <4>2. a.buffer[ByteIndex(i) + 1] = o.buffer[ByteIndex(i) + 1]
        BY <1>5, <2>3, <4>1
      <4> QED
        BY <2>2, <2>3, <4>2
    <3>3. CASE ~ (ByteIndex(i) < fullBytes)
      <4>1. ByteIndex(i) = fullBytes /\ BitOffset(i) < BitOffset(n)
        <5>1. ByteIndex(n) < ByteIndex(i) => n < i
          BY <1>1, IndexOrder
        <5>2. ByteIndex(i) = ByteIndex(n) => (i < n <=> BitOffset(i) < BitOffset(n))
          BY <1>1, IndexOrder
        <5>3. ByteIndex(i) = ByteIndex(n)
          BY <1>1, <1>3, <2>3, <3>1, <3>3, <5>1
        <5> QED
          BY <1>3, <2>3, <5>2, <5>3
      <4>2. BitOffset(i) \in rest
        BY <1>3, <3>1, <4>1 DEF Offsets
      <4>3. a.buffer[fullBytes + 1] \cap rest = o.buffer[fullBytes + 1] \cap rest
        BY <1>5, <2>3, <4>2
      <4> HIDE DEF rest, fullBytes
      <4>4. BitOffset(i) \in a.buffer[fullBytes + 1] <=> BitOffset(i) \in o.buffer[fullBytes + 1]
        BY <4>2, <4>3
      <4> QED
        BY <2>2, <2>3, <4>1, <4>4
    <3> QED
      BY <3>2, <3>3
  <2>4. ASSUME Same PROVE Equal(a, o)
    <3>1. ASSUME NEW b \in 1 .. fullBytes + 1, NEW k \in Offsets, b = fullBytes + 1 => k < BitOffset(n)
          PROVE  b \in 1 .. Len(a.buffer) /\ b \in 1 .. Len(o.buffer) /\ (k \in a.buffer[b] <=> k \in o.buffer[b])
      <4> DEFINE i == IndexOfCell(b, k)
      <4>1. b \in Nat \ {0}
        BY <1>3
      <4>2. i \in Nat /\ ByteIndex(i) = b - 1 /\ BitOffset(i) = k
        BY <4>1, IndexOfByte
      <4> HIDE DEF i
      <4>3. i < n
        <5>1. CASE b = fullBytes + 1
          <6>1. ByteIndex(i) = ByteIndex(n) => (i < n <=> BitOffset(i) < BitOffset(n))
            BY <1>1, <4>2, IndexOrder
          <6> QED
            BY <1>3, <3>1, <4>2, <5>1, <6>1
        <5>2. CASE b # fullBytes + 1
          <6>1. ByteIndex(i) < ByteIndex(n) => i < n
            BY <1>1, <4>2, IndexOrder
          <6> QED
            BY <1>3, <4>1, <4>2, <5>2, <6>1
        <5> QED
          BY <5>1, <5>2
      <4>4. ByteIndex(i) + 1 = b
        BY <4>1, <4>2
      <4>5. b \in 1 .. Len(a.buffer) /\ b \in 1 .. Len(o.buffer)
        BY <1>1, <1>2, <1>6, <4>2, <4>3, <4>4
      <4>6. k \in a.buffer[b] <=> k \in o.buffer[b]
        BY <2>2, <2>4, <4>2, <4>3, <4>4
      <4> QED
        BY <4>5, <4>6
    <3>2. ByteBits \in Nat \ {0} /\ 0 \in Offsets
      BY LayoutAssumption DEF Offsets
    <3>3. ASSUME NEW b \in 1 .. fullBytes PROVE a.buffer[b] = o.buffer[b]
      <4>1. b \in 1 .. fullBytes + 1 /\ b # fullBytes + 1
        BY <1>3
      <4>2. b \in 1 .. Len(a.buffer) /\ b \in 1 .. Len(o.buffer)
        BY <3>1, <3>2, <4>1
      <4>3. \A k \in Offsets : k \in a.buffer[b] <=> k \in o.buffer[b]
        BY <3>1, <4>1
      <4>4. a.buffer[b] \in SUBSET Offsets /\ o.buffer[b] \in SUBSET Offsets
        BY <1>1, <1>2, <4>2
      <4> QED
        BY <4>3, <4>4
    <3>4. a.buffer[fullBytes + 1] \cap rest = o.buffer[fullBytes + 1] \cap rest
      <4>1. fullBytes + 1 \in 1 .. fullBytes + 1
        BY <1>3
      <4>2. \A k \in rest : k \in Offsets /\ k < BitOffset(n)
        BY <1>3, LayoutAssumption DEF Offsets
      <4>3. \A k \in rest : k \in a.buffer[fullBytes + 1] <=> k \in o.buffer[fullBytes + 1]
        BY <3>1, <4>1, <4>2
      <4> HIDE DEF rest, fullBytes
      <4> QED
        BY <4>3
    <3> QED
      BY <1>5, <1>6, <3>3, <3>4
  <2> HIDE DEF Same
  <2>5. Equal(a, o) => Same
    BY <2>3 DEF Same
  <2>6. Equal(a, o) \in BOOLEAN
    BY DEF Equal
  <2> QED
    BY <2>1, <2>4, <2>5
<1>7. CASE n # o.bitCount
  BY <1>4, <1>5, <1>7
<1> QED
  BY <1>6, <1>7

\* compare() finds a difference unless there is none.
LEMMA CompareIs ==
    ASSUME NEW m \in Nat, NEW s \in [1 .. m -> BOOLEAN], NEW n \in Nat, NEW t \in [1 .. n -> BOOLEAN]
    PROVE  CompareBits(s, t) = 0 <=> s = t
<1> DEFINE common == SmallerOf(Len(s), Len(t))
           differ == {i \in 1 .. common : s[i] # t[i]}
           first  == CHOOSE i \in differ : \A j \in differ : i <= j
<1>1. Len(s) = m /\ Len(t) = n
  BY CellsAreSeq
<1>2. CompareBits(s, t) = IF differ # {} THEN (IF s[first] THEN 1 ELSE -1)
                          ELSE IF Len(s) < Len(t) THEN -1 ELSE IF Len(s) > Len(t) THEN 1 ELSE 0
  BY DEF CompareBits
<1>3. s = t => differ = {} /\ m = n
  BY <1>1
<1> HIDE DEF first
<1>4. ASSUME differ = {}, m = n PROVE s = t
  <2>1. common = m
    BY <1>1, <1>4 DEF SmallerOf
  <2>2. \A i \in 1 .. m : s[i] = t[i]
    BY <1>4, <2>1
  <2>3. s = [i \in 1 .. m |-> s[i]] /\ t = [i \in 1 .. m |-> t[i]]
    BY <1>4
  <2> QED
    BY <2>2, <2>3, Zenon
<1> HIDE DEF differ
<1>5. CompareBits(s, t) = 0 <=> differ = {} /\ m = n
  BY <1>1, <1>2
<1> QED
  BY <1>3, <1>4, <1>5

\* countTrue() and all(): every one of n elements.
LEMMA AllBelow ==
    ASSUME NEW n \in Nat, NEW S \in SUBSET (0 .. n - 1)
    PROVE  Cardinality(S) \in Nat /\ (n - Cardinality(S) = 0 <=> S = 0 .. n - 1)
<1>1. IsFiniteSet(0 .. n - 1) /\ Cardinality(0 .. n - 1) = n
  <2>1. 0 \in Int /\ n - 1 \in Int
    OBVIOUS
  <2>2. IsFiniteSet(0 .. n - 1) /\ Cardinality(0 .. n - 1) = IF 0 > n - 1 THEN 0 ELSE n - 1 - 0 + 1
    BY <2>1, FS_Interval
  <2> QED
    BY <2>2
<1>2. IsFiniteSet(S) /\ (Cardinality(0 .. n - 1) = Cardinality(S) => 0 .. n - 1 = S)
  BY <1>1, FS_Subset
<1>3. Cardinality(S) \in Nat
  BY <1>2, FS_CardinalityType
<1>4. n - Cardinality(S) = 0 <=> n = Cardinality(S)
  BY <1>3
<1> QED
  BY <1>1, <1>2, <1>3, <1>4

\* any(), all(), and the iterators of both directions.
LEMMA QueriesAre ==
    ASSUME NEW a, Sound(a), ~ Surplus(a)
    PROVE  LET s == ToVec(a)
           IN /\ AnyBit(a) <=> \E i \in DOMAIN s : s[i]
              /\ AllBits(a) <=> CountFalse(a) = 0
              /\ Forward(a) = s /\ Backward(a) = [i \in DOMAIN s |-> s[Len(s) + 1 - i]]
<1> DEFINE s == ToVec(a)
           n == a.bitCount
<1>1. /\ HasBytes(a) /\ IsClear(a) /\ n \in Nat /\ DOMAIN a.buffer = 1 .. Len(a.buffer) /\ Len(a.buffer) \in Nat
      /\ \A b \in 1 .. Len(a.buffer) : a.buffer[b] \in SUBSET Offsets
      /\ \A i \in Nat : i < n => ByteIndex(i) + 1 \in 1 .. Len(a.buffer)
  BY ArrayIs DEF Sound
<1>2. /\ s \in [1 .. n -> BOOLEAN] /\ Len(s) = n /\ DOMAIN s = 1 .. n
      /\ \A k \in 1 .. n : k - 1 \in Nat /\ k - 1 < n /\ (s[k] <=> TestBit(a, k - 1))
  BY <1>1, BitsOf
<1>3. AnyBit(a) <=> \E i \in DOMAIN s : s[i]
  <2> HIDE DEF s
  <2>1. ASSUME NEW b \in DOMAIN a.buffer, NEW k \in a.buffer[b] PROVE \E i \in DOMAIN s : s[i]
    <3> DEFINE i == IndexOfCell(b, k)
    <3>1. b \in Nat \ {0} /\ k \in Offsets
      BY <1>1, <2>1
    <3>2. i \in Nat /\ ByteIndex(i) = b - 1 /\ BitOffset(i) = k
      BY <3>1, IndexOfByte
    <3>3. i < n
      BY <1>1, <2>1 DEF IsClear, IndexOfCell
    <3> HIDE DEF i
    <3>4. ByteIndex(i) + 1 = b
      BY <3>1, <3>2
    <3>5. TestBit(a, i)
      BY <2>1, <3>2, <3>3, <3>4 DEF TestBit
    <3> DEFINE j == i + 1
    <3>6. j \in 1 .. n /\ j - 1 = i
      BY <1>1, <3>2, <3>3
    <3> HIDE DEF j
    <3>7. s[j] <=> TestBit(a, j - 1)
      BY <1>2, <3>6
    <3>8. s[j]
      BY <3>5, <3>6, <3>7
    <3> QED
      BY <1>2, <3>6, <3>8
  <2>2. ASSUME NEW i \in DOMAIN s, s[i] PROVE AnyBit(a)
    <3>1. i - 1 \in Nat /\ i - 1 < n /\ TestBit(a, i - 1)
      BY <1>2, <2>2
    <3>2. ByteIndex(i - 1) + 1 \in DOMAIN a.buffer
      <4>1. ByteIndex(i - 1) + 1 \in 1 .. Len(a.buffer)
        BY <1>1, <3>1
      <4> QED
        BY <1>1, <4>1
    <3>3. a.buffer[ByteIndex(i - 1) + 1] # {}
      BY <3>1 DEF TestBit
    <3> QED
      BY <3>2, <3>3 DEF AnyBit
  <2> QED
    BY <2>1, <2>2 DEF AnyBit
<1>4. AllBits(a) <=> CountFalse(a) = 0
  <2> DEFINE S == {i \in 0 .. n - 1 : TestBit(a, i)}
  <2>1. AllBits(a) <=> S = 0 .. n - 1
    BY DEF AllBits
  <2>2. CountFalse(a) = n - Cardinality(S)
    BY DEF CountFalse, CountTrue
  <2>3. S \in SUBSET (0 .. n - 1)
    OBVIOUS
  <2> HIDE DEF S, n
  <2>4. n - Cardinality(S) = 0 <=> S = 0 .. n - 1
    BY <1>1, <2>3, AllBelow
  <2> QED
    BY <2>1, <2>2, <2>4
<1>5. Forward(a) = s
  <2>1. \A k \in 1 .. n : 0 + (k - 1) = k - 1
    BY <1>1
  <2> QED
    BY <2>1 DEF Forward, ToVec
<1>6. Backward(a) = [i \in DOMAIN s |-> s[Len(s) + 1 - i]]
  <2>1. ASSUME NEW k \in 1 .. n PROVE TestBit(a, n - (k - 1) - 1) = s[Len(s) + 1 - k]
    <3>1. Len(s) + 1 - k \in 1 .. n /\ n - (k - 1) - 1 = Len(s) + 1 - k - 1
      BY <1>1, <1>2
    <3>2. s[Len(s) + 1 - k] = TestBit(a, Len(s) + 1 - k - 1)
      <4> DEFINE j == Len(s) + 1 - k
      <4> HIDE DEF j
      <4>1. j \in 1 .. n => s[j] = TestBit(a, j - 1)
        BY DEF ToVec
      <4> QED
        BY <3>1, <4>1 DEF j
    <3> QED
      BY <3>1, <3>2
  <2>2. Backward(a) = [k \in 1 .. n |-> TestBit(a, n - (k - 1) - 1)]
    BY DEF Backward
  <2> HIDE DEF s, n
  <2> QED
    BY <1>2, <2>1, <2>2
<1> QED
  BY <1>3, <1>4, <1>5, <1>6

\* What follows from the invariant for every call.
LEMMA ArrayCalls ==
    ASSUME ArrayInv
    PROVE  ArrayIsItsBits
<1> DEFINE s == ToVec(array)
<1>1. /\ MaxBits \in Nat /\ npos \in Nat /\ MaxBits <= npos
      /\ \A i \in 0 .. MaxBits : i \in Nat /\ i <= MaxBits /\ i <= npos
  BY ArrayAssumption, LayoutAssumption DEF npos
<1>2. Sound(array) /\ HasBytes(array) /\ array.bitCount \in Nat /\ array.bitCount <= MaxBits /\ array.bitCount <= npos
  <2>1. Sound(array) /\ HasBytes(array) /\ array.bitCount \in Nat /\ array.bitCount <= MaxBits
    BY ArrayIs DEF ArrayInv, Sound
  <2> QED
    BY <1>1, <2>1
<1>3. PaddingIsClear
  BY DEF ArrayInv, Sound, HasBytes, IsClear, PaddingIsClear
<1>4. SUFFICES ASSUME ~ Surplus(array)
               PROVE  /\ \A n \in 0 .. MaxBits, v \in BOOLEAN : ResizesTo(s, ToVec(Resize(array, n, v)), n, v)
                      /\ \A i \in DOMAIN s, v \in BOOLEAN :
                           /\ ToVec(SetBit(array, i - 1, v)) = [s EXCEPT ![i] = v]
                           /\ ToVec(ToggleBit(array, i - 1)) = [s EXCEPT ![i] = ~ @]
                      /\ \A v \in BOOLEAN : ToVec(Fill(array, v)) = [i \in DOMAIN s |-> v]
                      /\ ToVec(Not(array)) = [i \in DOMAIN s |-> ~ s[i]]
                      /\ \A o \in Operands :
                           LET t == ToVec(o)  m == Longer(s, t)
                           IN /\ ToVec(And(array, o)) = [i \in 1 .. SmallerOf(Len(s), Len(t)) |-> s[i] /\ t[i]]
                              /\ ToVec(Or(array, o)) = [i \in 1 .. m |-> Aligned(s, m)[i] \/ Aligned(t, m)[i]]
                              /\ ToVec(Xor(array, o)) = [i \in 1 .. m |-> Aligned(s, m)[i] # Aligned(t, m)[i]]
                              /\ Equal(array, o) <=> s = t
                              /\ Compare(array, o) = 0 <=> s = t
                      /\ \A start \in 0 .. MaxBits, many \in 0 .. MaxBits :
                           /\ ToVec(Mid(array, start, many)) = SubSeq(s, start + 1, SmallerOf(start + many, Len(s)))
                           /\ ToVec(Right(array, many)) = SubSeq(s, Len(s) - SmallerOf(many, Len(s)) + 1, Len(s))
                      /\ AnyBit(array) <=> \E i \in DOMAIN s : s[i]
                      /\ AllBits(array) <=> CountFalse(array) = 0
                      /\ Forward(array) = s /\ Backward(array) = [i \in DOMAIN s |-> s[Len(s) + 1 - i]]
  BY <1>3 DEF ArrayIsItsBits
<1>5. ASSUME NEW n \in 0 .. MaxBits, NEW v \in BOOLEAN PROVE ResizesTo(s, ToVec(Resize(array, n, v)), n, v)
  <2>1. ToVec(Resize(array, n, v)) = ResizedBits(s, n, v) /\ n \in Nat
    BY <1>1, <1>2, <1>4, ResizeShows
  <2>2. \A i \in 1 .. n : i \in Int
    BY <2>1
  <2>3. s \in [1 .. array.bitCount -> BOOLEAN] /\ Len(s) = array.bitCount
    BY <1>2, BitsOf
  <2> HIDE DEF s
  <2>4. ResizesTo(s, ResizedBits(s, n, v), n, v)
    <3>1. ASSUME NEW i \in 1 .. n, i <= Len(s) PROVE ResizedBits(s, n, v)[i] = s[i]
      BY <3>1 DEF ResizedBits
    <3>2. ASSUME NEW i \in 1 .. n, i > Len(s),
                 \/ ~ v \/ BufferSizeForBits(Len(s)) = BufferSizeForBits(n)
                 \/ i > BufferSizeForBits(Len(s)) * ByteBits
          PROVE  ResizedBits(s, n, v)[i] = v
      <4>1. ~ (i <= Len(s))
        BY <1>2, <2>2, <2>3, <3>2
      <4> QED
        BY <3>2, <4>1 DEF ResizedBits
    <3>3. DOMAIN ResizedBits(s, n, v) = 1 .. n
      BY DEF ResizedBits
    <3> QED
      BY <3>1, <3>2, <3>3, Zenon DEF ResizesTo
  <2> QED
    BY <2>1, <2>4
<1>6. \A i \in DOMAIN s, v \in BOOLEAN :
        /\ ToVec(SetBit(array, i - 1, v)) = [s EXCEPT ![i] = v]
        /\ ToVec(ToggleBit(array, i - 1)) = [s EXCEPT ![i] = ~ @]
  <2>1. DOMAIN s = 1 .. array.bitCount
    BY <1>2, BitsOf
  <2> QED
    BY <1>2, <2>1, PutShows
<1>7. \A v \in BOOLEAN : ToVec(Fill(array, v)) = [i \in DOMAIN s |-> v]
  BY <1>2, EveryShows
<1>8. ToVec(Not(array)) = [i \in DOMAIN s |-> ~ s[i]]
  <2>1. PICK v \in BOOLEAN : v = FALSE
    OBVIOUS
  <2> QED
    BY <1>2, <2>1, EveryShows
<1>9. ASSUME NEW o \in Operands
      PROVE  LET t == ToVec(o)  m == Longer(s, t)
             IN /\ ToVec(And(array, o)) = [i \in 1 .. SmallerOf(Len(s), Len(t)) |-> s[i] /\ t[i]]
                /\ ToVec(Or(array, o)) = [i \in 1 .. m |-> Aligned(s, m)[i] \/ Aligned(t, m)[i]]
                /\ ToVec(Xor(array, o)) = [i \in 1 .. m |-> Aligned(s, m)[i] # Aligned(t, m)[i]]
                /\ Equal(array, o) <=> s = t
                /\ Compare(array, o) = 0 <=> s = t
  <2>1. Sound(o) /\ ~ Surplus(o) /\ HasBytes(o) /\ o.bitCount \in Nat
    <3>1. Sound(o) /\ ~ Surplus(o)
      BY <1>2, <1>4, OperandIs
    <3> QED
      BY <3>1, ArrayIs DEF Sound
  <2>2. ToVec(array) \in [1 .. array.bitCount -> BOOLEAN] /\ ToVec(o) \in [1 .. o.bitCount -> BOOLEAN]
    BY <1>2, <2>1, BitsOf
  <2>3. Compare(array, o) = 0 <=> s = ToVec(o)
    BY <1>2, <2>1, <2>2, CompareIs DEF Compare
  <2>4. Equal(array, o) <=> s = ToVec(o)
    BY <1>2, <2>1, EqualIs
  <2> QED
    BY <1>2, <1>4, <2>1, <2>3, <2>4, LogicShows
<1>10. \A start \in 0 .. MaxBits, many \in 0 .. MaxBits :
         /\ ToVec(Mid(array, start, many)) = SubSeq(s, start + 1, SmallerOf(start + many, Len(s)))
         /\ ToVec(Right(array, many)) = SubSeq(s, Len(s) - SmallerOf(many, Len(s)) + 1, Len(s))
  BY <1>1, <1>2, MidShows, RightShows
<1>11. /\ AnyBit(array) <=> \E i \in DOMAIN s : s[i]
       /\ AllBits(array) <=> CountFalse(array) = 0
       /\ Forward(array) = s /\ Backward(array) = [i \in DOMAIN s |-> s[Len(s) + 1 - i]]
  BY <1>2, <1>4, QueriesAre
<1> HIDE DEF s
<1> QED
  BY <1>5, <1>6, <1>7, <1>8, <1>9, <1>10, <1>11

\* Every call on an array does to its bits what its name says.
THEOREM ArraysAreTheirBits == ArraySpec => []ArrayIsItsBits
<1>1. ArrayInv => ArrayIsItsBits
  BY ArrayCalls
<1> QED
  BY <1>1, ArrayInvHolds, PTL

-----------------------------------------------------------------------------
(* Bit spans *)

\* The bit of the memory that a view begins with.
Place(v) == v.data * ByteBits + v.bitOffset
IsView(v) == v \in [data : Nat, bitOffset : Offsets, bitCount : Nat]

\* A bit of the memory by its index.
MemoryBit(m, i) == BitOffset(i) \in m[ByteIndex(i) + 1]

LEMMA Together ==
    ASSUME NEW d \in Nat, NEW k \in Nat
    PROVE  /\ ByteIndex(d * ByteBits + k) = d + ByteIndex(k) /\ BitOffset(d * ByteBits + k) = BitOffset(k)
           /\ d * ByteBits + k \in Nat
<1> DEFINE q == ByteIndex(k)
           r == BitOffset(k)
<1>1. ByteBits \in Nat \ {0}
  BY LayoutAssumption
<1>2. q \in Nat /\ r \in Offsets /\ IndexOfCell(q + 1, r) = k
  BY ByteOfIndex
<1> HIDE DEF q, r
<1>3. r \in 0 .. ByteBits - 1
  BY <1>2 DEF Offsets
<1>4. q * ByteBits \in Nat /\ d * ByteBits \in Nat /\ (d + q) * ByteBits \in Nat
  BY <1>1, <1>2
<1>5. q + 1 - 1 = q /\ d + q + 1 - 1 = d + q /\ d + q + 1 \in Nat \ {0}
  BY <1>2
<1>6. k = q * ByteBits + r
  BY <1>2, <1>5 DEF IndexOfCell
<1>7. (d + q) * ByteBits = d * ByteBits + q * ByteBits
  BY <1>1, <1>2
<1>8. d * ByteBits + k = (d + q) * ByteBits + r
  BY <1>3, <1>4, <1>6, <1>7
<1>9. IndexOfCell(d + q + 1, r) = d * ByteBits + k
  <2>1. IndexOfCell(d + q + 1, r) = ((d + q + 1) - 1) * ByteBits + r
    BY DEF IndexOfCell
  <2>2. (d + q + 1) - 1 = d + q
    BY <1>2
  <2> QED
    BY <1>8, <2>1, <2>2
<1>10. /\ ByteIndex(IndexOfCell(d + q + 1, r)) = d + q + 1 - 1 /\ BitOffset(IndexOfCell(d + q + 1, r)) = r
       /\ IndexOfCell(d + q + 1, r) \in Nat
  BY <1>2, <1>5, IndexOfByte
<1> QED
  BY <1>5, <1>9, <1>10 DEF q, r

\* Whatever byte a view names, it shows the bits from its place.
LEMMA TestViewIs ==
    ASSUME NEW m, NEW v, IsView(v), NEW i \in Nat
    PROVE  /\ Place(v) \in Nat
           /\ TestView(m, v, i) <=> MemoryBit(m, Place(v) + i)
<1> DEFINE d == v.data
           k == v.bitOffset + i
<1>1. d \in Nat /\ v.bitOffset \in Nat /\ k \in Nat /\ ByteBits \in Nat
  BY LayoutAssumption DEF IsView, Offsets
<1>2. d * ByteBits \in Nat
  BY <1>1
<1>3. Place(v) \in Nat /\ Place(v) + i = d * ByteBits + k
  BY <1>1, <1>2 DEF Place
<1>4. TestView(m, v, i) <=> BitOffset(k) \in m[d + ByteIndex(k) + 1]
  BY DEF TestView
<1> HIDE DEF d, k
<1>5. ByteIndex(d * ByteBits + k) = d + ByteIndex(k) /\ BitOffset(d * ByteBits + k) = BitOffset(k)
  BY <1>1, Together
<1> QED
  BY <1>3, <1>4, <1>5 DEF MemoryBit

\* BitSpan(data, bitStartOffset, bitCount)
LEMMA ViewAtIs ==
    ASSUME NEW d \in Nat, NEW start \in Nat, NEW n \in Nat
    PROVE  LET v == ViewAt(d, start, n)
           IN IsView(v) /\ v.bitCount = n /\ Place(v) = d * ByteBits + start
<1> DEFINE q == ByteIndex(start)
           r == BitOffset(start)
           v == ViewAt(d, start, n)
<1>1. ByteBits \in Nat \ {0}
  BY LayoutAssumption
<1>2. q \in Nat /\ r \in Offsets /\ IndexOfCell(q + 1, r) = start
  BY ByteOfIndex
<1>3. v = [data |-> d + q, bitOffset |-> r, bitCount |-> n]
  BY DEF ViewAt, ByteIndex, BitOffset
<1> HIDE DEF q, r, v
<1>4. d + q \in Nat
  BY <1>2
<1>5. IsView(v) /\ v.data = d + q /\ v.bitOffset = r /\ v.bitCount = n
  BY <1>2, <1>3, <1>4 DEF IsView
<1>6. r \in Nat /\ q + 1 - 1 = q
  BY <1>1, <1>2 DEF Offsets
<1>7. start = q * ByteBits + r
  BY <1>2, <1>6 DEF IndexOfCell
<1>8. (d + q) * ByteBits = d * ByteBits + q * ByteBits /\ d * ByteBits \in Nat /\ q * ByteBits \in Nat
  BY <1>1, <1>2
<1>9. Place(v) = d * ByteBits + start
  BY <1>5, <1>6, <1>7, <1>8 DEF Place
<1> QED
  BY <1>5, <1>9 DEF v

\* The view is as wide as its window, and begins where the window does.
Fits(v, from, to) ==
  /\ IsView(v) /\ v.bitCount = to - from
  /\ to > from => Place(v) = from

SpanInv ==
  /\ memory \in [1 .. SpanBytes -> SUBSET Offsets]
  /\ window \in Nat \X Nat /\ window[1] <= window[2] /\ window[2] <= AllBitsOf
  /\ Fits(view, window[1], window[2])

LEMMA NoViewIs == IsView(NoView) /\ NoView.bitCount = 0
<1>1. 0 \in Offsets
  BY LayoutAssumption DEF Offsets
<1> QED
  BY <1>1 DEF NoView, IsView

LEMMA SpanSizes == AllBitsOf \in Nat /\ AllBitsOf <= npos /\ npos \in Nat
<1>1. ByteBits \in Nat /\ SpanBytes \in Nat /\ npos \in Nat
  BY LayoutAssumption, SpanAssumption DEF npos
<1> QED
  BY <1>1, SpanAssumption DEF AllBitsOf

\* A part of a view that begins k bits after it, and what it should show.
LEMMA PartFits ==
    ASSUME NEW v, NEW from \in Nat, NEW to \in Nat, from <= to, Fits(v, from, to),
           NEW k \in Nat, NEW n \in Nat, k + n <= to - from
    PROVE  /\ Fits(ViewAt(v.data, v.bitOffset + k, n), from + k, from + k + n)
           /\ n = 0 => Fits(NoView, from + k, from + k + n)
<1> DEFINE w == ViewAt(v.data, v.bitOffset + k, n)
<1>1. v.data \in Nat /\ v.bitOffset \in Nat /\ v.bitOffset + k \in Nat /\ ByteBits \in Nat
  BY LayoutAssumption DEF Fits, IsView, Offsets
<1>2. IsView(w) /\ w.bitCount = n /\ Place(w) = v.data * ByteBits + (v.bitOffset + k)
  BY <1>1, ViewAtIs
<1>3. v.data * ByteBits \in Nat
  BY <1>1
<1>4. n > 0 => Place(v) = from
  BY DEF Fits
<1>5. n > 0 => Place(w) = from + k
  BY <1>1, <1>2, <1>3, <1>4 DEF Place
<1> HIDE DEF w
<1>6. Fits(w, from + k, from + k + n)
  BY <1>2, <1>5 DEF Fits
<1>7. n = 0 => Fits(NoView, from + k, from + k + n)
  BY NoViewIs DEF Fits
<1> QED
  BY <1>6, <1>7 DEF w

LEMMA ShrinksKeeps ==
    ASSUME SpanInv, NEW v, NEW k \in Nat, NEW n \in Nat, k + n <= Width,
           NEW from, from = window[1] + k, NEW to, to = window[1] + k + n,
           Fits(v, from, to), Shrinks(from, to, v)
    PROVE  SpanInv'
<1>1. /\ window[1] \in Nat /\ window[2] \in Nat /\ window[1] <= window[2] /\ window[2] <= AllBitsOf
      /\ Width = window[2] - window[1] /\ AllBitsOf \in Nat
  BY SpanSizes DEF SpanInv, Width
<1>2. from \in Nat /\ to \in Nat /\ from <= to /\ to <= AllBitsOf
  BY <1>1
<1>3. window' = <<from, to>> /\ view' = v /\ memory' = memory
  BY DEF Shrinks
<1>4. window'[1] = from /\ window'[2] = to /\ window' \in Nat \X Nat
  BY <1>2, <1>3
<1>5. memory' \in [1 .. SpanBytes -> SUBSET Offsets]
  BY <1>3 DEF SpanInv
<1>6. Fits(view', window'[1], window'[2])
  BY <1>3, <1>4
<1>7. AllBitsOf' = AllBitsOf
  BY DEF AllBitsOf
<1> QED
  BY <1>2, <1>4, <1>5, <1>6, <1>7 DEF SpanInv, Fits, IsView, Place

LEMMA EveryCutFits ==
    ASSUME SpanInv, SpanNext
    PROVE  SpanInv'
<1> DEFINE f == window[1]
           t == window[2]
           w == Width
<1>1. /\ f \in Nat /\ t \in Nat /\ f <= t /\ w = t - f /\ w \in Nat
      /\ AllBitsOf \in Nat /\ npos \in Nat /\ view.bitCount = w
      /\ Fits(view, f, t)
  BY SpanSizes DEF SpanInv, Width, Fits
<1>2. view.bitOffset \in Nat /\ view.data \in Nat /\ view.bitOffset + 0 = view.bitOffset
  BY LayoutAssumption DEF SpanInv, Fits, IsView, Offsets
<1>3. ASSUME NEW k \in Nat, NEW n \in Nat, k + n <= w
      PROVE  /\ Fits(ViewAt(view.data, view.bitOffset + k, n), f + k, f + k + n)
             /\ n = 0 => Fits(NoView, f + k, f + k + n)
  BY <1>1, <1>3, PartFits
<1>4. ASSUME NEW v, NEW k \in Nat, NEW n \in Nat, k + n <= w, Fits(v, f + k, f + k + n),
             NEW from, from = f + k, NEW to, to = f + k + n, Shrinks(from, to, v)
      PROVE  SpanInv'
  BY <1>4, ShrinksKeeps
<1>5. CASE SpanRemovePrefix
  <2>1. PICK n \in 0 .. AllBitsOf : Shrinks(f + SmallerOf(n, w), t, RemovePrefix(view, n))
    BY <1>5 DEF SpanRemovePrefix
  <2> DEFINE k == SmallerOf(n, w)
  <2>2. k \in Nat /\ k <= w /\ w - k \in Nat /\ k + (w - k) <= w /\ t = f + k + (w - k)
    BY <1>1 DEF SmallerOf
  <2>3. RemovePrefix(view, n) = ViewAt(view.data, view.bitOffset + k, w - k)
    BY <1>1 DEF RemovePrefix
  <2> HIDE DEF k, f, t, w
  <2>4. Fits(RemovePrefix(view, n), f + k, f + k + (w - k))
    BY <1>3, <2>2, <2>3
  <2> QED
    BY <1>4, <2>1, <2>2, <2>4 DEF k
<1>6. CASE SpanRemoveSuffix
  <2>1. PICK n \in 0 .. AllBitsOf : Shrinks(f, t - SmallerOf(n, w), RemoveSuffix(view, n))
    BY <1>6 DEF SpanRemoveSuffix
  <2> DEFINE k == SmallerOf(n, w)
             v == RemoveSuffix(view, n)
  <2>2. k \in Nat /\ k <= w /\ w - k \in Nat /\ 0 + (w - k) <= w
        /\ t - k = f + 0 + (w - k) /\ f = f + 0 /\ (w - k > 0 => t > f)
    BY <1>1 DEF SmallerOf
  <2>3. v = [view EXCEPT !.bitCount = w - k]
    BY <1>1 DEF RemoveSuffix
  <2> HIDE DEF k, f, t, w, v
  <2>4. view \in [data : Nat, bitOffset : Offsets, bitCount : Nat] /\ (t > f => Place(view) = f)
    BY <1>1 DEF Fits, IsView
  <2>5. v.data = view.data /\ v.bitOffset = view.bitOffset /\ v.bitCount = w - k /\ IsView(v)
    BY <2>2, <2>3, <2>4 DEF IsView
  <2>6. w - k > 0 => Place(v) = f
    BY <2>2, <2>4, <2>5 DEF Place
  <2>7. Fits(v, f + 0, f + 0 + (w - k))
    BY <1>1, <2>2, <2>5, <2>6 DEF Fits
  <2> QED
    BY <1>4, <2>1, <2>2, <2>7 DEF k, v
<1>7. CASE SpanPart
  <2>1. PICK pos \in 0 .. w, many \in 0 .. AllBitsOf \cup {npos} :
          \E v \in {Subspan(view, pos, many), MidView(view, pos, many)} :
            Shrinks(f + pos, f + SmallerOf(pos + many, w), v)
    BY <1>7 DEF SpanPart
  <2> DEFINE n == SmallerOf(many, w - pos)
  <2>2. pos \in Nat /\ n \in Nat /\ pos + n <= w /\ f + SmallerOf(pos + many, w) = f + pos + n
        /\ (pos >= w => n = 0)
    BY <1>1 DEF SmallerOf
  <2>3. Subspan(view, pos, many) = IF n = 0 THEN NoView ELSE ViewAt(view.data, view.bitOffset + pos, n)
    BY <1>1 DEF Subspan
  <2>4. MidView(view, pos, many) = IF pos >= w THEN NoView ELSE ViewAt(view.data, view.bitOffset + pos, n)
    BY <1>1 DEF MidView
  <2> HIDE DEF n, f, t, w
  <2>5. /\ Fits(ViewAt(view.data, view.bitOffset + pos, n), f + pos, f + pos + n)
        /\ n = 0 => Fits(NoView, f + pos, f + pos + n)
    BY <1>3, <2>2
  <2>6. /\ Fits(Subspan(view, pos, many), f + pos, f + pos + n)
        /\ Fits(MidView(view, pos, many), f + pos, f + pos + n)
    BY <2>2, <2>3, <2>4, <2>5
  <2> QED
    BY <1>4, <2>1, <2>2, <2>6
<1>8. CASE SpanLeft
  <2>1. PICK many \in 0 .. AllBitsOf : Shrinks(f, f + SmallerOf(many, w), LeftView(view, many))
    BY <1>8 DEF SpanLeft
  <2> DEFINE n == SmallerOf(many, w)
  <2>2. n \in Nat /\ 0 \in Nat /\ 0 + n <= w /\ f = f + 0 /\ f + n = f + 0 + n
        /\ (many = 0 => n = 0) /\ (many >= w => n = w /\ f + 0 + n = t) /\ (~ (many >= w) => n = many)
    BY <1>1 DEF SmallerOf
  <2>3. LeftView(view, many) = IF many = 0 THEN NoView ELSE IF many >= w THEN view
                               ELSE ViewAt(view.data, view.bitOffset + 0, many)
    BY <1>1, <1>2 DEF LeftView
  <2> HIDE DEF n, f, t, w
  <2>4. /\ Fits(ViewAt(view.data, view.bitOffset + 0, n), f + 0, f + 0 + n)
        /\ n = 0 => Fits(NoView, f + 0, f + 0 + n)
    BY <1>3, <2>2
  <2>5. Fits(LeftView(view, many), f + 0, f + 0 + n)
    BY <1>1, <2>2, <2>3, <2>4
  <2> QED
    BY <1>4, <2>1, <2>2, <2>5 DEF n
<1>9. CASE SpanRight
  <2>1. PICK many \in 0 .. AllBitsOf : Shrinks(t - SmallerOf(many, w), t, RightView(view, many))
    BY <1>9 DEF SpanRight
  <2> DEFINE n == SmallerOf(many, w)
             k == w - n
  <2>2. n \in Nat /\ k \in Nat /\ k + n <= w /\ t - n = f + k /\ t = f + k + n
        /\ (many = 0 => n = 0) /\ (many >= w => n = w /\ f + k = f) /\ (~ (many >= w) => n = many)
    <3>1. n \in Nat /\ n <= w /\ (many = 0 => n = 0) /\ (many >= w => n = w) /\ (~ (many >= w) => n = many)
      BY <1>1 DEF SmallerOf
    <3> HIDE DEF n, w, f, t
    <3> QED
      BY <1>1, <3>1
  <2>3. RightView(view, many) = IF many = 0 THEN NoView ELSE IF many >= w THEN view
                                ELSE ViewAt(view.data, view.bitOffset + (w - many), many)
    BY <1>1 DEF RightView
  <2>4. ~ (many >= w) => w - many = k
    BY <2>2
  <2> HIDE DEF n, f, t, w, k
  <2>5. /\ Fits(ViewAt(view.data, view.bitOffset + k, n), f + k, f + k + n)
        /\ n = 0 => Fits(NoView, f + k, f + k + n)
    BY <1>3, <2>2
  <2>6. Fits(RightView(view, many), f + k, f + k + n)
    BY <1>1, <2>2, <2>3, <2>4, <2>5
  <2> QED
    BY <1>4, <2>1, <2>2, <2>6 DEF n
<1> QED
  BY <1>5, <1>6, <1>7, <1>8, <1>9 DEF SpanNext

LEMMA SpanStarts == SpanInit => SpanInv
<1>1. SUFFICES ASSUME SpanInit, NEW s \in 0 .. AllBitsOf, NEW n \in 0 .. AllBitsOf - s,
                      view = ViewAt(0, s, n), window = <<s, s + n>>
               PROVE  SpanInv
  BY DEF SpanInit
<1>2. s \in Nat /\ n \in Nat /\ s + n \in Nat /\ s <= s + n /\ s + n <= AllBitsOf /\ s + n - s = n
      /\ 0 * ByteBits + s = s
  BY SpanSizes, LayoutAssumption
<1>3. IsView(view) /\ view.bitCount = n /\ Place(view) = s
  BY <1>1, <1>2, ViewAtIs
<1>4. window[1] = s /\ window[2] = s + n /\ window \in Nat \X Nat
  BY <1>1, <1>2
<1> QED
  BY <1>1, <1>2, <1>3, <1>4 DEF SpanInv, SpanInit, Fits

LEMMA SpanSteps == SpanInv /\ [SpanNext]_SpanVars => SpanInv'
<1>1. SpanInv /\ UNCHANGED SpanVars => SpanInv'
  BY DEF SpanInv, SpanVars, Fits, IsView, Place, AllBitsOf
<1> QED
  BY <1>1, EveryCutFits

\* A view begins at its window's first bit and has its window's length, inside
\* the memory.
THEOREM SpanInvHolds == SpanSpec => []SpanInv
<1>1. SpanInit => SpanInv
  BY SpanStarts
<1>2. SpanInv /\ [SpanNext]_SpanVars => SpanInv'
  BY SpanSteps
<1> QED
  BY <1>1, <1>2, PTL DEF SpanSpec

\* operator[] and the iterator read the same bits.
LEMMA ViewBitsAre ==
    ASSUME NEW m, NEW v, IsView(v)
    PROVE  LET s == ViewBits(m, v)
               n == v.bitCount
           IN /\ n \in Nat /\ s \in [1 .. n -> BOOLEAN] /\ Len(s) = n /\ DOMAIN s = 1 .. n
              /\ \A j \in Nat : j < n => j + 1 \in 1 .. n /\ s[j + 1] = TestView(m, v, j)
              /\ \A j : TestView(m, v, j) \in BOOLEAN
              /\ IterateView(m, v) = s
<1> DEFINE s == ViewBits(m, v)
           n == v.bitCount
<1>1. n \in Nat /\ v.bitOffset \in Nat
  BY LayoutAssumption DEF IsView, Offsets
<1>2. \A j : TestView(m, v, j) \in BOOLEAN
  BY DEF TestView
<1>3. s = [k \in 1 .. n |-> TestView(m, v, k - 1)]
  BY DEF ViewBits
<1>4. s \in [1 .. n -> BOOLEAN]
  BY <1>2, <1>3
<1>5. ASSUME NEW j \in Nat, j < n PROVE j + 1 \in 1 .. n /\ s[j + 1] = TestView(m, v, j)
  <2> DEFINE k == j + 1
  <2>1. k \in 1 .. n /\ k - 1 = j
    BY <1>1, <1>5
  <2> HIDE DEF k, n, s
  <2>2. s[k] = TestView(m, v, k - 1)
    BY <1>3, <2>1
  <2> QED
    BY <2>1, <2>2 DEF k
<1>6. IterateView(m, v) = s
  <2> DEFINE b == v.bitOffset
             e == b + n
             it(k) == BitOffset(b + k - 1) \in m[v.data + ByteIndex(b + k - 1) + 1]
  <2>1. e - b = n
    BY <1>1
  <2>2. IterateView(m, v) = [k \in 1 .. e - b |-> it(k)]
    BY DEF IterateView
  <2>3. ASSUME NEW k \in 1 .. n PROVE it(k) = TestView(m, v, k - 1)
    <3>1. b + k - 1 = b + (k - 1)
      BY <1>1
    <3> QED
      BY <3>1 DEF TestView
  <2> HIDE DEF n, e, b, it, s
  <2> QED
    BY <1>3, <2>1, <2>2, <2>3
<1> QED
  BY <1>1, <1>2, <1>4, <1>5, <1>6, CellsAreSeq

\* A pattern occurs in the string where it matches in the view.
LEMMA MatchIs ==
    ASSUME NEW m, NEW v, IsView(v), NEW p, IsView(p), NEW i \in Nat
    PROVE  Occurs(ViewBits(m, v), ViewBits(m, p), i) <=> i + p.bitCount <= v.bitCount /\ MatchAt(m, v, p, i)
<1> DEFINE s == ViewBits(m, v)
           t == ViewBits(m, p)
           n == v.bitCount
           k == p.bitCount
           c == SubSeq(s, i + 1, i + k)
<1>1. /\ n \in Nat /\ s \in [1 .. n -> BOOLEAN] /\ Len(s) = n /\ DOMAIN s = 1 .. n
      /\ \A j \in Nat : j < n => j + 1 \in 1 .. n /\ s[j + 1] = TestView(m, v, j)
  BY ViewBitsAre
<1>2. /\ k \in Nat /\ t \in [1 .. k -> BOOLEAN] /\ Len(t) = k /\ DOMAIN t = 1 .. k
      /\ \A j \in Nat : j < k => j + 1 \in 1 .. k /\ t[j + 1] = TestView(m, p, j)
  BY ViewBitsAre
<1> HIDE DEF s, t, n, k
<1>3. s \in Seq(BOOLEAN)
  BY <1>1, CellsAreSeq
<1>4. c = [x \in 1 .. i + k - (i + 1) + 1 |-> s[x + (i + 1) - 1]]
  BY <1>2, <1>3, CutIs
<1>5. i + k - (i + 1) + 1 = k /\ \A x \in Int : x + (i + 1) - 1 = x + i
  BY <1>2
<1>6. c = [x \in 1 .. k |-> c[x]] /\ \A x \in 1 .. k : c[x] = s[x + i]
  <2>1. c = [x \in 1 .. k |-> s[x + (i + 1) - 1]]
    BY <1>4, <1>5
  <2>2. \A x \in 1 .. k : c[x] = s[x + (i + 1) - 1]
    BY <2>1
  <2> HIDE DEF c
  <2>3. \A x \in 1 .. k : s[x + (i + 1) - 1] = s[x + i]
    BY <1>2, <1>5
  <2>4. \A x \in 1 .. k : c[x] = s[x + i]
    BY <2>2, <2>3
  <2>5. c = [x \in 1 .. k |-> c[x]]
    BY <2>1, <2>2
  <2> QED
    BY <2>4, <2>5
<1>7. Occurs(s, t, i) <=> i + k <= n /\ c = t
  BY <1>1, <1>2 DEF Occurs
<1> HIDE DEF c
<1>8. MatchAt(m, v, p, i) <=> \A j \in 0 .. k - 1 : TestView(m, v, i + j) = TestView(m, p, j)
  BY DEF MatchAt, k
<1>9. ASSUME i + k <= n, c = t, NEW j \in 0 .. k - 1 PROVE TestView(m, v, i + j) = TestView(m, p, j)
  <2>1. j \in Nat /\ j < k /\ i + j \in Nat /\ i + j < n /\ i + j + 1 = j + 1 + i
    BY <1>1, <1>2, <1>9
  <2>2. c[j + 1] = s[j + 1 + i]
    BY <1>2, <1>6, <2>1
  <2>3. t[j + 1] = TestView(m, p, j) /\ s[i + j + 1] = TestView(m, v, i + j)
    BY <1>1, <1>2, <2>1
  <2> QED
    BY <1>9, <2>1, <2>2, <2>3
<1>10. ASSUME i + k <= n, MatchAt(m, v, p, i) PROVE c = t
  <2>1. ASSUME NEW x \in 1 .. k PROVE c[x] = t[x]
    <3> DEFINE j == x - 1
    <3>1. j \in 0 .. k - 1 /\ j \in Nat /\ j < k /\ i + j \in Nat /\ i + j < n /\ j + 1 = x /\ i + j + 1 = x + i
      BY <1>1, <1>2, <1>10
    <3> HIDE DEF j
    <3>2. TestView(m, v, i + j) = TestView(m, p, j)
      BY <1>8, <1>10, <3>1
    <3>3. t[j + 1] = TestView(m, p, j) /\ s[i + j + 1] = TestView(m, v, i + j)
      BY <1>1, <1>2, <3>1
    <3>4. c[x] = s[x + i]
      BY <1>6
    <3> QED
      BY <3>1, <3>2, <3>3, <3>4
  <2>2. t = [x \in 1 .. k |-> t[x]]
    BY <1>2
  <2> QED
    BY <1>6, <2>1, <2>2, Zenon
<1> QED
  BY <1>7, <1>8, <1>9, <1>10 DEF s, t, n, k

LEMMA LeastIs ==
    ASSUME NEW S \in SUBSET Int, NEW none
    PROVE  /\ S = {} => LeastOf(S, none) = none /\ GreatestOf(S, none) = none
           /\ \A x \in S : (\A i \in S : x <= i) => LeastOf(S, none) = x
           /\ \A x \in S : (\A i \in S : i <= x) => GreatestOf(S, none) = x
<1>1. ASSUME NEW x \in S, \A i \in S : x <= i PROVE LeastOf(S, none) = x
  <2>1. \A y \in S : (\A i \in S : y <= i) => y = x
    BY <1>1
  <2>2. (CHOOSE i \in S : \A j \in S : i <= j) = x
    BY <1>1, <2>1
  <2> QED
    BY <2>2 DEF LeastOf
<1>2. ASSUME NEW x \in S, \A i \in S : i <= x PROVE GreatestOf(S, none) = x
  <2>1. \A y \in S : (\A i \in S : i <= y) => y = x
    BY <1>2
  <2>2. (CHOOSE i \in S : \A j \in S : j <= i) = x
    BY <1>2, <2>1
  <2> QED
    BY <2>2 DEF GreatestOf
<1> QED
  BY <1>1, <1>2 DEF LeastOf, GreatestOf

\* A set of indices that are bounded has a least and a greatest.
LEMMA EndsAreIn ==
    ASSUME NEW n \in Nat, NEW S \in SUBSET (0 .. n), S # {}, NEW none
    PROVE  LeastOf(S, none) \in S /\ GreatestOf(S, none) \in S
           /\ \A i \in S : LeastOf(S, none) <= i /\ i <= GreatestOf(S, none)
<1>1. S \in SUBSET Nat /\ S \in SUBSET Int
  OBVIOUS
<1>2. PICK x \in S : \A i \in S : x <= i
  BY <1>1, LeastElement
<1>3. PICK y \in S : \A i \in S : i <= y
  <2> DEFINE T == {n - i : i \in S}
  <2>1. T \in SUBSET Nat /\ T # {}
    OBVIOUS
  <2>2. PICK z \in T : \A i \in T : z <= i
    BY <2>1, LeastElement
  <2>3. PICK y \in S : z = n - y
    BY <2>2
  <2>4. ASSUME NEW i \in S PROVE i <= y
    <3>1. n - y <= n - i /\ i \in Int /\ y \in Int
      BY <1>1, <2>2, <2>3
    <3> QED
      BY <3>1
  <2> QED
    BY <2>4
<1>4. LeastOf(S, none) = x /\ GreatestOf(S, none) = y
  BY <1>1, <1>2, <1>3, LeastIs
<1> QED
  BY <1>2, <1>3, <1>4

\* The searches answer as on strings.
LEMMA IndexOfIs ==
    ASSUME NEW m, NEW v, IsView(v), NEW p, IsView(p), NEW pos \in Nat
    PROVE  LET spots == {i \in 0 .. v.bitCount : Occurs(ViewBits(m, v), ViewBits(m, p), i)}
           IN IndexOf(m, v, p, pos) = LeastOf({i \in spots : i >= pos}, npos)
<1> DEFINE places == {i \in 0 .. v.bitCount : Occurs(ViewBits(m, v), ViewBits(m, p), i)}
           n == v.bitCount
           k == p.bitCount
           S == {i \in places : i >= pos}
<1>1. n \in Nat /\ k \in Nat
  BY DEF IsView
<1>2. \A i \in 0 .. n : i \in places <=> i + k <= n /\ MatchAt(m, v, p, i)
  BY MatchIs
<1>3. S \in SUBSET Int /\ S = {i \in 0 .. n : i \in places /\ i >= pos}
  OBVIOUS
<1>4. SUFFICES IndexOf(m, v, p, pos) = LeastOf(S, npos)
  OBVIOUS
<1> HIDE DEF places, n, k, S
<1>5. CASE k = 0
  <2>1. \A i : MatchAt(m, v, p, i)
    BY <1>5 DEF MatchAt, k
  <2>2. S = {i \in 0 .. n : i >= pos}
    BY <1>1, <1>2, <1>3, <1>5, <2>1
  <2>3. IndexOf(m, v, p, pos) = IF pos <= n THEN pos ELSE npos
    BY <1>5 DEF IndexOf, n, k
  <2>4. CASE pos <= n
    <3>1. pos \in S /\ \A i \in S : pos <= i
      BY <1>1, <2>2, <2>4
    <3> QED
      BY <1>3, <2>3, <2>4, <3>1, LeastIs
  <2>5. CASE ~ (pos <= n)
    <3>1. S = {}
      BY <1>1, <2>2, <2>5
    <3>2. LeastOf(S, npos) = npos
      BY <1>3, <3>1, LeastIs
    <3> QED
      BY <2>3, <2>5, <3>2
  <2> QED
    BY <2>4, <2>5
<1>6. CASE k # 0 /\ (k > n \/ pos > n - k)
  <2>1. IndexOf(m, v, p, pos) = npos
    BY <1>6 DEF IndexOf, n, k
  <2>2. S = {}
    BY <1>1, <1>2, <1>3, <1>6
  <2>3. LeastOf(S, npos) = npos
    BY <1>3, <2>2, LeastIs
  <2> QED
    BY <2>1, <2>3
<1>7. CASE k # 0 /\ ~ (k > n \/ pos > n - k)
  <2>1. IndexOf(m, v, p, pos) = LeastOf({i \in pos .. n - k : MatchAt(m, v, p, i)}, npos)
    BY <1>7 DEF IndexOf, n, k
  <2>2. \A i \in pos .. n - k : i \in 0 .. n /\ i >= pos /\ i + k <= n
    BY <1>1, <1>7
  <2>3. \A i \in 0 .. n : i >= pos /\ i + k <= n => i \in pos .. n - k
    BY <1>1
  <2>4. {i \in pos .. n - k : MatchAt(m, v, p, i)} = S
    BY <1>2, <1>3, <2>2, <2>3
  <2> QED
    BY <2>1, <2>4
<1> QED
  BY <1>5, <1>6, <1>7

LEMMA LastIndexOfIs ==
    ASSUME NEW m, NEW v, IsView(v), NEW p, IsView(p), NEW pos \in Nat
    PROVE  LET spots == {i \in 0 .. v.bitCount : Occurs(ViewBits(m, v), ViewBits(m, p), i)}
           IN LastIndexOf(m, v, p, pos) = GreatestOf({i \in spots : i <= pos}, npos)
<1> DEFINE places == {i \in 0 .. v.bitCount : Occurs(ViewBits(m, v), ViewBits(m, p), i)}
           n == v.bitCount
           k == p.bitCount
           S == {i \in places : i <= pos}
<1>1. n \in Nat /\ k \in Nat
  BY DEF IsView
<1>2. \A i \in 0 .. n : i \in places <=> i + k <= n /\ MatchAt(m, v, p, i)
  BY MatchIs
<1>3. S \in SUBSET Int /\ S = {i \in 0 .. n : i \in places /\ i <= pos}
  OBVIOUS
<1>4. SUFFICES LastIndexOf(m, v, p, pos) = GreatestOf(S, npos)
  OBVIOUS
<1> HIDE DEF places, n, k, S
<1>5. CASE k = 0
  <2> DEFINE x == SmallerOf(pos, n)
  <2>1. \A i : MatchAt(m, v, p, i)
    BY <1>5 DEF MatchAt, k
  <2>2. S = {i \in 0 .. n : i <= pos}
    BY <1>1, <1>2, <1>3, <1>5, <2>1
  <2>3. LastIndexOf(m, v, p, pos) = x
    BY <1>5 DEF LastIndexOf, n, k
  <2>4. x \in 0 .. n /\ x <= pos /\ \A i \in 0 .. n : i <= pos => i <= x
    BY <1>1 DEF SmallerOf
  <2> HIDE DEF x
  <2>5. x \in S /\ \A i \in S : i <= x
    BY <2>2, <2>4
  <2> QED
    BY <1>3, <2>3, <2>5, LeastIs
<1>6. CASE k # 0 /\ k > n
  <2>1. LastIndexOf(m, v, p, pos) = npos
    BY <1>6 DEF LastIndexOf, n, k
  <2>2. S = {}
    BY <1>1, <1>2, <1>3, <1>6
  <2>3. GreatestOf(S, npos) = npos
    BY <1>3, <2>2, LeastIs
  <2> QED
    BY <2>1, <2>3
<1>7. CASE k # 0 /\ ~ (k > n)
  <2> DEFINE x == SmallerOf(pos, n - k)
  <2>1. LastIndexOf(m, v, p, pos) = GreatestOf({i \in 0 .. x : MatchAt(m, v, p, i)}, npos)
    BY <1>7 DEF LastIndexOf, n, k
  <2>2. x \in Nat /\ x <= pos /\ x <= n - k /\ (\A i \in Int : i <= pos /\ i <= n - k => i <= x)
    BY <1>1, <1>7 DEF SmallerOf
  <2> HIDE DEF x
  <2>3. \A i \in 0 .. x : i \in 0 .. n /\ i <= pos /\ i + k <= n
    BY <1>1, <1>7, <2>2
  <2>4. \A i \in 0 .. n : i <= pos /\ i + k <= n => i \in 0 .. x
    BY <1>1, <2>2
  <2>5. {i \in 0 .. x : MatchAt(m, v, p, i)} = S
    BY <1>2, <1>3, <2>3, <2>4
  <2> QED
    BY <2>1, <2>5
<1> QED
  BY <1>5, <1>6, <1>7

\* startsWith(), endsWith()
LEMMA EndsMatch ==
    ASSUME NEW m, NEW v, IsView(v), NEW p, IsView(p)
    PROVE  LET s == ViewBits(m, v)
               t == ViewBits(m, p)
               spots == {i \in 0 .. v.bitCount : Occurs(s, t, i)}
           IN /\ StartsWith(m, v, p) <=> 0 \in spots
              /\ EndsWith(m, v, p) <=> (Len(s) - Len(t)) \in spots
              /\ CompareViews(m, v, p) = 0 <=> s = t
<1> DEFINE s == ViewBits(m, v)
           t == ViewBits(m, p)
           n == v.bitCount
           k == p.bitCount
           places == {i \in 0 .. v.bitCount : Occurs(s, t, i)}
<1>1. n \in Nat /\ s \in [1 .. n -> BOOLEAN] /\ Len(s) = n /\ k \in Nat /\ t \in [1 .. k -> BOOLEAN] /\ Len(t) = k
  BY ViewBitsAre
<1>2. \A i \in Nat : Occurs(s, t, i) <=> i + k <= n /\ MatchAt(m, v, p, i)
  BY MatchIs
<1> HIDE DEF s, t
<1>3. StartsWith(m, v, p) <=> 0 \in places
  <2>1. 0 \in 0 .. n /\ 0 \in Nat /\ 0 + k = k
    BY <1>1
  <2> QED
    BY <1>2, <2>1 DEF StartsWith
<1>4. EndsWith(m, v, p) <=> (Len(s) - Len(t)) \in places
  <2>1. k <= n => n - k \in 0 .. n /\ n - k \in Nat /\ n - k + k <= n
    BY <1>1
  <2>2. n - k \in 0 .. n => k <= n
    BY <1>1
  <2> HIDE DEF n, k
  <2>3. EndsWith(m, v, p) <=> k <= n /\ MatchAt(m, v, p, n - k)
    BY DEF EndsWith, n, k
  <2>4. n - k \in places <=> n - k \in 0 .. n /\ Occurs(s, t, n - k)
    BY DEF n
  <2> QED
    BY <1>1, <1>2, <2>1, <2>2, <2>3, <2>4
<1>5. CompareViews(m, v, p) = 0 <=> s = t
  BY <1>1, CompareIs DEF CompareViews, s, t
<1> QED
  BY <1>3, <1>4, <1>5 DEF s, t

\* count()
LEMMA CountIs ==
    ASSUME NEW n \in Nat, NEW s \in [1 .. n -> BOOLEAN], NEW bit
    PROVE  LET S == {i \in 0 .. n - 1 : s[i + 1] = bit}
           IN Count(s, bit) = Cardinality(S) /\ Count(s, bit) \in Nat /\ (Count(s, bit) > 0 <=> S # {})
<1> DEFINE S == {i \in 0 .. n - 1 : s[i + 1] = bit}
           T == {i \in 1 .. n : s[i] = bit}
           f == [i \in S |-> i + 1]
<1>1. IsFiniteSet(S)
  <2>1. 0 \in Int /\ n - 1 \in Int
    OBVIOUS
  <2>2. IsFiniteSet(0 .. n - 1)
    BY <2>1, FS_Interval
  <2>3. S \in SUBSET (0 .. n - 1)
    OBVIOUS
  <2> QED
    BY <2>2, <2>3, FS_Subset
<1>2. Count(s, bit) = Cardinality(T)
  BY DEF Count
<1>3. \A i \in S : i + 1 \in T
  OBVIOUS
<1>4. ASSUME NEW j \in T PROVE j - 1 \in S /\ j - 1 + 1 = j
  <2>1. j \in 1 .. n /\ s[j] = bit
    OBVIOUS
  <2>2. j - 1 \in 0 .. n - 1 /\ (j - 1) + 1 = j
    BY <2>1
  <2> QED
    BY <2>1, <2>2
<1>5. \A i \in S : i \in Int
  OBVIOUS
<1> HIDE DEF S, T
<1>6. f \in [S -> T]
  BY <1>3
<1>7. \A a, b \in S : f[a] = f[b] => a = b
  BY <1>5
<1>8. \A j \in T : \E i \in S : f[i] = j
  <2>1. SUFFICES ASSUME NEW j \in T PROVE \E i \in S : f[i] = j
    OBVIOUS
  <2>2. j - 1 \in S /\ f[j - 1] = j
    <3>1. j - 1 \in S
      BY <1>4
    <3>2. f[j - 1] = (j - 1) + 1
      BY <3>1
    <3> QED
      BY <1>4, <3>1, <3>2
  <2> QED
    BY <2>2
<1> HIDE DEF f
<1>9. f \in Bijection(S, T)
  BY <1>6, <1>7, <1>8, Fun_IsBij
<1>10. ExistsBijection(S, T)
  BY <1>9, Fun_ExistsBij
<1>11. Cardinality(T) = Cardinality(S)
  BY <1>1, <1>10, FS_Bijection
<1>12. Cardinality(S) \in Nat
  BY <1>1, FS_CardinalityType
<1>13. Cardinality(S) = 0 <=> S = {}
  BY <1>1, FS_EmptySet
<1> QED
  BY <1>2, <1>11, <1>12, <1>13 DEF S

\* count(), indexOf() and lastIndexOf() of a bit
LEMMA BitSearches ==
    ASSUME NEW m, NEW v, IsView(v), v.bitCount <= npos, NEW bit
    PROVE  LET s == ViewBits(m, v)
           IN /\ CountBits(m, v, bit) = Count(s, bit)
              /\ IndexOfBit(m, v, bit, 0) # npos <=> Count(s, bit) > 0
              /\ LastIndexOfBit(m, v, bit, npos) # npos <=> Count(s, bit) > 0
<1> DEFINE s == ViewBits(m, v)
           n == v.bitCount
           S == {i \in 0 .. n - 1 : TestView(m, v, i) = bit}
<1>1. /\ n \in Nat /\ s \in [1 .. n -> BOOLEAN]
      /\ \A j \in Nat : j < n => j + 1 \in 1 .. n /\ s[j + 1] = TestView(m, v, j)
  BY ViewBitsAre
<1>2. npos \in Nat
  BY SpanSizes
<1>3. CountBits(m, v, bit) = Cardinality(S)
  BY DEF CountBits
<1>4. IndexOfBit(m, v, bit, 0) = LeastOf(S, npos)
  BY DEF IndexOfBit
<1>5. LastIndexOfBit(m, v, bit, npos) = IF n = 0 THEN npos ELSE GreatestOf(S, npos)
  <2>1. n # 0 => SmallerOf(npos, n - 1) = n - 1
    BY <1>1, <1>2 DEF SmallerOf
  <2> QED
    BY <2>1 DEF LastIndexOfBit
<1> HIDE DEF s
<1>6. S = {i \in 0 .. n - 1 : s[i + 1] = bit}
  <2>1. \A i \in 0 .. n - 1 : i \in Nat /\ i < n
    BY <1>1
  <2> HIDE DEF n
  <2> QED
    BY <1>1, <2>1
<1>7. S \in SUBSET Int /\ (n = 0 => S = {}) /\ S \in SUBSET (0 .. n) /\ \A i \in S : i < n
  BY <1>1
<1>8. n <= npos
  OBVIOUS
<1> HIDE DEF S, n
<1>9. Count(s, bit) = Cardinality(S) /\ (Count(s, bit) > 0 <=> S # {})
  BY <1>1, <1>6, CountIs
<1>10. S = {} => LeastOf(S, npos) = npos /\ GreatestOf(S, npos) = npos
  BY <1>7, LeastIs
<1>11. S # {} => LeastOf(S, npos) \in S /\ GreatestOf(S, npos) \in S
  BY <1>1, <1>7, EndsAreIn
<1>12. \A i \in S : i # npos
  BY <1>1, <1>2, <1>7, <1>8
<1>13. LeastOf(S, npos) # npos <=> S # {}
  BY <1>10, <1>11, <1>12
<1>14. (IF n = 0 THEN npos ELSE GreatestOf(S, npos)) # npos <=> S # {}
  BY <1>7, <1>10, <1>11, <1>12
<1> QED
  BY <1>3, <1>4, <1>5, <1>9, <1>13, <1>14 DEF s

\* What the window cuts out of the memory is what the view shows.
LEMMA WindowIs ==
    ASSUME SpanInv
    PROVE  ViewBits(memory, view) = SubSeq(Whole, window[1] + 1, window[2])
<1> DEFINE s == ViewBits(memory, view)
           f == window[1]
           t == window[2]
           n == view.bitCount
           c == SubSeq(Whole, f + 1, t)
<1>1. f \in Nat /\ t \in Nat /\ f <= t /\ t <= AllBitsOf /\ n = t - f /\ IsView(view) /\ (t > f => Place(view) = f)
  BY DEF SpanInv, Fits
<1>2. AllBitsOf \in Nat
  BY SpanSizes
<1>3. Whole = [i \in 1 .. AllBitsOf |-> MemoryBit(memory, i - 1)]
  BY DEF Whole, MemoryBit, ByteIndex, BitOffset
<1>4. \A i : MemoryBit(memory, i) \in BOOLEAN
  BY DEF MemoryBit
<1>5. Whole \in Seq(BOOLEAN)
  <2>1. Whole \in [1 .. AllBitsOf -> BOOLEAN]
    BY <1>3, <1>4
  <2> QED
    BY <1>2, <2>1, CellsAreSeq
<1> HIDE DEF s, f, t, n
<1>6. c = [i \in 1 .. t - (f + 1) + 1 |-> Whole[i + (f + 1) - 1]]
  <2>1. f + 1 \in Nat \ {0}
    BY <1>1
  <2> QED
    BY <1>1, <1>5, <2>1, CutIs
<1>7. t - (f + 1) + 1 = n
  BY <1>1
<1>8. ASSUME NEW k \in 1 .. n PROVE Whole[k + (f + 1) - 1] = TestView(memory, view, k - 1)
  <2>1. k + (f + 1) - 1 = f + k /\ f + k \in 1 .. AllBitsOf /\ k - 1 \in Nat /\ (f + k) - 1 = f + (k - 1) /\ t > f
    BY <1>1, <1>2
  <2>2. Whole[f + k] = MemoryBit(memory, f + (k - 1))
    BY <1>3, <2>1
  <2>3. TestView(memory, view, k - 1) <=> MemoryBit(memory, Place(view) + (k - 1))
    BY <1>1, <2>1, TestViewIs
  <2>4. TestView(memory, view, k - 1) <=> MemoryBit(memory, f + (k - 1))
    BY <1>1, <2>1, <2>3
  <2>5. TestView(memory, view, k - 1) \in BOOLEAN /\ MemoryBit(memory, f + (k - 1)) \in BOOLEAN
    BY DEF TestView, MemoryBit
  <2> QED
    BY <2>1, <2>2, <2>4, <2>5
<1>9. s = [k \in 1 .. n |-> TestView(memory, view, k - 1)]
  BY DEF ViewBits, s, n
<1> HIDE DEF c
<1>10. c = [k \in 1 .. n |-> Whole[k + (f + 1) - 1]]
  BY <1>6, <1>7
<1>11. c = s
  BY <1>8, <1>9, <1>10
<1> QED
  BY <1>11 DEF c, s, f, t

LEMMA ViewCalls ==
    ASSUME SpanInv
    PROVE  ViewShowsWindow
<1> DEFINE s == ViewBits(memory, view)
           n == view.bitCount
<1>1. IsView(view) /\ n = Width /\ n \in Nat /\ n <= npos
  <2>1. window[1] \in Nat /\ window[2] \in Nat /\ window[1] <= window[2] /\ window[2] <= AllBitsOf
        /\ n = window[2] - window[1] /\ IsView(view)
    BY DEF SpanInv, Fits
  <2> HIDE DEF n
  <2>2. n \in Nat /\ n <= npos
    BY <2>1, SpanSizes
  <2> QED
    BY <2>1, <2>2 DEF Width
<1>2. ViewBits(memory, view) = SubSeq(Whole, window[1] + 1, window[2])
  BY WindowIs
<1>3. IterateView(memory, view) = s
  BY <1>1, ViewBitsAre
<1>4. ASSUME NEW p \in Patterns, NEW pos \in 0 .. Width + 1
      PROVE  LET t == ViewBits(memory, p)
                 spots == {i \in 0 .. Width : Occurs(s, t, i)}
             IN /\ IndexOf(memory, view, p, pos) = LeastOf({i \in spots : i >= pos}, npos)
                /\ LastIndexOf(memory, view, p, pos) = GreatestOf({i \in spots : i <= pos}, npos)
                /\ StartsWith(memory, view, p) <=> 0 \in spots
                /\ EndsWith(memory, view, p) <=> (Len(s) - Len(t)) \in spots
                /\ CompareViews(memory, view, p) = 0 <=> s = t
  <2>1. pos \in Nat
    BY <1>1
  <2>2. IsView(p)
    <3>1. PICK first \in 0 .. ByteBits, m \in 0 .. AllBitsOf - ByteBits : p = ViewAt(0, first, m)
      BY DEF Patterns
    <3>2. first \in Nat /\ m \in Nat /\ 0 \in Nat
      BY SpanSizes, LayoutAssumption
    <3> QED
      BY <3>1, <3>2, ViewAtIs
  <2>3. Width = view.bitCount
    BY <1>1
  <2>4. IndexOf(memory, view, p, pos)
          = LeastOf({i \in {i \in 0 .. Width : Occurs(s, ViewBits(memory, p), i)} : i >= pos}, npos)
    BY <1>1, <2>1, <2>2, <2>3, IndexOfIs
  <2>5. LastIndexOf(memory, view, p, pos)
          = GreatestOf({i \in {i \in 0 .. Width : Occurs(s, ViewBits(memory, p), i)} : i <= pos}, npos)
    BY <1>1, <2>1, <2>2, <2>3, LastIndexOfIs
  <2>6. LET t == ViewBits(memory, p)
            spots == {i \in 0 .. Width : Occurs(s, t, i)}
        IN /\ StartsWith(memory, view, p) <=> 0 \in spots
           /\ EndsWith(memory, view, p) <=> (Len(s) - Len(t)) \in spots
           /\ CompareViews(memory, view, p) = 0 <=> s = t
    BY <1>1, <2>2, <2>3, EndsMatch
  <2> HIDE DEF s
  <2> QED
    BY <2>4, <2>5, <2>6
<1>5. ASSUME NEW bit \in BOOLEAN
      PROVE  /\ CountBits(memory, view, bit) = Count(s, bit)
             /\ IndexOfBit(memory, view, bit, 0) # npos <=> Count(s, bit) > 0
             /\ LastIndexOfBit(memory, view, bit, npos) # npos <=> Count(s, bit) > 0
  BY <1>1, BitSearches
<1> HIDE DEF s
<1>6. SubSeq(Whole, window[1] + 1, window[2]) = s
  BY <1>2 DEF s
<1>7. ViewBits(memory, view) = s
  BY DEF s
<1> QED
  BY <1>3, <1>4, <1>5, <1>6, <1>7 DEF ViewShowsWindow

\* However a view was cut, it shows the bits of its window.
THEOREM ViewsAlwaysShow == SpanSpec => []ViewShowsWindow
<1>1. SpanInv => ViewShowsWindow
  BY ViewCalls
<1> QED
  BY <1>1, SpanInvHolds, PTL

-----------------------------------------------------------------------------
(* Bit sets *)

\* An instance that fits is one word, of which the bits below c are used.
Below(c) == 0 .. c - 1
SetWith(c, S) == [capacity |-> c, words |-> [w \in 1 .. 1 |-> S], how |-> "defined"]
Fit(c) == c \in Nat \ {0} /\ Fitting(c)

LEMMA OneWord ==
    ASSUME NEW c, Fit(c)
    PROVE  /\ c \in Nat /\ c > 0 /\ WordBits(c) \in Nat /\ c <= WordBits(c) /\ WordBits(c) <= IntBits
           /\ WordCount(c) = 1 /\ WordOffsets(c) = Below(WordBits(c)) /\ Ones(c) = Below(WordBits(c))
           /\ Below(c) \subseteq WordOffsets(c)
           /\ \A i \in Below(c) : WordBitOffset(c, i) = i /\ WordIndex(c, i) = 0
<1> DEFINE W == WordBits(c)
<1>1. c \in Nat /\ c > 0 /\ ByteBits \in Nat \ {0}
  BY LayoutAssumption DEF Fit
<1>2. W \in Nat /\ c <= W /\ W <= 4 * ByteBits
  BY <1>1 DEF Fit, Fitting, IntBits, WordBits
<1>3. W <= IntBits /\ IntBits \in Nat
  BY <1>1, <1>2 DEF IntBits
<1>4. WordCount(c) = 1
  <2>1. WordCount(c) = (c + W - 1) \div W
    BY DEF WordCount
  <2> HIDE DEF W
  <2>2. W > 0 /\ c + W - 1 = 1 * W + (c - 1) /\ 0 <= c - 1 /\ c - 1 < W
    BY <1>1, <1>2
  <2>3. (c + W - 1) \div W = 1
    <3> DEFINE x == c - 1
    <3>1. x \in 0 .. W - 1
      BY <1>1, <1>2, <2>2
    <3> HIDE DEF x
    <3>2. (W + x) \div W = 1
      BY <1>2, <2>2, <3>1
    <3>3. c + W - 1 = W + x
      BY <1>1, <1>2 DEF x
    <3> QED
      BY <3>2, <3>3
  <2> QED
    BY <2>1, <2>3
<1>5. SmallerOf(W, IntBits) = W
  BY <1>2, <1>3 DEF SmallerOf
<1>6. WordOffsets(c) = Below(W) /\ Ones(c) = Below(W)
  BY <1>5 DEF WordOffsets, Ones, Below
<1> HIDE DEF W
<1>7. Below(c) \subseteq Below(W)
  BY <1>1, <1>2 DEF Below
<1>8. ASSUME NEW i \in Below(c) PROVE WordBitOffset(c, i) = i /\ WordIndex(c, i) = 0
  <2>1. i \in 0 .. W - 1 /\ W > 0
    BY <1>1, <1>2, <1>8 DEF Below
  <2>2. i % W = i /\ i \div W = 0
    BY <1>2, <2>1
  <2> QED
    BY <2>2 DEF WordBitOffset, WordIndex, W
<1> QED
  BY <1>1, <1>2, <1>3, <1>4, <1>6, <1>7, <1>8 DEF W

LEMMA SetWithIs ==
    ASSUME NEW c, NEW S
    PROVE  LET s == SetWith(c, S)
           IN /\ s.capacity = c /\ s.how = "defined" /\ s.words[1] = S /\ DOMAIN s.words = 1 .. 1
              /\ s.words = [w \in 1 .. 1 |-> S]
              /\ \A x : [s EXCEPT !.words = [w \in 1 .. 1 |-> x]] = SetWith(c, x)
  BY DEF SetWith

\* testBit()
LEMMA TestAtIs ==
    ASSUME NEW c, Fit(c), NEW S \in SUBSET Below(c), NEW i \in Nat
    PROVE  TestAt(SetWith(c, S), i) <=> i \in S
<1> DEFINE s == SetWith(c, S)
<1>1. s.capacity = c /\ s.words[1] = S
  BY SetWithIs
<1> HIDE DEF s
<1>2. c \in Nat
  BY DEF Fit
<1>3. i < c <=> i \in Below(c)
  BY <1>2 DEF Below
<1>4. i < c => WordBitOffset(c, i) = i /\ WordIndex(c, i) + 1 = 1
  BY <1>3, OneWord
<1>5. TestAt(s, i) <=> i < c /\ WordBitOffset(c, i) \in s.words[WordIndex(c, i) + 1]
  BY <1>1 DEF TestAt
<1> QED
  BY <1>1, <1>3, <1>4, <1>5 DEF s

LEMMA BitsOfSet ==
    ASSUME NEW c, Fit(c), NEW S \in SUBSET Below(c)
    PROVE  /\ SetBitsOf(SetWith(c, S)) = [k \in 1 .. c |-> k - 1 \in S]
           /\ SetBitsOf(SetWith(c, S)) \in [1 .. c -> BOOLEAN]
           /\ DOMAIN SetBitsOf(SetWith(c, S)) = 1 .. c
<1> DEFINE s == SetWith(c, S)
<1>1. s.capacity = c
  BY SetWithIs
<1>2. c \in Nat
  BY DEF Fit
<1>3. \A k \in 1 .. c : k - 1 \in Nat
  BY <1>2
<1>4. \A k \in 1 .. c : TestAt(s, k - 1) <=> k - 1 \in S
  BY <1>3, TestAtIs
<1> HIDE DEF s
<1>5. \A k : TestAt(s, k) \in BOOLEAN
  BY DEF TestAt
<1>6. \A k \in 1 .. c : TestAt(s, k - 1) = (k - 1 \in S)
  BY <1>4, <1>5
<1>7. SetBitsOf(s) = [k \in 1 .. c |-> TestAt(s, k - 1)]
  BY <1>1 DEF SetBitsOf
<1>8. SetBitsOf(s) = [k \in 1 .. c |-> k - 1 \in S]
  BY <1>6, <1>7
<1> QED
  BY <1>8 DEF s

\* clearUnusedBits()
LEMMA UnusedBitsGo ==
    ASSUME NEW c, Fit(c), NEW X \in SUBSET WordOffsets(c)
    PROVE  ClearUnused(SetWith(c, X)) = SetWith(c, X \cap Below(c))
<1> DEFINE s == SetWith(c, X)
           last == c - 1
<1>1. /\ c \in Nat /\ c > 0 /\ ByteBits \in Nat \ {0} /\ WordCount(c) = 1 /\ last \in Nat
      /\ WordOffsets(c) = Below(WordBits(c))
  BY OneWord, LayoutAssumption
<1>2. s.capacity = c /\ s.words[1] = X /\ DOMAIN s.words = 1 .. 1
  BY SetWithIs
<1>3. ClearUnused(s) = IF BitOffset(last) >= ByteBits - 1 THEN s
                       ELSE IF ByteIndex(last) >= 1 THEN [s EXCEPT !.how = "overrun"]
                       ELSE [s EXCEPT !.words[ByteIndex(last) + 1] = @ \cap 0 .. BitOffset(last)]
  BY <1>1, <1>2 DEF ClearUnused
<1>4. CASE c <= ByteBits
  <2>1. last \in 0 .. ByteBits - 1 /\ WordBits(c) = ByteBits
    BY <1>1, <1>4 DEF WordBits
  <2>2. ByteIndex(last) = 0 /\ BitOffset(last) = last
    <3>1. last \div ByteBits = 0 /\ last % ByteBits = last
      <4> HIDE DEF last
      <4> QED
        BY <1>1, <2>1
    <3> QED
      BY <3>1 DEF ByteIndex, BitOffset
  <2>3. CASE last >= ByteBits - 1
    <3>1. c = ByteBits
      BY <1>1, <1>4, <2>3
    <3>2. X \cap Below(c) = X
      BY <1>1, <2>1, <3>1
    <3> HIDE DEF last
    <3> QED
      BY <1>3, <2>2, <2>3, <3>2
  <2>4. CASE ~ (last >= ByteBits - 1)
    <3>1. ClearUnused(s) = [s EXCEPT !.words[1] = @ \cap 0 .. last]
      <4>1. ~ (0 >= 1) /\ 0 + 1 = 1
        OBVIOUS
      <4> HIDE DEF last, s
      <4> QED
        BY <1>3, <2>2, <2>4, <4>1
    <3>2. 0 .. last = Below(c)
      BY DEF Below
    <3>3. [s EXCEPT !.words[1] = @ \cap Below(c)] = SetWith(c, X \cap Below(c))
      BY DEF SetWith
    <3> QED
      BY <3>1, <3>2, <3>3
  <2> QED
    BY <2>3, <2>4
<1>5. CASE ~ (c <= ByteBits)
  <2>1. c = WordBits(c) /\ c <= IntBits
    BY <1>5 DEF Fit, Fitting
  <2>2. c \in {2 * ByteBits, 4 * ByteBits, 8 * ByteBits}
    BY <1>1, <1>5, <2>1 DEF WordBits
  <2>3. PICK b \in Nat \ {0} : c = b * ByteBits
    BY <2>2
  <2>4. ByteBits - 1 \in Offsets /\ last = IndexOfCell(b, ByteBits - 1)
    <3>1. ByteBits - 1 \in Offsets
      BY <1>1 DEF Offsets
    <3>2. b * ByteBits = (b - 1) * ByteBits + ByteBits /\ (b - 1) * ByteBits \in Nat
      BY <1>1
    <3>3. last = (b - 1) * ByteBits + (ByteBits - 1)
      BY <1>1, <2>3, <3>2
    <3> QED
      BY <3>1, <3>3 DEF IndexOfCell
  <2>5. BitOffset(last) = ByteBits - 1
    <3>1. BitOffset(IndexOfCell(b, ByteBits - 1)) = ByteBits - 1
      BY <2>4, IndexOfByte
    <3> QED
      BY <2>4, <3>1
  <2>6. X \cap Below(c) = X
    BY <1>1, <2>1
  <2>7. ByteBits - 1 >= ByteBits - 1
    BY <1>1
  <2> HIDE DEF last
  <2> QED
    BY <1>3, <2>5, <2>6, <2>7
<1> QED
  BY <1>4, <1>5

\* setBit(), toggleBit() and their loops: the bits that are to be true.
PutThem(s, chosen, B) ==
  LET inside == {i \in chosen : i < s.capacity}
  IN IF \E i \in inside : ~ Shiftable(s.capacity, i) THEN [s EXCEPT !.how = "undefined"]
     ELSE [s EXCEPT !.words = [w \in DOMAIN s.words |->
             {o \in WordOffsets(s.capacity) :
                LET i == (w - 1) * WordBits(s.capacity) + o
                IN IF i \in inside THEN i \in B ELSE o \in s.words[w]}]]

Taken(c, S, chosen, B) == {o \in Below(c) : IF o \in chosen THEN o \in B ELSE o \in S}

LEMMA PutThemIs ==
    ASSUME NEW c, Fit(c), NEW S \in SUBSET Below(c), NEW chosen \in SUBSET Nat, NEW B
    PROVE  PutThem(SetWith(c, S), chosen, B) = SetWith(c, Taken(c, S, chosen, B))
<1> DEFINE s == SetWith(c, S)
           W == WordBits(c)
           inside == {i \in chosen : i < c}
           cell(w) == {o \in WordOffsets(c) :
                         LET i == (w - 1) * W + o
                         IN IF i \in inside THEN i \in B ELSE o \in s.words[w]}
<1>1. /\ c \in Nat /\ W \in Nat /\ c <= W /\ W <= IntBits /\ WordOffsets(c) = Below(W)
      /\ \A i \in Below(c) : WordBitOffset(c, i) = i
  BY OneWord
<1>2. s.capacity = c /\ s.words[1] = S /\ DOMAIN s.words = 1 .. 1
      /\ \A x : [s EXCEPT !.words = [w \in 1 .. 1 |-> x]] = SetWith(c, x)
  BY SetWithIs
<1>3. IntBits \in Nat
  BY LayoutAssumption DEF IntBits
<1> HIDE DEF s, W
<1>4. ~ \E i \in inside : ~ Shiftable(c, i)
  <2>1. ASSUME NEW i \in inside PROVE Shiftable(c, i)
    <3>1. i \in Below(c) /\ i < IntBits
      BY <1>1, <1>3 DEF Below
    <3> QED
      BY <1>1, <3>1 DEF Shiftable
  <2> QED
    BY <2>1
<1>5. PutThem(s, chosen, B) = [s EXCEPT !.words = [w \in 1 .. 1 |-> cell(w)]]
  BY <1>2, <1>4 DEF PutThem, W
<1>6. cell(1) = Taken(c, S, chosen, B)
  <2>1. ASSUME NEW o \in Below(W) PROVE (1 - 1) * W + o = o
    BY <1>1 DEF Below
  <2>2. cell(1) = {o \in Below(W) : IF o \in inside THEN o \in B ELSE o \in S}
    BY <1>1, <1>2, <2>1
  <2>3. \A o \in Below(c) : o \in Below(W) /\ (o \in inside <=> o \in chosen)
    BY <1>1 DEF Below
  <2>4. \A o \in inside : o \in Below(c)
    BY <1>1 DEF Below
  <2> HIDE DEF cell, inside
  <2> QED
    BY <2>2, <2>3, <2>4 DEF Taken
<1>7. [w \in 1 .. 1 |-> cell(w)] = [w \in 1 .. 1 |-> cell(1)]
  OBVIOUS
<1> HIDE DEF cell
<1> QED
  BY <1>2, <1>5, <1>6, <1>7 DEF s

\* The loops of the class: one value, complements, another set, a list.
LEMMA LoopsPut ==
    ASSUME NEW s, NEW chosen \in SUBSET Nat, NEW value \in BOOLEAN
    PROVE  /\ PutAll(s, chosen, LAMBDA i : value) = PutThem(s, chosen, IF value THEN Nat ELSE {})
           /\ PutAll(s, chosen, LAMBDA i : ~ TestAt(s, i)) = PutThem(s, chosen, {i \in Nat : ~ TestAt(s, i)})
           /\ PutAll(s, chosen, LAMBDA i : IF value THEN ~ TestAt(s, i) ELSE TestAt(s, i))
                = PutThem(s, chosen, {i \in Nat : IF value THEN ~ TestAt(s, i) ELSE TestAt(s, i)})
<1>1. PutAll(s, chosen, LAMBDA i : value) = PutThem(s, chosen, IF value THEN Nat ELSE {})
  BY DEF PutAll, PutThem
<1>2. PutAll(s, chosen, LAMBDA i : ~ TestAt(s, i)) = PutThem(s, chosen, {i \in Nat : ~ TestAt(s, i)})
  BY DEF PutAll, PutThem
<1>3. PutAll(s, chosen, LAMBDA i : IF value THEN ~ TestAt(s, i) ELSE TestAt(s, i))
        = PutThem(s, chosen, {i \in Nat : IF value THEN ~ TestAt(s, i) ELSE TestAt(s, i)})
  BY DEF PutAll, PutThem
<1> QED
  BY <1>1, <1>2, <1>3

LEMMA PartPut ==
    ASSUME NEW s, NEW new, NEW start \in Nat, NEW chosen \in SUBSET Nat
    PROVE  PutAll(new, chosen, LAMBDA i : TestAt(s, start + i))
             = PutThem(new, chosen, {i \in Nat : TestAt(s, start + i)})
  BY DEF PutAll, PutThem

LEMMA ListPut ==
    ASSUME NEW new, NEW chosen \in SUBSET Nat, NEW bits
    PROVE  PutAll(new, chosen, LAMBDA i : bits[i + 1]) = PutThem(new, chosen, {i \in Nat : bits[i + 1]})
<1>1. \A i \in chosen : bits[i + 1] <=> i \in {k \in Nat : bits[k + 1]}
  OBVIOUS
<1> QED
  BY <1>1 DEF PutAll, PutThem

\* setBit(), toggleBit(), and fill() and flip() of a range
LEMMA PutsAre ==
    ASSUME NEW c, Fit(c), NEW S \in SUBSET Below(c), NEW chosen \in SUBSET Nat, NEW value \in BOOLEAN
    PROVE  LET s == SetWith(c, S)
           IN /\ PutAll(s, chosen, LAMBDA i : value)
                   = SetWith(c, Taken(c, S, chosen, IF value THEN Nat ELSE {}))
              /\ PutAll(s, chosen, LAMBDA i : ~ TestAt(s, i)) = SetWith(c, Taken(c, S, chosen, Nat \ S))
              /\ PutAll(s, chosen, LAMBDA i : IF value THEN ~ TestAt(s, i) ELSE TestAt(s, i))
                   = SetWith(c, Taken(c, S, chosen, IF value THEN Nat \ S ELSE S))
<1> DEFINE s == SetWith(c, S)
<1>1. \A i \in Nat : TestAt(s, i) <=> i \in S
  BY TestAtIs
<1>2. S \in SUBSET Nat
  BY OneWord DEF Below
<1>3. \A B : PutThem(s, chosen, B) = SetWith(c, Taken(c, S, chosen, B))
  BY PutThemIs
<1> HIDE DEF s
<1>4. {i \in Nat : ~ TestAt(s, i)} = Nat \ S
  BY <1>1
<1>5. {i \in Nat : IF value THEN ~ TestAt(s, i) ELSE TestAt(s, i)} = IF value THEN Nat \ S ELSE S
  BY <1>1, <1>2
<1>6. PutAll(s, chosen, LAMBDA i : value) = PutThem(s, chosen, IF value THEN Nat ELSE {})
  BY LoopsPut
<1>7. PutAll(s, chosen, LAMBDA i : ~ TestAt(s, i)) = PutThem(s, chosen, {i \in Nat : ~ TestAt(s, i)})
  BY LoopsPut
<1>8. PutAll(s, chosen, LAMBDA i : IF value THEN ~ TestAt(s, i) ELSE TestAt(s, i))
        = PutThem(s, chosen, {i \in Nat : IF value THEN ~ TestAt(s, i) ELSE TestAt(s, i)})
  BY LoopsPut
<1>9. PutAll(s, chosen, LAMBDA i : value) = SetWith(c, Taken(c, S, chosen, IF value THEN Nat ELSE {}))
  BY <1>3, <1>6
<1>10. PutAll(s, chosen, LAMBDA i : ~ TestAt(s, i)) = SetWith(c, Taken(c, S, chosen, Nat \ S))
  BY <1>3, <1>4, <1>7
<1>11. PutAll(s, chosen, LAMBDA i : IF value THEN ~ TestAt(s, i) ELSE TestAt(s, i))
         = SetWith(c, Taken(c, S, chosen, IF value THEN Nat \ S ELSE S))
  BY <1>3, <1>5, <1>8
<1> QED
  BY <1>9, <1>10, <1>11 DEF s

LEMMA NewSetIs ==
    ASSUME NEW c, Fit(c)
    PROVE  NewSet(c) = SetWith(c, {})
  BY OneWord DEF NewSet, SetWith

\* The constructors from a list, and the parts.
LEMMA SetFromIs ==
    ASSUME NEW c, Fit(c), NEW bits \in [1 .. c -> BOOLEAN]
    PROVE  SetFrom(c, bits) = SetWith(c, {i \in Below(c) : bits[i + 1]})
<1> DEFINE chosen == 0 .. SmallerOf(c, Len(bits)) - 1
           B == {i \in Nat : bits[i + 1]}
           S == {i \in Below(c) : bits[i + 1]}
<1>1. c \in Nat
  BY DEF Fit
<1>2. Len(bits) = c
  BY <1>1, CellsAreSeq
<1>3. chosen = Below(c) /\ chosen \in SUBSET Nat
  BY <1>1, <1>2 DEF SmallerOf, Below
<1> HIDE DEF chosen
<1>4. PutAll(NewSet(c), chosen, LAMBDA i : bits[i + 1]) = PutThem(NewSet(c), chosen, B)
  BY <1>3, ListPut
<1>5. {} \in SUBSET Below(c)
  OBVIOUS
<1>6. PutThem(SetWith(c, {}), chosen, B) = SetWith(c, Taken(c, {}, chosen, B))
  BY <1>3, <1>5, PutThemIs
<1>7. Taken(c, {}, chosen, B) = S
  BY <1>3 DEF Taken
<1>8. S \in SUBSET WordOffsets(c) /\ S \cap Below(c) = S
  BY OneWord
<1> HIDE DEF B, S
<1>9. PutAll(NewSet(c), chosen, LAMBDA i : bits[i + 1]) = SetWith(c, S)
  BY <1>4, <1>6, <1>7, NewSetIs
<1>10. ClearUnused(SetWith(c, S)) = SetWith(c, S)
  BY <1>8, UnusedBitsGo
<1> QED
  BY <1>9, <1>10 DEF SetFrom, chosen, S

LEMMA TakeBitsIs ==
    ASSUME NEW c, Fit(c), NEW S \in SUBSET Below(c), NEW start \in Nat, NEW n \in Int
    PROVE  \E T \in SUBSET Below(c) : TakeBits(SetWith(c, S), start, n) = SetWith(c, T)
<1> DEFINE s == SetWith(c, S)
           chosen == 0 .. n - 1
           B == {i \in Nat : TestAt(s, start + i)}
<1>1. s.capacity = c /\ chosen \in SUBSET Nat /\ {} \in SUBSET Below(c)
  <2>1. s.capacity = c
    BY SetWithIs
  <2>2. chosen \in SUBSET Nat
    OBVIOUS
  <2> QED
    BY <2>1, <2>2
<1> HIDE DEF s
<1>2. TakeBits(s, start, n) = PutAll(NewSet(c), chosen, LAMBDA i : TestAt(s, start + i))
  BY <1>1 DEF TakeBits
<1> HIDE DEF chosen, B
<1>3. PutAll(NewSet(c), chosen, LAMBDA i : TestAt(s, start + i)) = PutThem(NewSet(c), chosen, B)
  BY <1>1, PartPut DEF B
<1>4. PutThem(SetWith(c, {}), chosen, B) = SetWith(c, Taken(c, {}, chosen, B))
  BY <1>1, PutThemIs
<1>5. Taken(c, {}, chosen, B) \in SUBSET Below(c)
  BY DEF Taken
<1> QED
  BY <1>2, <1>3, <1>4, <1>5, NewSetIs DEF s

\* fill(), flip(), operator~ and the logic of two sets
LEMMA FillIs ==
    ASSUME NEW c, Fit(c), NEW S \in SUBSET Below(c), NEW value \in BOOLEAN
    PROVE  FillSet(SetWith(c, S), value) = SetWith(c, IF value THEN Below(c) ELSE {})
<1> DEFINE s == SetWith(c, S)
<1>1. s.capacity = c /\ DOMAIN s.words = 1 .. 1
      /\ \A x : [s EXCEPT !.words = [w \in 1 .. 1 |-> x]] = SetWith(c, x)
  BY SetWithIs
<1>2. WordOffsets(c) = Ones(c) /\ Below(c) \subseteq WordOffsets(c)
  BY OneWord
<1> HIDE DEF s
<1>3. ClearUnused(SetWith(c, Ones(c))) = SetWith(c, Ones(c) \cap Below(c))
  BY <1>2, UnusedBitsGo
<1>4. Ones(c) \cap Below(c) = Below(c)
  BY <1>2
<1>5. [s EXCEPT !.words = [w \in DOMAIN s.words |-> Ones(c)]] = SetWith(c, Ones(c))
  BY <1>1
<1>6. [s EXCEPT !.words = [w \in DOMAIN s.words |-> {}]] = SetWith(c, {})
  BY <1>1
<1>7. FillSet(s, value) = SetWith(c, IF value THEN Below(c) ELSE {})
  BY <1>1, <1>3, <1>4, <1>5, <1>6 DEF FillSet, EachWord
<1> QED
  BY <1>7 DEF s

LEMMA FlipIs ==
    ASSUME NEW c, Fit(c), NEW S \in SUBSET Below(c)
    PROVE  FlipAll(SetWith(c, S)) = SetWith(c, Below(c) \ S)
<1> DEFINE s == SetWith(c, S)
           X == WordOffsets(c) \ S
<1>1. s.capacity = c /\ s.words[1] = S /\ DOMAIN s.words = 1 .. 1
      /\ \A x : [s EXCEPT !.words = [w \in 1 .. 1 |-> x]] = SetWith(c, x)
  BY SetWithIs
<1>2. Below(c) \subseteq WordOffsets(c)
  BY OneWord
<1> HIDE DEF s
<1>3. [w \in 1 .. 1 |-> WordOffsets(c) \ s.words[w]] = [w \in 1 .. 1 |-> X]
  BY <1>1
<1>4. [s EXCEPT !.words = [w \in DOMAIN s.words |-> WordOffsets(s.capacity) \ s.words[w]]] = SetWith(c, X)
  BY <1>1, <1>3
<1>5. X \in SUBSET WordOffsets(c) /\ X \cap Below(c) = Below(c) \ S
  BY <1>2
<1> HIDE DEF X
<1>6. ClearUnused(SetWith(c, X)) = SetWith(c, X \cap Below(c))
  BY <1>5, UnusedBitsGo
<1>7. FlipAll(s) = SetWith(c, Below(c) \ S)
  BY <1>4, <1>5, <1>6 DEF FlipAll, EachWord
<1> QED
  BY <1>7 DEF s

LEMMA LogicIs ==
    \A c, S, T : /\ SetAnd(SetWith(c, S), SetWith(c, T)) = SetWith(c, S \cap T)
                 /\ SetOr(SetWith(c, S), SetWith(c, T)) = SetWith(c, S \cup T)
                 /\ SetXor(SetWith(c, S), SetWith(c, T)) = SetWith(c, BitsXor(S, T))
<1> TAKE c, S, T
<1> DEFINE s == SetWith(c, S)
           o == SetWith(c, T)
<1>1. s.words[1] = S /\ DOMAIN s.words = 1 .. 1 /\ o.words[1] = T
      /\ \A x : [s EXCEPT !.words = [w \in 1 .. 1 |-> x]] = SetWith(c, x)
  BY SetWithIs
<1> HIDE DEF s, o
<1>2. SetAnd(s, o) = SetWith(c, S \cap T)
  <2>1. [w \in 1 .. 1 |-> s.words[w] \cap o.words[w]] = [w \in 1 .. 1 |-> S \cap T]
    BY <1>1
  <2> QED
    BY <1>1, <2>1 DEF SetAnd, EachWord
<1>3. SetOr(s, o) = SetWith(c, S \cup T)
  <2>1. [w \in 1 .. 1 |-> s.words[w] \cup o.words[w]] = [w \in 1 .. 1 |-> S \cup T]
    BY <1>1
  <2> QED
    BY <1>1, <2>1 DEF SetOr, EachWord
<1>4. SetXor(s, o) = SetWith(c, BitsXor(S, T))
  <2>1. [w \in 1 .. 1 |-> BitsXor(s.words[w], o.words[w])] = [w \in 1 .. 1 |-> BitsXor(S, T)]
    BY <1>1
  <2> QED
    BY <1>1, <2>1 DEF SetXor, EachWord
<1> QED
  BY <1>2, <1>3, <1>4 DEF s, o

\* No call changes the instance, whether it fits or not.
IsSet(s) == s = [capacity |-> s.capacity, words |-> s.words, how |-> s.how]
Keeps(s, r) == IsSet(r) /\ r.capacity = s.capacity

LEMMA ChangesKeep ==
    ASSUME NEW s, IsSet(s)
    PROVE  /\ \A x : Keeps(s, [s EXCEPT !.words = x]) /\ Keeps(s, [s EXCEPT !.how = x])
           /\ Keeps(s, s) /\ Keeps(s, NewSet(s.capacity))
           /\ \A r, x : Keeps(s, r) /\ Keeps(r, x) => Keeps(s, x)
<1>1. \A x : /\ [s EXCEPT !.words = x] = [capacity |-> s.capacity, words |-> x, how |-> s.how]
             /\ [s EXCEPT !.how = x] = [capacity |-> s.capacity, words |-> s.words, how |-> x]
  BY DEF IsSet
<1>2. \A x : Keeps(s, [s EXCEPT !.words = x]) /\ Keeps(s, [s EXCEPT !.how = x])
  BY <1>1 DEF Keeps, IsSet
<1>3. Keeps(s, s) /\ Keeps(s, NewSet(s.capacity))
  BY DEF Keeps, IsSet, NewSet
<1>4. \A r, x : Keeps(s, r) /\ Keeps(r, x) => Keeps(s, x)
  BY DEF Keeps
<1> QED
  BY <1>2, <1>3, <1>4

LEMMA StepsKeep ==
    ASSUME NEW s, IsSet(s)
    PROVE  Keeps(s, ClearUnused(s)) /\ \A chosen, B : Keeps(s, PutThem(s, chosen, B))
<1>1. \A x : Keeps(s, [s EXCEPT !.words = x]) /\ Keeps(s, [s EXCEPT !.how = x])
  BY ChangesKeep
<1>2. \A chosen, B : Keeps(s, PutThem(s, chosen, B))
  BY <1>1 DEF PutThem
<1>3. Keeps(s, ClearUnused(s))
  <2> DEFINE last == s.capacity - 1
             b == ByteIndex(last) + 1
             x == [s.words EXCEPT ![b] = @ \cap 0 .. BitOffset(last)]
             overrun == [s EXCEPT !.how = "overrun"]
             cleared == [s EXCEPT !.words = x]
  <2>1. ClearUnused(s) \in {s, overrun, cleared}
    BY DEF ClearUnused
  <2>2. Keeps(s, s)
    BY ChangesKeep
  <2>3. Keeps(s, overrun)
    BY <1>1
  <2> HIDE DEF x, overrun
  <2>4. Keeps(s, cleared)
    BY <1>1
  <2> HIDE DEF cleared
  <2> QED
    BY <2>1, <2>2, <2>3, <2>4
<1> QED
  BY <1>2, <1>3

LEMMA BothKeep ==
    ASSUME NEW s, IsSet(s)
    PROVE  \A r : Keeps(s, r) => /\ Keeps(s, ClearUnused(r))
                                /\ \A x, B : Keeps(s, PutThem(r, x, B))
<1>1. \A r, x : Keeps(s, r) /\ Keeps(r, x) => Keeps(s, x)
  BY ChangesKeep
<1> QED
  BY <1>1, StepsKeep DEF Keeps

LEMMA WordsKeep ==
    ASSUME NEW s, IsSet(s), NEW value \in BOOLEAN
    PROVE  Keeps(s, FillSet(s, value)) /\ Keeps(s, FlipAll(s))
<1>1. \A x : Keeps(s, [s EXCEPT !.words = x])
  BY ChangesKeep
<1>2. \A r : Keeps(s, r) => Keeps(s, ClearUnused(r))
  BY BothKeep
<1>3. Keeps(s, FillSet(s, value))
  BY <1>1, <1>2 DEF FillSet, EachWord
<1>4. Keeps(s, FlipAll(s))
  BY <1>1, <1>2 DEF FlipAll, EachWord
<1> QED
  BY <1>3, <1>4

LEMMA LogicKeeps ==
    ASSUME NEW s, IsSet(s), NEW o
    PROVE  Keeps(s, SetAnd(s, o)) /\ Keeps(s, SetOr(s, o)) /\ Keeps(s, SetXor(s, o))
<1>1. \A x : Keeps(s, [s EXCEPT !.words = x])
  BY ChangesKeep
<1> QED
  BY <1>1 DEF SetAnd, SetOr, SetXor, EachWord

LEMMA PartsKeep ==
    ASSUME NEW s, IsSet(s), NEW start \in Nat, NEW n \in Int
    PROVE  Keeps(s, TakeBits(s, start, n))
<1> DEFINE taken == 0 .. n - 1
<1>1. taken \in SUBSET Nat
  OBVIOUS
<1>2. TakeBits(s, start, n) = PutAll(NewSet(s.capacity), taken, LAMBDA i : TestAt(s, start + i))
  BY DEF TakeBits
<1> HIDE DEF taken
<1>3. TakeBits(s, start, n) = PutThem(NewSet(s.capacity), taken, {i \in Nat : TestAt(s, start + i)})
  BY <1>1, <1>2, PartPut
<1>4. Keeps(s, NewSet(s.capacity))
  BY ChangesKeep
<1> QED
  BY <1>3, <1>4, BothKeep

LEMMA ListsKeep ==
    ASSUME NEW s, IsSet(s), NEW bits, Len(bits) \in Nat, s.capacity \in Nat
    PROVE  Keeps(s, SetFrom(s.capacity, bits))
<1> DEFINE c == s.capacity
           listed == 0 .. SmallerOf(c, Len(bits)) - 1
<1>1. listed \in SUBSET Nat
  BY DEF SmallerOf
<1>2. SetFrom(c, bits) = ClearUnused(PutAll(NewSet(c), listed, LAMBDA i : bits[i + 1]))
  BY DEF SetFrom
<1> HIDE DEF listed
<1>3. PutAll(NewSet(c), listed, LAMBDA i : bits[i + 1]) = PutThem(NewSet(c), listed, {i \in Nat : bits[i + 1]})
  BY <1>1, ListPut
<1>4. Keeps(s, NewSet(c))
  BY ChangesKeep
<1>5. Keeps(s, PutThem(NewSet(c), listed, {i \in Nat : bits[i + 1]}))
  BY <1>4, BothKeep
<1> QED
  BY <1>2, <1>3, <1>5, BothKeep

SetInv ==
  /\ IsSet(set) /\ set.capacity \in Capacities
  /\ Fitting(set.capacity) =>
       \E S \in SUBSET Below(set.capacity) : set = SetWith(set.capacity, S)

LEMMA CapacityIs ==
    ASSUME SetInv
    PROVE  /\ set.capacity \in Nat \ {0} /\ (Fitting(set.capacity) => Fit(set.capacity))
  BY SetAssumption DEF SetInv, Fit

\* What a call may return: an instance of the same capacity, and if it fits
\* the set of bits that are one.
SoundSet(r) ==
  /\ Keeps(set, r)
  /\ Fitting(set.capacity) => \E S \in SUBSET Below(set.capacity) : r = SetWith(set.capacity, S)

LEMMA SetIsSound ==
    ASSUME SetInv
    PROVE  SoundSet(set)
  BY ChangesKeep DEF SetInv, SoundSet

LEMMA SetOperandIs ==
    ASSUME SetInv, NEW o \in SetOperands
    PROVE  SoundSet(o)
<1> DEFINE c == set.capacity
<1>1. IsSet(set) /\ (Fitting(c) => Fit(c))
  BY CapacityIs DEF SetInv
<1>2. CASE o = set
  BY <1>2, SetIsSound
<1>3. CASE o # set
  <2>1. PICK bits \in [1 .. c -> BOOLEAN] : o = SetFrom(c, bits)
    BY <1>3 DEF SetOperands
  <2>2. Keeps(set, o)
    <3>1. c \in Nat /\ Len(bits) = c
      BY CapacityIs, CellsAreSeq
    <3> QED
      BY <1>1, <2>1, <3>1, ListsKeep
  <2>3. ASSUME Fitting(c) PROVE \E T \in SUBSET Below(c) : o = SetWith(c, T)
    <3>1. SetFrom(c, bits) = SetWith(c, {i \in Below(c) : bits[i + 1]})
      BY <1>1, <2>3, SetFromIs
    <3>2. {i \in Below(c) : bits[i + 1]} \in SUBSET Below(c)
      OBVIOUS
    <3> QED
      BY <2>1, <3>1, <3>2
  <2> QED
    BY <2>2, <2>3 DEF SoundSet
<1> QED
  BY <1>2, <1>3

LEMMA PutsAreSound ==
    ASSUME SetInv, NEW chosen \in SUBSET Nat, NEW value \in BOOLEAN
    PROVE  /\ SoundSet(PutAll(set, chosen, LAMBDA i : value))
           /\ SoundSet(PutAll(set, chosen, LAMBDA i : ~ TestAt(set, i)))
           /\ SoundSet(PutAll(set, chosen, LAMBDA i : IF value THEN ~ TestAt(set, i) ELSE TestAt(set, i)))
<1> DEFINE c == set.capacity
<1>1. ASSUME NEW B PROVE SoundSet(PutThem(set, chosen, B))
  <2>1. Keeps(set, PutThem(set, chosen, B))
    BY StepsKeep DEF SetInv
  <2>2. ASSUME Fitting(c) PROVE \E T \in SUBSET Below(c) : PutThem(set, chosen, B) = SetWith(c, T)
    <3>1. PICK S \in SUBSET Below(c) : set = SetWith(c, S)
      BY <2>2 DEF SetInv
    <3>2. Fit(c)
      BY <2>2, CapacityIs
    <3> HIDE DEF c
    <3>3. PutThem(SetWith(c, S), chosen, B) = SetWith(c, Taken(c, S, chosen, B))
      BY <3>2, PutThemIs
    <3>4. Taken(c, S, chosen, B) \in SUBSET Below(c)
      BY DEF Taken
    <3> QED
      BY <3>1, <3>3, <3>4
  <2> QED
    BY <2>1, <2>2 DEF SoundSet
<1>2. PutAll(set, chosen, LAMBDA i : value) = PutThem(set, chosen, IF value THEN Nat ELSE {})
  BY LoopsPut
<1>3. PutAll(set, chosen, LAMBDA i : ~ TestAt(set, i)) = PutThem(set, chosen, {i \in Nat : ~ TestAt(set, i)})
  BY LoopsPut
<1>4. PutAll(set, chosen, LAMBDA i : IF value THEN ~ TestAt(set, i) ELSE TestAt(set, i))
        = PutThem(set, chosen, {i \in Nat : IF value THEN ~ TestAt(set, i) ELSE TestAt(set, i)})
  BY LoopsPut
<1>5. SoundSet(PutAll(set, chosen, LAMBDA i : value))
  BY <1>1, <1>2
<1>6. SoundSet(PutAll(set, chosen, LAMBDA i : ~ TestAt(set, i)))
  BY <1>1, <1>3
<1>7. SoundSet(PutAll(set, chosen, LAMBDA i : IF value THEN ~ TestAt(set, i) ELSE TestAt(set, i)))
  BY <1>1, <1>4
<1> QED
  BY <1>5, <1>6, <1>7

LEMMA WordsAreSound ==
    ASSUME SetInv, NEW o, SoundSet(o), NEW value \in BOOLEAN
    PROVE  /\ SoundSet(FillSet(set, value)) /\ SoundSet(FlipAll(set))
           /\ SoundSet(SetAnd(set, o)) /\ SoundSet(SetOr(set, o)) /\ SoundSet(SetXor(set, o))
<1> DEFINE c == set.capacity
           all == {FillSet(set, value), FlipAll(set), SetAnd(set, o), SetOr(set, o), SetXor(set, o)}
<1>1. \A x \in all : Keeps(set, x)
  BY WordsKeep, LogicKeeps DEF SetInv
<1>2. ASSUME Fitting(c), NEW x \in all PROVE \E T \in SUBSET Below(c) : x = SetWith(c, T)
  <2>1. PICK S \in SUBSET Below(c) : set = SetWith(c, S)
    BY <1>2 DEF SetInv
  <2>2. PICK T \in SUBSET Below(c) : o = SetWith(c, T)
    BY <1>2 DEF SoundSet
  <2>3. Fit(c)
    BY <1>2, CapacityIs
  <2> HIDE DEF c
  <2>4. /\ FillSet(set, value) = SetWith(c, IF value THEN Below(c) ELSE {})
        /\ FlipAll(set) = SetWith(c, Below(c) \ S)
        /\ SetAnd(set, o) = SetWith(c, S \cap T)
        /\ SetOr(set, o) = SetWith(c, S \cup T)
        /\ SetXor(set, o) = SetWith(c, BitsXor(S, T))
    <3>1. FillSet(SetWith(c, S), value) = SetWith(c, IF value THEN Below(c) ELSE {})
      BY <2>3, FillIs
    <3>2. FlipAll(SetWith(c, S)) = SetWith(c, Below(c) \ S)
      BY <2>3, FlipIs
    <3> QED
      BY <2>1, <2>2, <3>1, <3>2, LogicIs
  <2>5. /\ (IF value THEN Below(c) ELSE {}) \in SUBSET Below(c) /\ Below(c) \ S \in SUBSET Below(c)
        /\ S \cap T \in SUBSET Below(c) /\ S \cup T \in SUBSET Below(c)
        /\ BitsXor(S, T) \in SUBSET Below(c)
    BY DEF BitsXor
  <2> QED
    BY <1>2, <2>4, <2>5
<1> QED
  BY <1>1, <1>2 DEF SoundSet

LEMMA PartsAreSound ==
    ASSUME SetInv, NEW start \in Nat, NEW n \in Int
    PROVE  SoundSet(TakeBits(set, start, n))
<1> DEFINE c == set.capacity
<1>1. Keeps(set, TakeBits(set, start, n))
  BY PartsKeep DEF SetInv
<1>2. ASSUME Fitting(c) PROVE \E T \in SUBSET Below(c) : TakeBits(set, start, n) = SetWith(c, T)
  <2>1. PICK S \in SUBSET Below(c) : set = SetWith(c, S)
    BY <1>2 DEF SetInv
  <2>2. Fit(c)
    BY <1>2, CapacityIs
  <2> HIDE DEF c
  <2> QED
    BY <2>1, <2>2, TakeBitsIs
<1> QED
  BY <1>1, <1>2 DEF SoundSet

LEMMA RangesAreNumbers ==
    ASSUME SetInv, NEW start \in Nat, NEW n \in Nat
    PROVE  RangeOf(set, start, n) \in SUBSET Nat
<1> DEFINE finish == (start + n) % SizeLimit
<1>1. RangeOf(set, start, n) \subseteq start .. (IF finish > set.capacity THEN set.capacity ELSE finish) - 1
  BY DEF RangeOf
<1>2. finish \in Int /\ set.capacity \in Int
  <2>1. SizeLimit \in Nat \ {0}
    BY LayoutAssumption
  <2> QED
    BY <2>1, CapacityIs
<1> HIDE DEF finish
<1> QED
  BY <1>1, <1>2

\* Every action calls the class once.
LEMMA StepsAreSound ==
    ASSUME SetInv, SetNext
    PROVE  \E r : SoundSet(r) /\ set' = r
<1> DEFINE c == set.capacity
<1>1. c \in Nat /\ npos \in Nat
  BY CapacityIs, LayoutAssumption DEF npos
<1>2. CASE SetAssign
  BY <1>2, SetOperandIs DEF SetAssign
<1>3. CASE SetPut
  <2>1. PICK i \in 0 .. c, v \in BOOLEAN : set' = Put(set, i, v)
    BY <1>3 DEF SetPut
  <2>2. {i} \in SUBSET Nat
    BY <1>1
  <2>3. SoundSet(PutAll(set, {i}, LAMBDA k : v))
    BY <2>2, PutsAreSound
  <2> QED
    BY <2>1, <2>3 DEF Put
<1>4. CASE SetToggle
  <2>1. PICK i \in 0 .. c : set' = Toggle(set, i)
    BY <1>4 DEF SetToggle
  <2>2. {i} \in SUBSET Nat /\ TRUE \in BOOLEAN
    BY <1>1
  <2>3. SoundSet(PutAll(set, {i}, LAMBDA k : ~ TestAt(set, k)))
    BY <2>2, PutsAreSound
  <2> QED
    BY <2>1, <2>3 DEF Toggle
<1>5. CASE SetFill
  BY <1>5, WordsAreSound, SetIsSound DEF SetFill
<1>6. CASE SetFlipAll
  <2>1. TRUE \in BOOLEAN
    OBVIOUS
  <2> QED
    BY <1>6, <2>1, WordsAreSound, SetIsSound DEF SetFlipAll
<1>7. CASE SetRanges
  <2>1. PICK v \in BOOLEAN, start \in 0 .. c, n \in 0 .. c \cup {npos} :
          set' \in {FillSetRange(set, v, start, n), FlipRange(set, v, start, n)}
    BY <1>7 DEF SetRanges
  <2>2. start \in Nat /\ n \in Nat
    BY <1>1
  <2>3. RangeOf(set, start, n) \in SUBSET Nat
    BY <2>2, RangesAreNumbers
  <2> DEFINE range == RangeOf(set, start, n)
  <2>4. /\ FillSetRange(set, v, start, n) = PutAll(set, range, LAMBDA i : v)
        /\ FlipRange(set, v, start, n)
             = PutAll(set, range, LAMBDA i : IF v THEN ~ TestAt(set, i) ELSE TestAt(set, i))
    BY DEF FillSetRange, FlipRange
  <2> HIDE DEF range
  <2>5. /\ SoundSet(PutAll(set, range, LAMBDA i : v))
        /\ SoundSet(PutAll(set, range, LAMBDA i : IF v THEN ~ TestAt(set, i) ELSE TestAt(set, i)))
    <3>1. range \in SUBSET Nat
      BY <2>3 DEF range
    <3> QED
      BY <3>1, PutsAreSound
  <2>6. SoundSet(FillSetRange(set, v, start, n)) /\ SoundSet(FlipRange(set, v, start, n))
    BY <2>4, <2>5
  <2> QED
    BY <2>1, <2>6
<1>8. CASE SetLogic
  <2>1. PICK o \in SetOperands : set' \in {SetAnd(set, o), SetOr(set, o), SetXor(set, o)}
    BY <1>8 DEF SetLogic
  <2>2. TRUE \in BOOLEAN /\ SoundSet(o)
    BY SetOperandIs
  <2> QED
    BY <2>1, <2>2, WordsAreSound
<1>9. CASE SetParts
  <2>1. PICK start \in 0 .. c, n \in 0 .. c \cup {npos} :
          set' \in {SetMid(set, start, n), SetLeft(set, n), SetRight(set, n)}
    BY <1>9 DEF SetParts
  <2>2. start \in Nat /\ n \in Nat /\ (n < c => c - n \in Nat) /\ c - start \in Int /\ 0 \in Nat
    BY <1>1, LayoutAssumption DEF npos
  <2>3. SoundSet(set)
    BY SetIsSound
  <2> HIDE DEF c
  <2>4. SoundSet(SetMid(set, start, n))
    <3> DEFINE m == IF start >= c THEN 0 ELSE IF (start + n) % SizeLimit > c THEN c - start ELSE n
    <3>1. m \in Int
      BY <2>2
    <3>2. SetMid(set, start, n) = TakeBits(set, start, m)
      BY DEF SetMid, c
    <3> HIDE DEF m
    <3> QED
      BY <2>2, <3>1, <3>2, PartsAreSound
  <2>5. SoundSet(SetLeft(set, n))
    <3>1. SetLeft(set, n) \in {set, TakeBits(set, 0, n)}
      BY DEF SetLeft
    <3>2. SoundSet(TakeBits(set, 0, n))
      BY <2>2, PartsAreSound
    <3> QED
      BY <2>3, <3>1, <3>2
  <2>6. SoundSet(SetRight(set, n))
    <3>1. SetRight(set, n) = IF n >= c THEN set ELSE TakeBits(set, c - n, n)
      BY DEF SetRight, c
    <3>2. ~ (n >= c) => c - n \in Nat
      BY <1>1, <2>2
    <3>3. ~ (n >= c) => SoundSet(TakeBits(set, c - n, n))
      BY <2>2, <3>2, PartsAreSound
    <3> QED
      BY <2>3, <3>1, <3>3
  <2> QED
    BY <2>1, <2>4, <2>5, <2>6
<1> QED
  BY <1>2, <1>3, <1>4, <1>5, <1>6, <1>7, <1>8, <1>9 DEF SetNext

LEMMA SetStarts ==
    ASSUME NEW c \in Capacities, set = NewSet(c)
    PROVE  SetInv
<1>1. set.capacity = c /\ IsSet(set)
  BY DEF NewSet, IsSet
<1>2. ASSUME Fitting(c) PROVE \E S \in SUBSET Below(c) : set = SetWith(c, S)
  <2>1. Fit(c)
    BY <1>2, SetAssumption DEF Fit
  <2>2. {} \in SUBSET Below(c)
    OBVIOUS
  <2> QED
    BY <2>1, <2>2, NewSetIs
<1> QED
  BY <1>1, <1>2 DEF SetInv

LEMMA SetSteps ==
    ASSUME SetInv, [SetNext]_set
    PROVE  SetInv'
<1>1. CASE SetNext
  <2>1. PICK r : SoundSet(r) /\ set' = r
    BY <1>1, StepsAreSound
  <2>2. IsSet(set') /\ set'.capacity = set.capacity
    BY <2>1 DEF SoundSet, Keeps
  <2>3. Fitting(set.capacity) => \E S \in SUBSET Below(set.capacity) : set' = SetWith(set.capacity, S)
    BY <2>1 DEF SoundSet
  <2> QED
    BY <2>2, <2>3 DEF SetInv
<1>2. CASE UNCHANGED set
  BY <1>2 DEF SetInv
<1> QED
  BY <1>1, <1>2

\* A BitSet keeps its capacity, and one that its words fit stays defined with
\* no bit beyond the capacity set, whatever its calls.
THEOREM SetInvHolds == SetSpec => []SetInv
<1>1. SetInit => SetInv
  BY SetStarts DEF SetInit
<1>2. SetInv /\ [SetNext]_set => SetInv'
  BY SetSteps
<1> QED
  BY <1>1, <1>2, PTL DEF SetSpec

\* fill(), flip(), operator^ and toggleBit() act on the string of the bits.
LEMMA BitsShow ==
    ASSUME NEW c, Fit(c), NEW S \in SUBSET Below(c)
    PROVE  LET s == SetWith(c, S)
               b == SetBitsOf(s)
           IN /\ \A v \in BOOLEAN : SetBitsOf(FillSet(s, v)) = [i \in DOMAIN b |-> v]
              /\ SetBitsOf(FlipAll(s)) = [i \in DOMAIN b |-> ~ b[i]]
              /\ \A i \in DOMAIN b : SetBitsOf(Toggle(s, i - 1)) = [b EXCEPT ![i] = ~ @]
<1> DEFINE s == SetWith(c, S)
           b == SetBitsOf(s)
<1>1. c \in Nat /\ \A i \in 1 .. c : i - 1 \in Below(c)
  BY DEF Fit, Below
<1>2. b = [k \in 1 .. c |-> k - 1 \in S] /\ DOMAIN b = 1 .. c
  BY BitsOfSet
<1>3. \A T \in SUBSET Below(c) : SetBitsOf(SetWith(c, T)) = [k \in 1 .. c |-> k - 1 \in T]
  BY BitsOfSet
<1> HIDE DEF b
<1>4. ASSUME NEW v \in BOOLEAN PROVE SetBitsOf(FillSet(s, v)) = [i \in DOMAIN b |-> v]
  <2> DEFINE T == IF v THEN Below(c) ELSE {}
  <2>1. FillSet(s, v) = SetWith(c, T)
    BY FillIs
  <2>2. T \in SUBSET Below(c) /\ \A k \in 1 .. c : (k - 1 \in T) = v
    BY <1>1
  <2> HIDE DEF T, s
  <2>3. SetBitsOf(FillSet(s, v)) = [k \in 1 .. c |-> k - 1 \in T]
    BY <1>3, <2>1, <2>2
  <2> QED
    BY <1>2, <2>2, <2>3
<1>5. SetBitsOf(FlipAll(s)) = [i \in DOMAIN b |-> ~ b[i]]
  <2>1. FlipAll(s) = SetWith(c, Below(c) \ S)
    BY FlipIs
  <2>2. \A k \in 1 .. c : (k - 1 \in Below(c) \ S) = ~ (k - 1 \in S)
    BY <1>1
  <2>3. SetBitsOf(SetWith(c, Below(c) \ S)) = [k \in 1 .. c |-> k - 1 \in Below(c) \ S]
    BY <1>3
  <2> HIDE DEF s
  <2>4. SetBitsOf(FlipAll(s)) = [k \in 1 .. c |-> ~ (k - 1 \in S)]
    BY <2>1, <2>2, <2>3
  <2>5. [i \in DOMAIN b |-> ~ b[i]] = [k \in 1 .. c |-> ~ (k - 1 \in S)]
    BY <1>2
  <2> QED
    BY <2>4, <2>5
<1>6. ASSUME NEW i \in DOMAIN b PROVE SetBitsOf(Toggle(s, i - 1)) = [b EXCEPT ![i] = ~ @]
  <2> DEFINE j == i - 1
             T == Taken(c, S, {j}, Nat \ S)
  <2>1. i \in 1 .. c /\ j \in Nat /\ {j} \in SUBSET Nat
    BY <1>1, <1>2
  <2>2. T \in SUBSET Below(c)
    BY DEF Taken
  <2>3. Toggle(s, j) = SetWith(c, T)
    <3> HIDE DEF j
    <3>1. PICK v \in BOOLEAN : v = TRUE
      OBVIOUS
    <3>2. PutAll(s, {j}, LAMBDA k : ~ TestAt(s, k)) = PutThem(s, {j}, {k \in Nat : ~ TestAt(s, k)})
      BY <2>1, <3>1, LoopsPut
    <3>3. {k \in Nat : ~ TestAt(s, k)} = Nat \ S
      <4>1. \A k \in Nat : TestAt(s, k) <=> k \in S
        BY TestAtIs
      <4> QED
        BY <4>1
    <3>4. PutThem(s, {j}, Nat \ S) = SetWith(c, T)
      BY <2>1, PutThemIs
    <3>5. Toggle(s, j) = PutAll(s, {j}, LAMBDA k : ~ TestAt(s, k))
      BY DEF Toggle
    <3> HIDE DEF s, T
    <3> QED
      BY <3>2, <3>3, <3>4, <3>5
  <2>4. ASSUME NEW k \in 1 .. c PROVE (k - 1 \in T) = (IF k = i THEN ~ (k - 1 \in S) ELSE k - 1 \in S)
    <3>1. k - 1 \in Below(c) /\ k - 1 \in Nat /\ (k - 1 = j <=> k = i)
      BY <1>1, <2>1 DEF Below
    <3> HIDE DEF j
    <3>2. k - 1 \in T <=> IF k - 1 = j THEN ~ (k - 1 \in S) ELSE k - 1 \in S
      BY <3>1 DEF Taken
    <3> QED
      BY <3>1, <3>2
  <2> HIDE DEF T, s
  <2>5. SetBitsOf(Toggle(s, j)) = [k \in 1 .. c |-> k - 1 \in T]
    BY <1>3, <2>2, <2>3
  <2>6. SetBitsOf(Toggle(s, j)) = [k \in 1 .. c |-> IF k = i THEN ~ (k - 1 \in S) ELSE k - 1 \in S]
    BY <2>4, <2>5
  <2>7. [b EXCEPT ![i] = ~ @] = [k \in 1 .. c |-> IF k = i THEN ~ (k - 1 \in S) ELSE k - 1 \in S]
    BY <1>2
  <2> QED
    BY <2>6, <2>7
<1> QED
  BY <1>4, <1>5, <1>6 DEF b

LEMMA RangeFlips ==
    ASSUME NEW c, Fit(c), NEW S \in SUBSET Below(c), NEW v \in BOOLEAN,
           NEW start \in 0 .. c, NEW n \in 0 .. c
    PROVE  LET s == SetWith(c, S)
               b == SetBitsOf(s)
           IN SetBitsOf(FlipRange(s, v, start, n)) =
                [i \in DOMAIN b |-> IF v /\ start < i /\ i <= start + n THEN ~ b[i] ELSE b[i]]
<1> DEFINE s == SetWith(c, S)
           b == SetBitsOf(s)
           range == RangeOf(s, start, n)
           B == IF v THEN Nat \ S ELSE S
           T == Taken(c, S, range, B)
<1>1. /\ c \in Nat /\ c <= IntBits /\ ByteBits \in Nat /\ SizeLimit \in Nat
      /\ start \in Nat /\ n \in Nat
  <2>1. c \in Nat /\ WordBits(c) \in Nat /\ c <= WordBits(c) /\ WordBits(c) <= IntBits
    BY OneWord
  <2>2. ByteBits \in Nat /\ SizeLimit \in Nat /\ IntBits \in Nat
    BY LayoutAssumption DEF IntBits
  <2> QED
    BY <2>1, <2>2
<1>2. s.capacity = c
  BY SetWithIs
<1>3. b = [k \in 1 .. c |-> k - 1 \in S] /\ DOMAIN b = 1 .. c
  BY BitsOfSet
<1>4. start + n < SizeLimit
  BY <1>1, SetAssumption DEF IntBits
<1>5. (start + n) % SizeLimit = start + n
  BY <1>1, <1>4
<1> HIDE DEF s, b
<1>6. range = IF start >= c \/ n = 0 THEN {} ELSE start .. (IF start + n > c THEN c ELSE start + n) - 1
  BY <1>2, <1>5 DEF RangeOf
<1> HIDE DEF range
<1>7. range \in SUBSET Nat
  BY <1>1, <1>6
<1>8. \A k \in 1 .. c : k - 1 \in range <=> start < k /\ k <= start + n
  BY <1>1, <1>6
<1>9. FlipRange(s, v, start, n) = SetWith(c, T)
  <2>1. PutAll(s, range, LAMBDA i : IF v THEN ~ TestAt(s, i) ELSE TestAt(s, i))
          = PutThem(s, range, {i \in Nat : IF v THEN ~ TestAt(s, i) ELSE TestAt(s, i)})
    BY <1>7, LoopsPut
  <2>2. {i \in Nat : IF v THEN ~ TestAt(s, i) ELSE TestAt(s, i)} = B
    <3>1. \A i \in Nat : TestAt(s, i) <=> i \in S
      BY TestAtIs DEF s
    <3>2. S \in SUBSET Nat
      BY <1>1 DEF Below
    <3> QED
      BY <3>1, <3>2
  <2> HIDE DEF B
  <2>3. PutThem(s, range, B) = SetWith(c, T)
    BY <1>7, PutThemIs DEF s
  <2>4. FlipRange(s, v, start, n) = PutAll(s, range, LAMBDA i : IF v THEN ~ TestAt(s, i) ELSE TestAt(s, i))
    BY DEF FlipRange, range
  <2> QED
    BY <2>1, <2>2, <2>3, <2>4
<1>10. ASSUME NEW k \in 1 .. c
       PROVE  (k - 1 \in T) = (IF v /\ start < k /\ k <= start + n THEN ~ (k - 1 \in S) ELSE k - 1 \in S)
  <2>1. k - 1 \in Below(c) /\ k - 1 \in Nat
    BY <1>1 DEF Below
  <2>2. k - 1 \in T <=> IF k - 1 \in range THEN k - 1 \in B ELSE k - 1 \in S
    BY <2>1 DEF Taken
  <2>3. k - 1 \in B <=> IF v THEN ~ (k - 1 \in S) ELSE k - 1 \in S
    BY <2>1
  <2> HIDE DEF T, B
  <2> QED
    BY <1>8, <2>2, <2>3
<1>11. T \in SUBSET Below(c)
  BY DEF Taken
<1> HIDE DEF T
<1>12. SetBitsOf(SetWith(c, T)) = [k \in 1 .. c |-> k - 1 \in T]
  BY <1>11, BitsOfSet
<1>13. SetBitsOf(FlipRange(s, v, start, n))
         = [k \in 1 .. c |-> IF v /\ start < k /\ k <= start + n THEN ~ (k - 1 \in S) ELSE k - 1 \in S]
  BY <1>9, <1>10, <1>12
<1>14. [i \in DOMAIN b |-> IF v /\ start < i /\ i <= start + n THEN ~ b[i] ELSE b[i]]
         = [k \in 1 .. c |-> IF v /\ start < k /\ k <= start + n THEN ~ (k - 1 \in S) ELSE k - 1 \in S]
  BY <1>3
<1>15. SetBitsOf(FlipRange(s, v, start, n))
         = [i \in DOMAIN b |-> IF v /\ start < i /\ i <= start + n THEN ~ b[i] ELSE b[i]]
  BY <1>13, <1>14
<1> QED
  BY <1>15 DEF b, s

\* count(), any() and all()
LEMMA CountsAre ==
    ASSUME NEW c, Fit(c), NEW S \in SUBSET Below(c)
    PROVE  LET s == SetWith(c, S)
               b == SetBitsOf(s)
           IN /\ SetCountTrue(s) = Count(b, TRUE)
              /\ SetAny(s) <=> Count(b, TRUE) > 0
              /\ c = WordBits(c) => (SetAll(s) <=> Count(b, FALSE) = 0)
<1> DEFINE s == SetWith(c, S)
           b == SetBitsOf(s)
<1>1. c \in Nat
  BY DEF Fit
<1>2. s.words[1] = S /\ DOMAIN s.words = 1 .. 1 /\ s.capacity = c /\ s.words \in [1 .. 1 -> {S}]
  BY DEF SetWith
<1>3. b = [k \in 1 .. c |-> k - 1 \in S] /\ b \in [1 .. c -> BOOLEAN]
  BY BitsOfSet
<1> HIDE DEF b, s
<1>4. ASSUME NEW i \in 0 .. c - 1
      PROVE  i \in Below(c) /\ b[i + 1] = (i \in S)
  <2> DEFINE k == i + 1
  <2>1. k \in 1 .. c /\ k - 1 = i /\ i \in Below(c)
    BY <1>1 DEF Below
  <2> HIDE DEF k
  <2>2. b[k] = (i \in S)
    BY <1>3, <2>1
  <2> QED
    BY <2>1, <2>2 DEF k
<1>5. {i \in 0 .. c - 1 : b[i + 1] = TRUE} = S /\ {i \in 0 .. c - 1 : b[i + 1] = FALSE} = Below(c) \ S
  <2>1. ASSUME NEW i \in Below(c) PROVE (b[i + 1] = TRUE <=> i \in S) /\ (b[i + 1] = FALSE <=> i \notin S)
    <3>1. i \in 0 .. c - 1
      BY DEF Below
    <3>2. b[i + 1] = (i \in S)
      BY <1>4, <3>1
    <3>3. CASE i \in S
      BY <3>2, <3>3
    <3>4. CASE i \notin S
      <4>1. (i \in S) = FALSE
        BY <3>4
      <4>2. b[i + 1] = FALSE
        BY <3>2, <4>1
      <4>3. b[i + 1] # TRUE
        BY <4>2
      <4> QED
        BY <3>4, <4>2, <4>3
    <3> QED
      BY <3>3, <3>4
  <2>2. {i \in Below(c) : b[i + 1] = TRUE} = S
    BY <2>1
  <2>3. {i \in Below(c) : b[i + 1] = FALSE} = Below(c) \ S
    BY <2>1
  <2> QED
    BY <2>2, <2>3 DEF Below
<1>6. Count(b, TRUE) = Cardinality(S) /\ Count(b, TRUE) \in Nat /\ (Count(b, TRUE) > 0 <=> S # {})
  <2>1. PICK v \in BOOLEAN : v = TRUE
    OBVIOUS
  <2>2. LET X == {i \in 0 .. c - 1 : b[i + 1] = v}
        IN Count(b, v) = Cardinality(X) /\ Count(b, v) \in Nat /\ (Count(b, v) > 0 <=> X # {})
    BY <1>1, <1>3, CountIs
  <2> QED
    BY <1>5, <2>1, <2>2
<1>7. Count(b, FALSE) \in Nat /\ (Count(b, FALSE) > 0 <=> Below(c) \ S # {})
  <2>1. PICK v \in BOOLEAN : v = FALSE
    OBVIOUS
  <2>2. LET X == {i \in 0 .. c - 1 : b[i + 1] = v}
        IN Count(b, v) = Cardinality(X) /\ Count(b, v) \in Nat /\ (Count(b, v) > 0 <=> X # {})
    BY <1>1, <1>3, CountIs
  <2> QED
    BY <1>5, <2>1, <2>2
<1>8. SetCountTrue(s) = Cardinality(S)
  <2> DEFINE n == Cardinality(S)
             sum == [w \in 0 .. 1 |-> IF w = 0 THEN 0 ELSE n]
  <2>1. n \in Nat
    BY <1>6
  <2>2. Len(s.words) = 1
    BY <1>2, CellsAreSeq
  <2>3. ASSUME NEW f, f = [w \in 0 .. 1 |-> IF w = 0 THEN 0 ELSE f[w - 1] + Cardinality(s.words[w])]
        PROVE  f[1] = n
    <3>1. f[0] = 0
      BY <2>3
    <3>2. f[1] = f[0] + Cardinality(s.words[1])
      BY <2>3
    <3> QED
      BY <1>2, <2>1, <3>1, <3>2
  <2>4. sum = [w \in 0 .. 1 |-> IF w = 0 THEN 0 ELSE sum[w - 1] + Cardinality(s.words[w])]
    <3>1. sum[0] = 0 /\ sum[1] = n
      OBVIOUS
    <3>2. \A w \in 0 .. 1 : (IF w = 0 THEN 0 ELSE sum[w - 1] + Cardinality(s.words[w])) = IF w = 0 THEN 0 ELSE n
      <4> HIDE DEF sum
      <4>1. 1 - 1 = 0 /\ 0 + n = n
        BY <2>1
      <4>2. n = Cardinality(s.words[1])
        BY <1>2
      <4> QED
        BY <3>1, <4>1, <4>2
    <3> QED
      BY <3>2
  <2> DEFINE g == CHOOSE f : f = [w \in 0 .. 1 |-> IF w = 0 THEN 0 ELSE f[w - 1] + Cardinality(s.words[w])]
  <2> HIDE DEF sum
  <2>5. g = [w \in 0 .. 1 |-> IF w = 0 THEN 0 ELSE g[w - 1] + Cardinality(s.words[w])]
    BY <2>4
  <2>6. SetCountTrue(s) = g[1]
    BY <2>2 DEF SetCountTrue
  <2> HIDE DEF g
  <2> QED
    BY <2>3, <2>5, <2>6
<1>9. SetAny(s) <=> S # {}
  BY <1>2 DEF SetAny
<1>10. c = WordBits(c) => (SetAll(s) <=> S = Below(c))
  <2>1. Ones(c) = Below(WordBits(c))
    BY OneWord
  <2> QED
    BY <1>2, <2>1 DEF SetAll
<1>11. Below(c) \ S # {} <=> S # Below(c)
  OBVIOUS
<1>12. SetCountTrue(s) = Count(b, TRUE) /\ (SetAny(s) <=> Count(b, TRUE) > 0)
  BY <1>6, <1>8, <1>9
<1>13. c = WordBits(c) => (SetAll(s) <=> Count(b, FALSE) = 0)
  <2> DEFINE n == Count(b, FALSE)
  <2>1. n \in Nat /\ (n > 0 <=> S # Below(c))
    BY <1>7, <1>11
  <2> HIDE DEF n
  <2>2. n = 0 <=> S = Below(c)
    BY <2>1
  <2> QED
    BY <1>10, <2>2 DEF n
<1> QED
  BY <1>12, <1>13 DEF b, s

\* operator^, and compare(): the word with the greatest bit that differs.
LEMMA XorShows ==
    ASSUME NEW c, Fit(c), NEW S \in SUBSET Below(c), NEW T \in SUBSET Below(c)
    PROVE  LET s == SetWith(c, S)
               o == SetWith(c, T)
               b == SetBitsOf(s)
           IN /\ SetBitsOf(SetXor(s, o)) = [i \in DOMAIN b |-> b[i] # SetBitsOf(o)[i]]
              /\ b = SetBitsOf(o) <=> S = T
<1> DEFINE s == SetWith(c, S)
           o == SetWith(c, T)
           b == SetBitsOf(s)
           d == SetBitsOf(o)
<1>1. c \in Nat /\ BitsXor(S, T) \in SUBSET Below(c)
  BY DEF Fit, BitsXor
<1>2. b = [k \in 1 .. c |-> k - 1 \in S] /\ DOMAIN b = 1 .. c
  BY BitsOfSet
<1>3. d = [k \in 1 .. c |-> k - 1 \in T]
  BY BitsOfSet
<1> HIDE DEF b, d, s, o
<1>4. SetXor(s, o) = SetWith(c, BitsXor(S, T))
  <2>1. SetXor(SetWith(c, S), SetWith(c, T)) = SetWith(c, BitsXor(S, T))
    BY LogicIs
  <2> QED
    BY <2>1 DEF s, o
<1>5. SetBitsOf(SetWith(c, BitsXor(S, T))) = [k \in 1 .. c |-> k - 1 \in BitsXor(S, T)]
  BY <1>1, BitsOfSet
<1>6. \A k \in 1 .. c : (k - 1 \in BitsXor(S, T)) = (b[k] # d[k])
  <2>1. ASSUME NEW x PROVE (x \in BitsXor(S, T)) = ((x \in S) # (x \in T))
    BY DEF BitsXor
  <2> QED
    BY <1>2, <1>3, <2>1
<1>7. SetBitsOf(SetXor(s, o)) = [i \in DOMAIN b |-> b[i] # d[i]]
  BY <1>2, <1>4, <1>5, <1>6
<1>8. b = d <=> S = T
  <2>1. ASSUME b = d PROVE S = T
    <3>1. ASSUME NEW i \in Below(c) PROVE i \in S <=> i \in T
      <4> DEFINE k == i + 1
      <4>1. k \in 1 .. c /\ k - 1 = i
        BY <1>1 DEF Below
      <4> HIDE DEF k
      <4>2. b[k] = (i \in S) /\ d[k] = (i \in T)
        BY <1>2, <1>3, <4>1
      <4> QED
        BY <2>1, <4>2
    <3> QED
      BY <3>1
  <2>2. S = T => b = d
    BY <1>2, <1>3
  <2> QED
    BY <2>1, <2>2
<1> QED
  BY <1>7, <1>8 DEF b, d, s, o

LEMMA WordsOrder ==
    ASSUME NEW c \in Nat, NEW S \in SUBSET Below(c), NEW T \in SUBSET Below(c), S # T
    PROVE  WordLess(S, T) <=> ~ WordLess(T, S)
<1> DEFINE X == BitsXor(S, T)
<1>1. X = BitsXor(T, S) /\ X # {} /\ X = (S \ T) \cup (T \ S)
  BY DEF BitsXor
<1>2. X \in SUBSET (0 .. c) /\ X \in SUBSET Int
  BY <1>1 DEF Below
<1> HIDE DEF X
<1>3. PICK g \in X : \A p \in X : p <= g
  <2>1. /\ GreatestOf(X, npos) \in X
        /\ \A i \in X : i <= GreatestOf(X, npos)
    BY <1>1, <1>2, EndsAreIn
  <2> QED
    BY <2>1
<1>4. \A o \in X : (\A p \in X : p <= o) => o = g
  BY <1>2, <1>3
<1>5. WordLess(S, T) <=> \E o \in T \ S : \A p \in X : p <= o
  BY DEF WordLess, X
<1>6. WordLess(T, S) <=> \E o \in S \ T : \A p \in X : p <= o
  BY <1>1 DEF WordLess
<1>7. WordLess(S, T) <=> g \in T \ S
  BY <1>1, <1>3, <1>4, <1>5
<1>8. WordLess(T, S) <=> g \in S \ T
  BY <1>1, <1>3, <1>4, <1>6
<1> QED
  BY <1>1, <1>3, <1>7, <1>8

LEMMA CompareOrders ==
    ASSUME NEW c, Fit(c), NEW S \in SUBSET Below(c), NEW T \in SUBSET Below(c)
    PROVE  LET s == SetWith(c, S)
               o == SetWith(c, T)
           IN (SetCompare(s, o) = 0 <=> S = T) /\ SetCompare(s, o) = - SetCompare(o, s)
<1>1. c \in Nat
  BY DEF Fit
<1>2. ASSUME NEW V \in SUBSET Below(c), NEW W \in SUBSET Below(c)
      PROVE  SetCompare(SetWith(c, V), SetWith(c, W)) = IF V = W THEN 0 ELSE IF WordLess(V, W) THEN -1 ELSE 1
  <2> DEFINE s == SetWith(c, V)
             o == SetWith(c, W)
             differ == {w \in DOMAIN s.words : s.words[w] # o.words[w]}
             first == CHOOSE w \in differ : \A x \in differ : w <= x
  <2>1. s.words[1] = V /\ DOMAIN s.words = 1 .. 1
    BY SetWithIs
  <2>2. o.words[1] = W
    BY SetWithIs
  <2> HIDE DEF s, o
  <2>3. SetCompare(s, o) = IF differ = {} THEN 0 ELSE IF WordLess(s.words[first], o.words[first]) THEN -1 ELSE 1
    BY DEF SetCompare
  <2>4. differ = {} <=> V = W
    BY <2>1, <2>2
  <2>5. ASSUME V # W PROVE first = 1
    <3>1. differ = {1}
      BY <2>1, <2>2, <2>5
    <3> HIDE DEF differ
    <3> QED
      BY <3>1
  <2> HIDE DEF differ, first
  <2>6. SetCompare(s, o) = IF V = W THEN 0 ELSE IF WordLess(V, W) THEN -1 ELSE 1
    BY <2>1, <2>2, <2>3, <2>4, <2>5
  <2> QED
    BY <2>6 DEF s, o
<1>3. S # T => (WordLess(S, T) <=> ~ WordLess(T, S))
  BY <1>1, WordsOrder
<1> DEFINE p == SetCompare(SetWith(c, S), SetWith(c, T))
           q == SetCompare(SetWith(c, T), SetWith(c, S))
<1>4. p = IF S = T THEN 0 ELSE IF WordLess(S, T) THEN -1 ELSE 1
  BY <1>2
<1>5. q = IF S = T THEN 0 ELSE IF WordLess(T, S) THEN -1 ELSE 1
  BY <1>2
<1> HIDE DEF p, q
<1>6. (p = 0 <=> S = T) /\ p = - q
  BY <1>3, <1>4, <1>5
<1> QED
  BY <1>6 DEF p, q

\* A set that fits is its bits.
LEMMA SetCalls ==
    ASSUME SetInv
    PROVE  SetIsItsBits
<1> DEFINE c == set.capacity
           b == SetBitsOf(set)
<1>1. SUFFICES ASSUME Fitting(c)
      PROVE
      /\ Defined
      /\ \A v \in BOOLEAN : SetBitsOf(FillSet(set, v)) = [i \in DOMAIN b |-> v]
      /\ SetBitsOf(FlipAll(set)) = [i \in DOMAIN b |-> ~ b[i]]
      /\ \A i \in DOMAIN b : SetBitsOf(Toggle(set, i - 1)) = [b EXCEPT ![i] = ~ @]
      /\ \A v \in BOOLEAN, start, n \in 0 .. c :
           SetBitsOf(FlipRange(set, v, start, n)) =
             [i \in DOMAIN b |-> IF v /\ start < i /\ i <= start + n THEN ~ b[i] ELSE b[i]]
      /\ SetCountTrue(set) = Count(b, TRUE)
      /\ SetAny(set) <=> Count(b, TRUE) > 0
      /\ c = WordBits(c) => (SetAll(set) <=> Count(b, FALSE) = 0)
      /\ \A o \in SetOperands :
           /\ SetBitsOf(SetXor(set, o)) = [i \in DOMAIN b |-> b[i] # SetBitsOf(o)[i]]
           /\ SetCompare(set, o) = 0 <=> b = SetBitsOf(o)
           /\ SetCompare(set, o) = - SetCompare(o, set)
  BY DEF SetIsItsBits
<1>2. Fit(c)
  BY <1>1, CapacityIs
<1>3. PICK S \in SUBSET Below(c) : set = SetWith(c, S)
  BY <1>1 DEF SetInv
<1> HIDE DEF c
<1>4. Defined
  BY <1>3, SetWithIs DEF Defined
<1>5. /\ \A v \in BOOLEAN : SetBitsOf(FillSet(set, v)) = [i \in DOMAIN b |-> v]
      /\ SetBitsOf(FlipAll(set)) = [i \in DOMAIN b |-> ~ b[i]]
      /\ \A i \in DOMAIN b : SetBitsOf(Toggle(set, i - 1)) = [b EXCEPT ![i] = ~ @]
  BY <1>2, <1>3, BitsShow
<1>6. \A v \in BOOLEAN, start, n \in 0 .. c :
        SetBitsOf(FlipRange(set, v, start, n)) =
          [i \in DOMAIN b |-> IF v /\ start < i /\ i <= start + n THEN ~ b[i] ELSE b[i]]
  BY <1>2, <1>3, RangeFlips
<1>7. /\ SetCountTrue(set) = Count(b, TRUE)
      /\ SetAny(set) <=> Count(b, TRUE) > 0
      /\ c = WordBits(c) => (SetAll(set) <=> Count(b, FALSE) = 0)
  BY <1>2, <1>3, CountsAre
<1>8. ASSUME NEW o \in SetOperands
      PROVE  /\ SetBitsOf(SetXor(set, o)) = [i \in DOMAIN b |-> b[i] # SetBitsOf(o)[i]]
             /\ SetCompare(set, o) = 0 <=> b = SetBitsOf(o)
             /\ SetCompare(set, o) = - SetCompare(o, set)
  <2>1. PICK T \in SUBSET Below(c) : o = SetWith(c, T)
    BY <1>1, SetOperandIs DEF SoundSet, c
  <2>2. /\ SetBitsOf(SetXor(set, o)) = [i \in DOMAIN b |-> b[i] # SetBitsOf(o)[i]]
        /\ b = SetBitsOf(o) <=> S = T
    BY <1>2, <1>3, <2>1, XorShows
  <2>3. (SetCompare(set, o) = 0 <=> S = T) /\ SetCompare(set, o) = - SetCompare(o, set)
    BY <1>2, <1>3, <2>1, CompareOrders
  <2> QED
    BY <2>2, <2>3
<1> HIDE DEF b
<1> QED
  BY <1>4, <1>5, <1>6, <1>7, <1>8

\* SetIsItsBits: a BitSet that its words fit answers every call as the string
\* of its bits does, for every width of a byte and every capacity.
THEOREM SetsAreTheirBits == SetSpec => []SetIsItsBits
<1>1. SetInv => SetIsItsBits
  BY SetCalls
<1> QED
  BY <1>1, SetInvHolds, PTL


-----------------------------------------------------------------------------
(* Whichever of the three classes the calls are made on. *)

BitsInv ==
  /\ object = "BitArray" => ArrayInv
  /\ object = "BitSet" => SetInv
  /\ object = "BitSpan" => SpanInv

LEMMA SetsStart == SetInit => SetInv
  BY SetStarts DEF SetInit

\* BitsAreExact: every call on a BitArray, on a BitSet that its words fit and on
\* a BitSpan does to the string of its bits what it is for, and every query
\* answers from that string, for every width of a byte and every size.
THEOREM BitsAreAlwaysExact == ContainersSpec => []BitsAreExact
<1>1. ContainersInit => BitsInv
  BY ArrayStarts, SetsStart, SpanStarts DEF ContainersInit, BitsInv
<1>2. BitsInv /\ ContainersNext => BitsInv'
  <2>1. SUFFICES ASSUME BitsInv, ContainersNext PROVE BitsInv'
    OBVIOUS
  <2>2. object' = object
    BY <2>1 DEF ContainersNext
  <2>3. ASSUME object = "BitArray" PROVE ArrayInv'
    <3>1. ArrayInv /\ ArrayNext
      BY <2>1, <2>3 DEF BitsInv, ContainersNext
    <3> QED
      BY <3>1, ArraySteps
  <2>4. ASSUME object = "BitSet" PROVE SetInv'
    <3>1. SetInv /\ SetNext
      BY <2>1, <2>4 DEF BitsInv, ContainersNext
    <3> QED
      BY <3>1, SetSteps
  <2>5. ASSUME object = "BitSpan" PROVE SpanInv'
    <3>1. SpanInv /\ SpanNext
      BY <2>1, <2>5 DEF BitsInv, ContainersNext
    <3> QED
      BY <3>1, SpanSteps
  <2> QED
    BY <2>2, <2>3, <2>4, <2>5 DEF BitsInv
<1>3. BitsInv /\ UNCHANGED <<object, vars, bufferVars, array, set, SpanVars, ByteVars, cellArray, MemoryVars>>
        => BitsInv'
  <2>1. ArrayInv /\ UNCHANGED array => ArrayInv'
    BY ArraySteps
  <2>2. SetInv /\ UNCHANGED set => SetInv'
    BY SetSteps
  <2>3. SpanInv /\ UNCHANGED SpanVars => SpanInv'
    BY SpanSteps
  <2> QED
    BY <2>1, <2>2, <2>3 DEF BitsInv
<1>4. BitsInv => BitsAreExact
  BY ArrayCalls, SetCalls, ViewCalls DEF BitsInv, BitsAreExact
<1> QED
  BY <1>1, <1>2, <1>3, <1>4, PTL DEF ContainersSpec
=============================================================================
