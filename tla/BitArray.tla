------------------------------ MODULE BitArray -------------------------------
(***************************************************************************)
(* nex::BitArray (core/containers/bit_array.h, bit_array.cpp): a Vec of    *)
(* bytes and a number of bits.  Each member is an operator on that pair;   *)
(* each member that changes it an action.                                  *)
(***************************************************************************)
EXTENDS BitLayout

CONSTANT MaxBits        \* bound of a model: no array grows beyond it

ASSUME ArrayAssumption == MaxBits \in 0 .. npos

VARIABLE array          \* [buffer |-> buffer_, bitCount |-> bitCount_]

SizesOf(n) == 0 .. n \cup {npos}

(* Vec::resize(n, fill) *)
ResizeBuffer(buffer, n, fill) ==
  [i \in 1 .. n |-> IF i <= Len(buffer) THEN buffer[i] ELSE fill]

(* Mutated form: keeps one bit too many. *)
ClearUnusedBitsLate(a) ==
  IF a.bitCount = 0 THEN a
  ELSE [a EXCEPT !.buffer[ByteIndex(a.bitCount - 1) + 1] = @ \cap 0 .. BitOffset(a.bitCount - 1) + 1]

ClearUnusedBits(a) ==
  IF a.bitCount = 0 THEN a
  ELSE [a EXCEPT !.buffer[ByteIndex(a.bitCount - 1) + 1] = @ \cap 0 .. BitOffset(a.bitCount - 1)]

(* BitArray(size, fillValue), BitArray(size), BitArray() *)
Sized(n, value) ==
  ClearUnusedBits([buffer |-> ResizeBuffer(<<>>, BufferSizeForBits(n), FillByte(value)), bitCount |-> n])
EmptyArray == Sized(0, FALSE)

TestBit(a, i) ==
  /\ i < a.bitCount
  /\ BitOffset(i) \in a.buffer[ByteIndex(i) + 1]

SetBitTrue(a, i) ==
  IF i >= a.bitCount THEN a ELSE [a EXCEPT !.buffer[ByteIndex(i) + 1] = @ \cup {BitOffset(i)}]
ClearBit(a, i) ==
  IF i >= a.bitCount THEN a ELSE [a EXCEPT !.buffer[ByteIndex(i) + 1] = @ \ {BitOffset(i)}]
SetBit(a, i, value) == IF value THEN SetBitTrue(a, i) ELSE ClearBit(a, i)
ToggleBit(a, i) ==
  IF i >= a.bitCount THEN a ELSE [a EXCEPT !.buffer[ByteIndex(i) + 1] = BitsXor(@, {BitOffset(i)})]

(* operator[] of an array that may be changed, and what can be assigned to *)
(* the BitReference it returns: = |= &= ^=, and ~ which only reads.        *)
RefAssign(a, i, value) == SetBit(a, i, value)
RefOr(a, i, value)  == IF value THEN SetBitTrue(a, i) ELSE a
RefAnd(a, i, value) == IF ~value THEN ClearBit(a, i) ELSE a
RefXor(a, i, value) == IF value THEN ToggleBit(a, i) ELSE a
RefNot(a, i) == ~TestBit(a, i)

(* setBit() for the indices first .. last - 1: the loops of fill(),        *)
(* resize(), mid() and fromVec().  One index does not affect another.      *)
SetBits(a, first, last, bit(_)) ==
  [a EXCEPT !.buffer = [b \in DOMAIN a.buffer |->
     {o \in Offsets :
        LET i == (b - 1) * ByteBits + o
        IN IF first <= i /\ i < last /\ i < a.bitCount THEN bit(i) ELSE o \in a.buffer[b]}]]

(* The new bits lie in the byte that was the last before. *)
GrowsWithin(a, n, value) ==
  /\ n > a.bitCount /\ value
  /\ BufferSizeForBits(a.bitCount) = BufferSizeForBits(n) /\ a.bitCount > 0

(* Resizing over a byte that was already there does not set the new bits   *)
(* in it when more bytes follow: only new bytes get the fill value.        *)
Resize(a, n, value) ==
  LET required == BufferSizeForBits(n)
      sized == [buffer |-> ResizeBuffer(a.buffer, required, FillByte(value)), bitCount |-> n]
  IN IF n = 0 THEN EmptyArray
     ELSE ClearUnusedBits(IF GrowsWithin(a, n, value) THEN SetBits(sized, a.bitCount, n, LAMBDA i : TRUE) ELSE sized)

Fill(a, value) ==
  ClearUnusedBits([a EXCEPT !.buffer = [b \in DOMAIN a.buffer |-> FillByte(value)]])

FillRange(a, value, start, count) ==
  IF start >= a.bitCount THEN a
  ELSE SetBits(a, start, EndOfRange(start, count, a.bitCount), LAMBDA i : value)

(* &= keeps the bytes beyond the shorter operand, as zeros. *)
And(a, o) ==
  ClearUnusedBits([buffer |-> [b \in DOMAIN a.buffer |->
                                IF b <= Len(o.buffer) THEN a.buffer[b] \cap o.buffer[b] ELSE {}],
                   bitCount |-> SmallerOf(a.bitCount, o.bitCount)])

Combine(a, o, op(_, _)) ==
  LET wide == IF o.bitCount > a.bitCount THEN Resize(a, o.bitCount, FALSE) ELSE a
  IN ClearUnusedBits([wide EXCEPT !.buffer = [b \in DOMAIN wide.buffer |->
        IF b <= Len(o.buffer) THEN op(wide.buffer[b], o.buffer[b]) ELSE wide.buffer[b]]])
Or(a, o)  == Combine(a, o, LAMBDA v, w : v \cup w)
Xor(a, o) == Combine(a, o, BitsXor)

Not(a) == ClearUnusedBits([a EXCEPT !.buffer = [b \in DOMAIN a.buffer |-> Offsets \ a.buffer[b]]])

-----------------------------------------------------------------------------
FromVec(s) == SetBits(Sized(Len(s), FALSE), 0, Len(s), LAMBDA i : s[i + 1])
ToVec(a) == [k \in 1 .. a.bitCount |-> TestBit(a, k - 1)]

(* From begin() to end() with an iterator, whose state is an index, and    *)
(* with a reverse iterator, which reads the place before its base.         *)
Forward(a)  == [k \in 1 .. a.bitCount |-> TestBit(a, 0 + (k - 1))]
Backward(a) == [k \in 1 .. a.bitCount |-> LET base == a.bitCount - (k - 1) IN TestBit(a, base - 1)]

Mid(a, start, count) ==
  LET most == a.bitCount - start
      n == IF count = npos THEN most ELSE SmallerOf(count, most)
  IN IF start >= a.bitCount THEN EmptyArray
     ELSE SetBits(Sized(n, FALSE), 0, n, LAMBDA i : TestBit(a, start + i))
Left(a, count) ==
  IF count = 0 THEN EmptyArray ELSE IF count >= a.bitCount THEN a ELSE Mid(a, 0, count)
Right(a, count) ==
  IF count = 0 THEN EmptyArray ELSE IF count >= a.bitCount THEN a
  ELSE Mid(a, a.bitCount - count, count)

CountTrue(a) == Cardinality({i \in 0 .. a.bitCount - 1 : TestBit(a, i)})
CountFalse(a) == a.bitCount - CountTrue(a)
AnyBit(a) == \E b \in DOMAIN a.buffer : a.buffer[b] # {}
AllBits(a) == \A i \in 0 .. a.bitCount - 1 : TestBit(a, i)
Compare(a, o) == CompareBits(ToVec(a), ToVec(o))

(* operator==: whole bytes, then the bits that remain. *)
Equal(a, o) ==
  LET full == a.bitCount \div ByteBits
      rest == 0 .. (a.bitCount % ByteBits) - 1
  IN /\ a.bitCount = o.bitCount
     /\ \A b \in 1 .. full : a.buffer[b] = o.buffer[b]
     /\ rest # {} => a.buffer[full + 1] \cap rest = o.buffer[full + 1] \cap rest

-----------------------------------------------------------------------------
(* The arrays a caller can build, and the array itself, as operands. *)
Operands == {FromVec(s) : s \in BitStrings(MaxBits)} \cup {array}

ArrayInit == \E n \in 0 .. MaxBits, v \in BOOLEAN : array = Sized(n, v)

ArrayResize == \E n \in 0 .. MaxBits, v \in BOOLEAN : array' = Resize(array, n, v)
ArrayClear == array' = EmptyArray
ArrayAssign == \E o \in Operands : array' = o
ArraySetBit == \E i \in 0 .. MaxBits, v \in BOOLEAN : array' = SetBit(array, i, v)
ArrayToggleBit == \E i \in 0 .. MaxBits : array' = ToggleBit(array, i)
ArrayFill == \E v \in BOOLEAN : array' = Fill(array, v)
ArrayFillRange ==
  \E v \in BOOLEAN, start \in 0 .. MaxBits, count \in SizesOf(MaxBits) :
    array' = FillRange(array, v, start, count)
ArrayAnd == \E o \in Operands : array' = And(array, o)
ArrayOr == \E o \in Operands : array' = Or(array, o)
ArrayXor == \E o \in Operands : array' = Xor(array, o)
ArrayNot == array' = Not(array)
ArrayMid ==
  \E start \in 0 .. MaxBits, count \in SizesOf(MaxBits) :
    array' \in {Mid(array, start, count), Left(array, count), Right(array, count)}

ArrayNext ==
  \/ ArrayResize \/ ArrayClear \/ ArrayAssign \/ ArraySetBit \/ ArrayToggleBit
  \/ ArrayFill \/ ArrayFillRange \/ ArrayAnd \/ ArrayOr \/ ArrayXor \/ ArrayNot \/ ArrayMid

ArraySpec == ArrayInit /\ [][ArrayNext]_array

-----------------------------------------------------------------------------
(* An array has surplus bytes after &= with a shorter one. *)
Surplus(a) == Len(a.buffer) > BufferSizeForBits(a.bitCount)

(* There is a byte for every bit, and the bits of the last byte in use     *)
(* that are not part of the array are zero, after any sequence of calls.   *)
PaddingIsClear ==
  /\ Len(array.buffer) >= BufferSizeForBits(array.bitCount)
  /\ ~Surplus(array) =>
       \A b \in DOMAIN array.buffer : \A o \in array.buffer[b] :
         (b - 1) * ByteBits + o < array.bitCount

(* What resize() makes of the bit string s: t has n bits, the first those   *)
(* of s, the new ones the fill value.  When true bits are added over the   *)
(* end of the old last byte, the rest of that byte is left out of this.    *)
ResizesTo(s, t, n, value) ==
  /\ DOMAIN t = 1 .. n
  /\ \A i \in 1 .. n :
       /\ i <= Len(s) => t[i] = s[i]
       /\ i > Len(s) /\ (\/ ~value \/ BufferSizeForBits(Len(s)) = BufferSizeForBits(n)
                         \/ i > BufferSizeForBits(Len(s)) * ByteBits) => t[i] = value

Aligned(s, n) == [i \in 1 .. n |-> i <= Len(s) /\ s[i]]
Longer(s, t) == IF Len(s) > Len(t) THEN Len(s) ELSE Len(t)

(* Every call on an array without surplus bytes does to the string of its  *)
(* bits what its name says, resize() as far as ResizesTo, and every        *)
(* question about it is answered from that string.  The padding stays      *)
(* clear, so that an array built from the same bits is equal to it.        *)
ArrayIsItsBits ==
  /\ PaddingIsClear
  /\ ~Surplus(array) =>
      LET s == ToVec(array)
      IN /\ \A n \in 0 .. MaxBits, v \in BOOLEAN :
              ResizesTo(s, ToVec(Resize(array, n, v)), n, v)
         /\ \A i \in DOMAIN s, v \in BOOLEAN :
              /\ ToVec(SetBit(array, i - 1, v)) = [s EXCEPT ![i] = v]
              /\ ToVec(ToggleBit(array, i - 1)) = [s EXCEPT ![i] = ~@]
         /\ \A v \in BOOLEAN : ToVec(Fill(array, v)) = [i \in DOMAIN s |-> v]
         /\ ToVec(Not(array)) = [i \in DOMAIN s |-> ~s[i]]
         /\ \A o \in Operands :
              LET t == ToVec(o)  m == Longer(s, t)
              IN /\ ToVec(And(array, o)) = [i \in 1 .. SmallerOf(Len(s), Len(t)) |-> s[i] /\ t[i]]
                 /\ ToVec(Or(array, o)) = [i \in 1 .. m |-> Aligned(s, m)[i] \/ Aligned(t, m)[i]]
                 /\ ToVec(Xor(array, o)) = [i \in 1 .. m |-> Aligned(s, m)[i] # Aligned(t, m)[i]]
                 /\ Equal(array, o) <=> s = t
                 /\ Compare(array, o) = 0 <=> s = t
         /\ \A start \in 0 .. MaxBits, count \in 0 .. MaxBits :
              /\ ToVec(Mid(array, start, count)) = SubSeq(s, start + 1, SmallerOf(start + count, Len(s)))
              /\ ToVec(Right(array, count)) = SubSeq(s, Len(s) - SmallerOf(count, Len(s)) + 1, Len(s))
         /\ AnyBit(array) <=> \E i \in DOMAIN s : s[i]
         /\ AllBits(array) <=> CountFalse(array) = 0
         /\ Forward(array) = s /\ Backward(array) = [i \in DOMAIN s |-> s[Len(s) + 1 - i]]
=============================================================================
