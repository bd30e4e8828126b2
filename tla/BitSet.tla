------------------------------- MODULE BitSet --------------------------------
(***************************************************************************)
(* nex::BitSet<Capacity> (core/containers/bit_set.h): a fixed number of    *)
(* bits in words of the smallest width that holds them, or of the largest. *)
(* A word is the set of the offsets of its ones.  clearUnusedBits() takes  *)
(* a byte index for a word index: "overrun" is a write beyond the words,   *)
(* "undefined" a shift by the width of an unsigned int or more, after both *)
(* of which nothing more is said.                                          *)
(***************************************************************************)
EXTENDS BitLayout

CONSTANT Capacities     \* the instances of the template

(* requires (Capacity > 0); usize is wider than the widest word is long.   *)
ASSUME SetAssumption == Capacities \subseteq Nat \ {0} /\ 8 * ByteBits < SizeLimit

VARIABLE set            \* [capacity, words, how]


(* uint8, uint16, uint32 or uint64 *)
WordBits(c) ==
  IF c <= ByteBits THEN ByteBits
  ELSE IF c <= 2 * ByteBits THEN 2 * ByteBits
  ELSE IF c <= 4 * ByteBits THEN 4 * ByteBits ELSE 8 * ByteBits
WordCount(c) == (c + WordBits(c) - 1) \div WordBits(c)
WordIndex(c, i) == i \div WordBits(c)
WordBitOffset(c, i) == i % WordBits(c)

(* The literals 1U and ~0U have the width of unsigned int. *)
IntBits == 4 * ByteBits
WordOffsets(c) == 0 .. WordBits(c) - 1
Ones(c) == 0 .. SmallerOf(WordBits(c), IntBits) - 1
Shiftable(c, i) == WordBitOffset(c, i) < IntBits

NewSet(c) == [capacity |-> c, words |-> [w \in 1 .. WordCount(c) |-> {}], how |-> "defined"]

(* Mutated form: the mask keeps the bit after the last. *)
ClearUnusedWide(s) ==
  LET last == s.capacity - 1
  IN IF BitOffset(last) >= ByteBits - 1 THEN s
     ELSE IF ByteIndex(last) >= WordCount(s.capacity) THEN [s EXCEPT !.how = "overrun"]
     ELSE [s EXCEPT !.words[ByteIndex(last) + 1] = @ \cap 0 .. BitOffset(last) + 1]

ClearUnused(s) ==
  LET last == s.capacity - 1
  IN IF BitOffset(last) >= ByteBits - 1 THEN s
     ELSE IF ByteIndex(last) >= WordCount(s.capacity) THEN [s EXCEPT !.how = "overrun"]
     ELSE [s EXCEPT !.words[ByteIndex(last) + 1] = @ \cap 0 .. BitOffset(last)]

TestAt(s, i) ==
  i < s.capacity /\ WordBitOffset(s.capacity, i) \in s.words[WordIndex(s.capacity, i) + 1]

(* setBit, clearBit, toggleBit, and a loop of them over a set of indices. *)
PutAll(s, indices, bit(_)) ==
  LET inside == {i \in indices : i < s.capacity}
  IN IF \E i \in inside : ~Shiftable(s.capacity, i) THEN [s EXCEPT !.how = "undefined"]
     ELSE [s EXCEPT !.words = [w \in DOMAIN s.words |->
             {o \in WordOffsets(s.capacity) :
                LET i == (w - 1) * WordBits(s.capacity) + o
                IN IF i \in inside THEN bit(i) ELSE o \in s.words[w]}]]
Put(s, i, value) == PutAll(s, {i}, LAMBDA k : value)
Toggle(s, i) == PutAll(s, {i}, LAMBDA k : ~TestAt(s, k))

(* BitSet(list), BitSet(count, value), fromVec() *)
SetFrom(c, bits) ==
  ClearUnused(PutAll(NewSet(c), 0 .. SmallerOf(c, Len(bits)) - 1, LAMBDA i : bits[i + 1]))

EachWord(s, op(_)) == [s EXCEPT !.words = [w \in DOMAIN s.words |-> op(w)]]

FillSet(s, value) ==
  IF value THEN ClearUnused(EachWord(s, LAMBDA w : Ones(s.capacity))) ELSE EachWord(s, LAMBDA w : {})
FlipAll(s) == ClearUnused(EachWord(s, LAMBDA w : WordOffsets(s.capacity) \ s.words[w]))

(* fill(value, start, count), flip(value, start, count): a sum that wraps  *)
(* is not beyond the capacity, and the loop ends before it begins.         *)
RangeOf(s, start, count) ==
  IF start >= s.capacity \/ count = 0 THEN {}
  ELSE LET end == (start + count) % SizeLimit
       IN start .. (IF end > s.capacity THEN s.capacity ELSE end) - 1
FillSetRange(s, value, start, count) == PutAll(s, RangeOf(s, start, count), LAMBDA i : value)
FlipRange(s, value, start, count) ==
  PutAll(s, RangeOf(s, start, count), LAMBDA i : IF value THEN ~TestAt(s, i) ELSE TestAt(s, i))

SetAnd(s, o) == EachWord(s, LAMBDA w : s.words[w] \cap o.words[w])
SetOr(s, o)  == EachWord(s, LAMBDA w : s.words[w] \cup o.words[w])
SetXor(s, o) == EachWord(s, LAMBDA w : BitsXor(s.words[w], o.words[w]))

(* mid(), left() and right(): a new set that begins with the bits taken.   *)
(* In mid() a sum that wraps is not cut: the loop goes over many indices   *)
(* that are in neither set, and none of them matters.                      *)
TakeBits(s, start, n) == PutAll(NewSet(s.capacity), 0 .. n - 1, LAMBDA i : TestAt(s, start + i))
SetMid(s, start, count) ==
  LET cut == IF (start + count) % SizeLimit > s.capacity THEN s.capacity - start ELSE count
  IN TakeBits(s, start, IF start >= s.capacity THEN 0 ELSE cut)
SetLeft(s, count)  == IF count >= s.capacity THEN s ELSE TakeBits(s, 0, count)
SetRight(s, count) == IF count >= s.capacity THEN s ELSE TakeBits(s, s.capacity - count, count)

-----------------------------------------------------------------------------
SetBitsOf(s) == [k \in 1 .. s.capacity |-> TestAt(s, k - 1)]

FindFirst(s, value) ==
  LET at == {i \in 0 .. s.capacity - 1 : TestAt(s, i) = value}
  IN IF at = {} THEN npos ELSE CHOOSE i \in at : \A j \in at : i <= j
SetCountTrue(s) ==
  LET ones(w) == Cardinality(s.words[w])
      sum[w \in 0 .. Len(s.words)] == IF w = 0 THEN 0 ELSE sum[w - 1] + ones(w)
  IN sum[Len(s.words)]
SetAny(s) == \E w \in DOMAIN s.words : s.words[w] # {}
SetAll(s) == \A w \in DOMAIN s.words : s.words[w] = Ones(s.capacity)

(* compare(): word by word, as numbers. *)
WordLess(v, w) == \E o \in w \ v : \A p \in BitsXor(v, w) : p <= o
SetCompare(s, o) ==
  LET differ == {w \in DOMAIN s.words : s.words[w] # o.words[w]}
      first  == CHOOSE w \in differ : \A x \in differ : w <= x
  IN IF differ = {} THEN 0 ELSE IF WordLess(s.words[first], o.words[first]) THEN -1 ELSE 1

-----------------------------------------------------------------------------
SetOperands == {SetFrom(set.capacity, bits) : bits \in [1 .. set.capacity -> BOOLEAN]} \cup {set}
Defined == set.how = "defined"

SetInit == \E c \in Capacities : set = NewSet(c)

SetAssign == \E o \in SetOperands : set' = o
SetPut == \E i \in 0 .. set.capacity, v \in BOOLEAN : set' = Put(set, i, v)
SetToggle == \E i \in 0 .. set.capacity : set' = Toggle(set, i)
SetFill == \E v \in BOOLEAN : set' = FillSet(set, v)
SetFlipAll == set' = FlipAll(set)   \* operator~ returns the same
SetRanges ==
  \E v \in BOOLEAN, start \in 0 .. set.capacity, count \in 0 .. set.capacity \cup {npos} :
    set' \in {FillSetRange(set, v, start, count), FlipRange(set, v, start, count)}
SetLogic == \E o \in SetOperands : set' \in {SetAnd(set, o), SetOr(set, o), SetXor(set, o)}
SetParts ==
  \E start \in 0 .. set.capacity, count \in 0 .. set.capacity \cup {npos} :
    set' \in {SetMid(set, start, count), SetLeft(set, count), SetRight(set, count)}

SetNext ==
  Defined /\ (\/ SetAssign \/ SetPut \/ SetToggle \/ SetFill \/ SetFlipAll
              \/ SetRanges \/ SetLogic \/ SetParts)
SetSpec == SetInit /\ [][SetNext]_set

-----------------------------------------------------------------------------
(* The instances that the arithmetic of the class fits: all bits in one    *)
(* byte, or in one whole word no wider than an unsigned int.               *)
Fitting(c) == c <= ByteBits \/ (c = WordBits(c) /\ c <= IntBits)

(* A BitSet that fits its word stays defined, and its calls and queries    *)
(* are those on the string of its bits (all() only if no bit of the word   *)
(* is left over).                                                          *)
SetIsItsBits ==
  Fitting(set.capacity) =>
    LET b == SetBitsOf(set)
    IN /\ Defined
       /\ \A v \in BOOLEAN : SetBitsOf(FillSet(set, v)) = [i \in DOMAIN b |-> v]
       /\ SetBitsOf(FlipAll(set)) = [i \in DOMAIN b |-> ~b[i]]
       /\ \A i \in DOMAIN b : SetBitsOf(Toggle(set, i - 1)) = [b EXCEPT ![i] = ~@]
       /\ \A v \in BOOLEAN, start, count \in 0 .. set.capacity :
            SetBitsOf(FlipRange(set, v, start, count)) =
              [i \in DOMAIN b |-> IF v /\ start < i /\ i <= start + count THEN ~b[i] ELSE b[i]]
       /\ SetCountTrue(set) = Count(b, TRUE)
       /\ SetAny(set) <=> Count(b, TRUE) > 0
       /\ set.capacity = WordBits(set.capacity) => (SetAll(set) <=> Count(b, FALSE) = 0)
       /\ \A o \in SetOperands :
            /\ SetBitsOf(SetXor(set, o)) = [i \in DOMAIN b |-> b[i] # SetBitsOf(o)[i]]
            /\ SetCompare(set, o) = 0 <=> b = SetBitsOf(o)
            /\ SetCompare(set, o) = -SetCompare(o, set)
=============================================================================
