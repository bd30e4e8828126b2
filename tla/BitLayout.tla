------------------------------ MODULE BitLayout ------------------------------
(***************************************************************************)
(* What BitArray, BitSet and BitSpan share: bits packed into bytes, the    *)
(* least significant first.  A byte is the set of the offsets of its ones, *)
(* so that & | ^ ~ are operations on sets.  Indices count from 0, as in    *)
(* the code; sequences of bytes are TLA+ sequences.                        *)
(***************************************************************************)
EXTENDS Integers, Sequences, FiniteSets

CONSTANTS ByteBits,     \* bitsPerByte(), 8 in the code
          SizeLimit     \* usize counts modulo SizeLimit

ASSUME LayoutAssumption == ByteBits \in Nat \ {0} /\ SizeLimit \in Nat \ {0}

Offsets == 0 .. ByteBits - 1
npos == SizeLimit - 1
SmallerOf(m, n) == IF m < n THEN m ELSE n

ByteIndex(i) == i \div ByteBits
BitOffset(i) == i % ByteBits
BufferSizeForBits(n) == (n + ByteBits - 1) \div ByteBits

(* 0xFF or 0x00 *)
FillByte(value) == IF value THEN Offsets ELSE {}

BitsXor(v, w) == (v \ w) \cup (w \ v)

(* min(start + count, size): the sum may wrap. *)
EndOfRange(start, count, size) == SmallerOf((start + count) % SizeLimit, size)

(* A bit string is a sequence of BOOLEAN; three-way comparison, first      *)
(* difference first, then the length.                                      *)
BitStrings(n) == UNION {[1 .. k -> BOOLEAN] : k \in 0 .. n}

CompareBits(s, t) ==
  LET common == SmallerOf(Len(s), Len(t))
      differ == {i \in 1 .. common : s[i] # t[i]}
      first  == CHOOSE i \in differ : \A j \in differ : i <= j
  IN IF differ # {} THEN (IF s[first] THEN 1 ELSE -1)
     ELSE IF Len(s) < Len(t) THEN -1 ELSE IF Len(s) > Len(t) THEN 1 ELSE 0

Count(s, value) == Cardinality({i \in DOMAIN s : s[i] = value})
=============================================================================
