------------------------------- MODULE BitSpan -------------------------------
(***************************************************************************)
(* nex::BitSpan (core/view/bit_span.h, bit_span.cpp): a window on bits     *)
(* that belong to somebody else.  The window is a byte, an offset in that  *)
(* byte and a number of bits; the bytes do not change.                     *)
(***************************************************************************)
EXTENDS BitLayout

CONSTANT SpanBytes      \* length of the memory that is looked at

ASSUME SpanAssumption == SpanBytes \in Nat /\ SpanBytes * ByteBits <= npos

VARIABLES memory,       \* the bytes
          view,         \* the span that the calls change
          window        \* which bits it should show: <<first, last + 1>>

NoView == [data |-> 0, bitOffset |-> 0, bitCount |-> 0]

(* BitSpan(data, bitStartOffset, bitCount) *)
ViewAt(data, start, n) ==
  [data |-> data + start \div ByteBits, bitOffset |-> start % ByteBits, bitCount |-> n]

TestView(m, v, i) == LET abs == v.bitOffset + i
                     IN BitOffset(abs) \in m[v.data + ByteIndex(abs) + 1]

(* Mutated form: the offset is not carried into the next byte. *)
RemovePrefixStay(v, n) ==
  LET k == SmallerOf(n, v.bitCount)
  IN [v EXCEPT !.bitOffset = (v.bitOffset + k) % ByteBits, !.bitCount = @ - k]

RemovePrefix(v, n) ==
  LET k == SmallerOf(n, v.bitCount)
  IN ViewAt(v.data, v.bitOffset + k, v.bitCount - k)
RemoveSuffix(v, n) == [v EXCEPT !.bitCount = @ - SmallerOf(n, @)]

Subspan(v, pos, count) ==
  LET n == SmallerOf(count, v.bitCount - pos)
  IN IF n = 0 THEN NoView ELSE ViewAt(v.data, v.bitOffset + pos, n)
LeftView(v, count) ==
  IF count = 0 THEN NoView ELSE IF count >= v.bitCount THEN v ELSE ViewAt(v.data, v.bitOffset, count)
RightView(v, count) ==
  IF count = 0 THEN NoView ELSE IF count >= v.bitCount THEN v
  ELSE ViewAt(v.data, v.bitOffset + (v.bitCount - count), count)
MidView(v, start, count) ==
  IF start >= v.bitCount THEN NoView
  ELSE ViewAt(v.data, v.bitOffset + start, SmallerOf(count, v.bitCount - start))

-----------------------------------------------------------------------------
ViewBits(m, v) == [k \in 1 .. v.bitCount |-> TestView(m, v, k - 1)]

(* ConstIterator counts bits from the first byte of the view. *)
IterateView(m, v) ==
  LET begin == v.bitOffset  end == v.bitOffset + v.bitCount
  IN [k \in 1 .. end - begin |-> BitOffset(begin + k - 1) \in m[v.data + ByteIndex(begin + k - 1) + 1]]

LeastOf(at, none) == IF at = {} THEN none ELSE CHOOSE i \in at : \A j \in at : i <= j
GreatestOf(at, none) == IF at = {} THEN none ELSE CHOOSE i \in at : \A j \in at : j <= i

MatchAt(m, v, p, i) == \A j \in 0 .. p.bitCount - 1 : TestView(m, v, i + j) = TestView(m, p, j)

IndexOfBit(m, v, bit, pos) == LeastOf({i \in pos .. v.bitCount - 1 : TestView(m, v, i) = bit}, npos)
IndexOf(m, v, p, pos) ==
  IF p.bitCount = 0 THEN IF pos <= v.bitCount THEN pos ELSE npos
  ELSE IF p.bitCount > v.bitCount \/ pos > v.bitCount - p.bitCount THEN npos
  ELSE LeastOf({i \in pos .. v.bitCount - p.bitCount : MatchAt(m, v, p, i)}, npos)
LastIndexOfBit(m, v, bit, pos) ==
  IF v.bitCount = 0 THEN npos
  ELSE GreatestOf({i \in 0 .. SmallerOf(pos, v.bitCount - 1) : TestView(m, v, i) = bit}, npos)
LastIndexOf(m, v, p, pos) ==
  IF p.bitCount = 0 THEN SmallerOf(pos, v.bitCount)
  ELSE IF p.bitCount > v.bitCount THEN npos
  ELSE GreatestOf({i \in 0 .. SmallerOf(pos, v.bitCount - p.bitCount) : MatchAt(m, v, p, i)}, npos)
StartsWith(m, v, p) == p.bitCount <= v.bitCount /\ MatchAt(m, v, p, 0)
EndsWith(m, v, p) == p.bitCount <= v.bitCount /\ MatchAt(m, v, p, v.bitCount - p.bitCount)
ContainsBits(m, v, p) == IndexOf(m, v, p, 0) # npos
CountBits(m, v, bit) == Cardinality({i \in 0 .. v.bitCount - 1 : TestView(m, v, i) = bit})
CompareViews(m, v, p) == CompareBits(ViewBits(m, v), ViewBits(m, p))

-----------------------------------------------------------------------------
AllBitsOf == SpanBytes * ByteBits
Patterns == {ViewAt(0, s, n) : s \in 0 .. ByteBits, n \in 0 .. AllBitsOf - ByteBits}

SpanInit ==
  /\ memory \in [1 .. SpanBytes -> SUBSET Offsets]
  /\ \E s \in 0 .. AllBitsOf : \E n \in 0 .. AllBitsOf - s :
       view = ViewAt(0, s, n) /\ window = <<s, s + n>>

Shrinks(from, to, v) == view' = v /\ window' = <<from, to>> /\ UNCHANGED memory

Width == window[2] - window[1]
SpanRemovePrefix ==
  \E n \in 0 .. AllBitsOf :
    Shrinks(window[1] + SmallerOf(n, Width), window[2], RemovePrefix(view, n))
SpanRemoveSuffix ==
  \E n \in 0 .. AllBitsOf :
    Shrinks(window[1], window[2] - SmallerOf(n, Width), RemoveSuffix(view, n))
SpanPart ==
  \E pos \in 0 .. Width, count \in 0 .. AllBitsOf \cup {npos} :
    LET end == SmallerOf(pos + count, Width)
    IN \/ Shrinks(window[1] + pos, window[1] + end, Subspan(view, pos, count))
       \/ Shrinks(window[1] + pos, window[1] + end, MidView(view, pos, count))
SpanLeft ==
  \E count \in 0 .. AllBitsOf :
    Shrinks(window[1], window[1] + SmallerOf(count, Width), LeftView(view, count))
SpanRight ==
  \E count \in 0 .. AllBitsOf :
    Shrinks(window[2] - SmallerOf(count, Width), window[2], RightView(view, count))

SpanNext == SpanRemovePrefix \/ SpanRemoveSuffix \/ SpanPart \/ SpanLeft \/ SpanRight
SpanVars == <<memory, view, window>>
SpanSpec == SpanInit /\ [][SpanNext]_SpanVars

-----------------------------------------------------------------------------
(* The bits of the memory, as one string. *)
Whole == [i \in 1 .. AllBitsOf |-> (i - 1) % ByteBits \in memory[(i - 1) \div ByteBits + 1]]
Occurs(s, t, i) == i + Len(t) <= Len(s) /\ SubSeq(s, i + 1, i + Len(t)) = t

(* However it was cut, with whatever offsets inside bytes, a view shows    *)
(* the bits it should; reading and iterating agree; and every search       *)
(* answers as on strings of bits.                                          *)
ViewShowsWindow ==
  LET s == SubSeq(Whole, window[1] + 1, window[2])
  IN /\ ViewBits(memory, view) = s /\ IterateView(memory, view) = s
     /\ \A p \in Patterns, pos \in 0 .. Width + 1 :
          LET t == ViewBits(memory, p)
              at == {i \in 0 .. Width : Occurs(s, t, i)}
          IN /\ IndexOf(memory, view, p, pos) = LeastOf({i \in at : i >= pos}, npos)
             /\ LastIndexOf(memory, view, p, pos) = GreatestOf({i \in at : i <= pos}, npos)
             /\ StartsWith(memory, view, p) <=> 0 \in at
             /\ EndsWith(memory, view, p) <=> (Len(s) - Len(t)) \in at
             /\ CompareViews(memory, view, p) = 0 <=> s = t
     /\ \A bit \in BOOLEAN :
          /\ CountBits(memory, view, bit) = Count(s, bit)
          /\ IndexOfBit(memory, view, bit, 0) # npos <=> Count(s, bit) > 0
          /\ LastIndexOfBit(memory, view, bit, npos) # npos <=> Count(s, bit) > 0
=============================================================================
