-------------------------------- MODULE Bytes --------------------------------
(***************************************************************************)
(* nex::ByteArray (core/containers/byte_array.h, .cpp) and nex::ByteSpan   *)
(* (core/view/byte_span.h, .cpp).  A byte has 4 * Unit bits (8 in the      *)
(* code), a hexadecimal digit 2 * Unit, a Base64 character 3 * Unit.       *)
(* A text is a sequence of characters: the value of a digit, white space,  *)
(* the padding sign, or any other one.                                     *)
(***************************************************************************)
EXTENDS Integers, Sequences, FiniteSets, SequencesExt

CONSTANTS Unit,        \* 2 in the code
          ByteValues,      \* the bytes a program uses
          MaxBytes,    \* bound of a model: no array is longer
          SizeMax      \* npos

ASSUME BytesAssumption == /\ Unit \in Nat \ {0} /\ SizeMax \in Nat /\ SizeMax > MaxBytes
                          /\ ByteValues \subseteq 0 .. 2^(4 * Unit) - 1

VARIABLES bytes,       \* buffer_
          span,        \* a ByteSpan of it, [first |-> data_, size |-> size_]
          shown        \* what the span should show

Least(m, n) == IF m < n THEN m ELSE n
Digits == 0 .. 2^(2 * Unit) - 1
Sextets == 0 .. 2^(3 * Unit) - 1
Space == -1
Pad == -2
Invalid == -3
Arrays(n) == UNION {[1 .. k -> ByteValues] : k \in 0 .. n}

-----------------------------------------------------------------------------
(* Members that change a ByteArray.  Positions count from 0. *)
Sub(b, first, last) == SubSeq(b, first + 1, last)

ResizeTo(b, n, value) == [i \in 1 .. n |-> IF i <= Len(b) THEN b[i] ELSE value]
Truncate(b, n) == IF n < Len(b) THEN ResizeTo(b, n, 0) ELSE b

AppendBytes(b, s) == b \o s
PrependBytes(b, s) == s \o b
(* append() and prepend() of the array itself do nothing. *)
AppendSelf(b) == b
InsertBytes(b, pos, s) == LET p == Least(pos, Len(b)) IN Sub(b, 0, p) \o s \o Sub(b, p, Len(b))

RemoveBytesAt(b, pos, count) ==
  IF pos >= Len(b) THEN b
  ELSE LET n == Least(count, Len(b) - pos) IN Sub(b, 0, pos) \o Sub(b, pos + n, Len(b))
RemoveValue(b, value) == SelectSeq(b, LAMBDA v : v # value)
ReplaceBytes(b, pos, count, s) ==
  IF pos >= Len(b) THEN b ELSE InsertBytes(RemoveBytesAt(b, pos, count), pos, s)

(* fill(value, start, count): the sum may wrap. *)
FillBytes(b, value, start, count) ==
  LET end == Least((start + count) % (SizeMax + 1), Len(b))
  IN IF start >= Len(b) THEN b
     ELSE [i \in DOMAIN b |-> IF start < i /\ i <= end THEN value ELSE b[i]]

LeftBytes(b, count) == Sub(b, 0, Least(count, Len(b)))
RightBytes(b, count) == Sub(b, Len(b) - Least(count, Len(b)), Len(b))
MidBytes(b, start, count) ==
  IF start >= Len(b) THEN <<>> ELSE Sub(b, start, start + Least(count, Len(b) - start))

-----------------------------------------------------------------------------
(* Hexadecimal text.  fromHex() passes over what is no digit; a digit      *)
(* without a neighbour is the low half of a byte.                          *)
ToHex(b) == FlattenSeq([i \in DOMAIN b |-> <<b[i] \div 2^(2 * Unit), b[i] % 2^(2 * Unit)>>])

(* from[i]: the bytes read from place i on. *)
FromHex(t) ==
  LET from[i \in 1 .. Len(t) + 2] ==
        IF i > Len(t) THEN <<>>
        ELSE IF t[i] \notin Digits THEN from[i + 1]
        ELSE IF i < Len(t) /\ t[i + 1] \in Digits
             THEN <<t[i] * 2^(2 * Unit) + t[i + 1]>> \o from[i + 2]
             ELSE <<t[i]>> \o from[i + 1]
  IN from[1]

(* Base64.  The text is read in groups of four, wherever white space is:   *)
(* a space counts as a place with the value zero, and may be the last.     *)
Sextet(n, k) == (n \div 2^(3 * Unit * (3 - k))) % 2^(3 * Unit)
ToBase64Group(g) ==
  LET at(k) == IF k <= Len(g) THEN g[k] ELSE 0
      n == at(1) * 2^(8 * Unit) + at(2) * 2^(4 * Unit) + at(3)
  IN <<Sextet(n, 0), Sextet(n, 1), IF Len(g) >= 2 THEN Sextet(n, 2) ELSE Pad,
       IF Len(g) >= 3 THEN Sextet(n, 3) ELSE Pad>>

Groups(s, size) ==
  [k \in 1 .. (Len(s) + size - 1) \div size |-> Sub(s, (k - 1) * size, Least(k * size, Len(s)))]
ToBase64(b) == FlattenSeq([k \in DOMAIN Groups(b, 3) |-> ToBase64Group(Groups(b, 3)[k])])

(* Mutated form: a padding character counts as a character that was read. *)
ValidPrefixPadded(g) ==
  LET stops == {j \in DOMAIN g : g[j] \in {Pad, Invalid}}
      stop  == CHOOSE j \in stops : \A k \in stops : j <= k
      valued(m) == {j \in 1 .. m : g[j] \in Sextets}
      last(m) == IF valued(m) = {} THEN 0 ELSE CHOOSE j \in valued(m) : \A k \in valued(m) : k <= j
  IN IF stops = {} THEN last(Len(g)) ELSE IF g[stop] = Pad THEN stop ELSE 0

(* validChars: the places up to the last character with a value, up to     *)
(* the padding, or none if some other character comes before it.           *)
ValidPrefix(g) ==
  LET stops == {j \in DOMAIN g : g[j] \in {Pad, Invalid}}
      stop  == CHOOSE j \in stops : \A k \in stops : j <= k
      valued(m) == {j \in 1 .. m : g[j] \in Sextets}
      last(m) == IF valued(m) = {} THEN 0 ELSE CHOOSE j \in valued(m) : \A k \in valued(m) : k <= j
  IN IF stops = {} THEN last(Len(g)) ELSE IF g[stop] = Pad THEN stop - 1 ELSE 0

FromBase64Group(g) ==
  LET valid == ValidPrefix(g)
      value(k) == IF k <= valid /\ g[k] \in Sextets THEN g[k] ELSE 0
      n == value(1) * 2^(9 * Unit) + value(2) * 2^(6 * Unit) + value(3) * 2^(3 * Unit) + value(4)
      byte(k) == (n \div 2^(4 * Unit * (3 - k))) % 2^(4 * Unit)
  IN IF valid < 2 THEN <<>> ELSE [k \in 1 .. valid - 1 |-> byte(k)]
FromBase64(t) == FlattenSeq([k \in DOMAIN Groups(t, 4) |-> FromBase64Group(Groups(t, 4)[k])])

-----------------------------------------------------------------------------
(* Questions.  ByteArray never finds an empty array, ByteSpan always does. *)
FirstIn(at) == IF at = {} THEN SizeMax ELSE CHOOSE i \in at : \A j \in at : i <= j
LastIn(at)  == IF at = {} THEN SizeMax ELSE CHOOSE i \in at : \A j \in at : j <= i
MatchesAt(b, s, i) == \A k \in DOMAIN s : b[i + k] = s[k]

ArrayIndexOf(b, s, from) ==
  IF s = <<>> \/ from >= Len(b) \/ Len(s) > Len(b) - from THEN SizeMax
  ELSE FirstIn({i \in from .. Len(b) - Len(s) : MatchesAt(b, s, i)})
ArrayIndexOfByte(b, v, from) ==
  IF from >= Len(b) THEN SizeMax ELSE FirstIn({i \in from .. Len(b) - 1 : b[i + 1] = v})
LastIndexOfByte(b, v, from) ==
  IF b = <<>> THEN SizeMax ELSE LastIn({i \in 0 .. Least(from, Len(b) - 1) : b[i + 1] = v})
CountByte(b, v) == Cardinality({i \in DOMAIN b : b[i] = v})
CompareBytes(b, s) ==
  LET common == Least(Len(b), Len(s))
      at == FirstIn({i \in 0 .. common - 1 : b[i + 1] # s[i + 1]})
  IN IF at # SizeMax THEN (IF b[at + 1] < s[at + 1] THEN -1 ELSE 1)
     ELSE IF Len(b) < Len(s) THEN -1 ELSE IF Len(b) > Len(s) THEN 1 ELSE 0

Seen(b, v) == [k \in 1 .. v.size |-> b[v.first + k]]

SpanIndexOf(b, v, s, pos) ==
  IF pos > v.size \/ Len(s) > v.size - pos THEN SizeMax
  ELSE IF s = <<>> THEN pos
  ELSE FirstIn({i \in pos .. v.size - Len(s) : MatchesAt(b, s, v.first + i)})
SpanLastIndexOf(b, v, s, pos) ==
  IF Len(s) > v.size THEN SizeMax
  ELSE IF s = <<>> THEN Least(pos, v.size)
  ELSE LastIn({i \in 0 .. Least(pos, v.size - Len(s)) : MatchesAt(b, s, v.first + i)})
SpanFindOf(b, v, set, pos, inSet) ==
  FirstIn({i \in pos .. v.size - 1 : (b[v.first + i + 1] \in set) = inSet})
SpanFindLastOf(b, v, set, pos, inSet) ==
  IF v.size = 0 THEN SizeMax
  ELSE LastIn({i \in 0 .. Least(pos, v.size - 1) : (b[v.first + i + 1] \in set) = inSet})
SpanStartsWith(b, v, s) == s = <<>> \/ (v.size >= Len(s) /\ MatchesAt(b, s, v.first))
SpanEndsWith(b, v, s) == s = <<>> \/ (v.size >= Len(s) /\ MatchesAt(b, s, v.first + v.size - Len(s)))

-----------------------------------------------------------------------------
SpanDropFirst(v, n) == LET k == Least(n, v.size) IN [first |-> v.first + k, size |-> v.size - k]
SpanDropLast(v, n) == [v EXCEPT !.size = @ - Least(n, @)]
NullSpan == [first |-> 0, size |-> 0]
SpanMid(v, start, count) ==
  IF start >= v.size THEN NullSpan
  ELSE [first |-> v.first + start, size |-> Least(count, v.size - start)]
SpanLeftOf(v, count) == [v EXCEPT !.size = Least(count, @)]
SpanRightOf(v, count) ==
  IF count >= v.size THEN v ELSE [first |-> v.first + v.size - count, size |-> count]

(* A change of the array ends the validity of its spans; view() makes one. *)
Becomes(b) ==
  /\ Len(b) <= MaxBytes
  /\ bytes' = b /\ span' = [first |-> 0, size |-> Len(b)] /\ shown' = b
Positions == 0 .. MaxBytes
Counts == Positions \cup {SizeMax}
Others == Arrays(2)

BytesInit == bytes = <<>> /\ span = NullSpan /\ shown = <<>>

BytesResize == \E n \in Positions, v \in ByteValues : Becomes(ResizeTo(bytes, n, v)) \/ Becomes(Truncate(bytes, n))
BytesAppend == \E s \in Others : Becomes(AppendBytes(bytes, s)) \/ Becomes(PrependBytes(bytes, s))
BytesAppendSelf == Becomes(AppendSelf(bytes))
BytesInsert == \E pos \in Positions, s \in Others : Becomes(InsertBytes(bytes, pos, s))
BytesInsertSpan == \E pos \in Positions : Becomes(InsertBytes(bytes, pos, Seen(bytes, span)))
BytesReplace == \E pos \in Positions, n \in Counts, s \in Others : Becomes(ReplaceBytes(bytes, pos, n, s))
BytesRemoveAt == \E pos \in Positions, n \in Counts : Becomes(RemoveBytesAt(bytes, pos, n))
BytesRemove == \E v \in ByteValues : Becomes(RemoveValue(bytes, v))
BytesFill == \E v \in ByteValues, start \in Positions, n \in Counts : Becomes(FillBytes(bytes, v, start, n))
BytesReverse == Becomes(Reverse(bytes))
BytesTake ==
  \E start \in Positions, n \in Counts :
    Becomes(MidBytes(bytes, start, n)) \/ Becomes(LeftBytes(bytes, n)) \/ Becomes(RightBytes(bytes, n))

Narrow(v, s) == span' = v /\ shown' = s /\ UNCHANGED bytes
ByteSpanPrefix == \E n \in Positions : Narrow(SpanDropFirst(span, n), Sub(shown, n, Len(shown)))
ByteSpanSuffix == \E n \in Positions : Narrow(SpanDropLast(span, n), Sub(shown, 0, Len(shown) - n))
ByteSpanPart ==
  \E start \in Positions, n \in Positions :
    \/ Narrow(SpanMid(span, start, n), Sub(shown, start, Least(start + n, Len(shown))))
    \/ Narrow(SpanLeftOf(span, n), Sub(shown, 0, Least(n, Len(shown))))
    \/ Narrow(SpanRightOf(span, n), Sub(shown, IF n < Len(shown) THEN Len(shown) - n ELSE 0, Len(shown)))

BytesNext ==
  \/ BytesResize \/ BytesAppend \/ BytesAppendSelf \/ BytesInsert \/ BytesInsertSpan
  \/ BytesReplace \/ BytesRemoveAt \/ BytesRemove \/ BytesFill \/ BytesReverse \/ BytesTake
  \/ ByteSpanPrefix \/ ByteSpanSuffix \/ ByteSpanPart

-----------------------------------------------------------------------------
(* Hexadecimal and Base64 text read back as the bytes they were made of;   *)
(* white space between the bytes does not matter to fromHex().             *)
TextsReadBack ==
  /\ FromHex(ToHex(bytes)) = bytes
  /\ \A k \in 0 .. Len(bytes) :
       FromHex(Sub(ToHex(bytes), 0, 2 * k) \o <<Space>> \o Sub(ToHex(bytes), 2 * k, 2 * Len(bytes))) = bytes
  /\ FromBase64(ToBase64(bytes)) = bytes
  /\ Len(ToBase64(bytes)) % 4 = 0

(* Edits, cuts and searches against plain sequences: removing and putting  *)
(* back is no change, cuts make up the whole, a span shows the bytes it    *)
(* should however it was narrowed, and a search finds the first or last    *)
(* place where the pattern stands, or none.                                *)
Stands(b, s, i) == i + Len(s) <= Len(b) /\ Sub(b, i, i + Len(s)) = s
BytesAreExact ==
  /\ TextsReadBack
  /\ Seen(bytes, span) = shown
  /\ \A pos \in 0 .. Len(bytes), n \in Counts :
       LET cut == MidBytes(bytes, pos, n)
       IN /\ InsertBytes(RemoveBytesAt(bytes, pos, n), pos, cut) = bytes
          /\ Len(RemoveBytesAt(bytes, pos, n)) = Len(bytes) - Len(cut)
          /\ LeftBytes(bytes, pos) \o RightBytes(bytes, Len(bytes) - pos) = bytes
          /\ ReplaceBytes(bytes, pos, n, cut) = bytes
  /\ \A v \in ByteValues : CountByte(RemoveValue(bytes, v), v) = 0
  /\ \A s \in Others, pos \in Positions :
       LET at(b) == {i \in 0 .. Len(b) : Stands(b, s, i)}
       IN /\ ArrayIndexOf(bytes, s, pos) = FirstIn({i \in at(bytes) : s # <<>> /\ i >= pos})
          /\ SpanIndexOf(bytes, span, s, pos) = FirstIn({i \in at(shown) : i >= pos})
          /\ SpanLastIndexOf(bytes, span, s, pos) = LastIn({i \in at(shown) : i <= pos})
          /\ SpanStartsWith(bytes, span, s) <=> 0 \in at(shown)
          /\ SpanEndsWith(bytes, span, s) <=> Len(shown) - Len(s) \in at(shown)
          /\ (CompareBytes(bytes, s) = 0 <=> bytes = s) /\ CompareBytes(bytes, s) = -CompareBytes(s, bytes)
  /\ \A v \in ByteValues :
       /\ SpanFindOf(bytes, span, {v}, 0, TRUE) = ArrayIndexOfByte(shown, v, 0)
       /\ SpanFindLastOf(bytes, span, ByteValues \ {v}, SizeMax, FALSE) = LastIndexOfByte(shown, v, SizeMax)
=============================================================================
