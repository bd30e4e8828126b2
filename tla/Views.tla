------------------------------- MODULE Views -------------------------------
(***************************************************************************)
(* nex::BasicStringView (base/string_view.h) and the members of StringView *)
(* (core/text/string_view.h) that forward to it: parts of a string and     *)
(* searches in it.  Positions count from 0, as in the code.                *)
(***************************************************************************)
EXTENDS Integers, Sequences

CONSTANT SizeMax        \* the largest size_type
NoPos == SizeMax        \* npos

LesserOf(m, n) == IF m < n THEN m ELSE n
Least(at) == IF at = {} THEN NoPos ELSE CHOOSE i \in at : \A j \in at : i <= j
Greatest(at) == IF at = {} THEN NoPos ELSE CHOOSE i \in at : \A j \in at : j <= i

Subview(s, position, count) ==
  SubSeq(s, position + 1, position + LesserOf(count, Len(s) - position))
FirstOf(s, count) == SubSeq(s, 1, count)
LastOf(s, count) == SubSeq(s, Len(s) - count + 1, Len(s))
DropPrefix(s, count) == Subview(s, LesserOf(count, Len(s)), NoPos)
DropSuffix(s, count) == FirstOf(s, Len(s) - LesserOf(count, Len(s)))

(* traits_type::compare(data_ + i, other.data(), other.size()) == 0 *)
StandsAt(s, t, i) == \A k \in DOMAIN t : s[i + k] = t[k]

FindChar(s, ch, position) == Least({i \in position .. Len(s) - 1 : s[i + 1] = ch})
Find(s, t, position) ==
  IF position >= Len(s) \/ Len(t) > Len(s) - position THEN NoPos
  ELSE IF t = <<>> THEN position
  ELSE Least({i \in position .. Len(s) - Len(t) : StandsAt(s, t, i)})

RFindChar(s, ch, position) ==
  Greatest({i \in 0 .. LesserOf(position, Len(s) - 1) : s[i + 1] = ch})

RFind(s, t, position) ==
  IF Len(t) > Len(s) THEN NoPos
  ELSE Greatest({i \in 0 .. LesserOf(position, Len(s) - Len(t)) : StandsAt(s, t, i)})

(* Any of the characters of t, or none of them.  An empty t is found where *)
(* the search begins: by findLastOf() even beyond the end of the view.     *)
CharsOf(t) == {t[k] : k \in DOMAIN t}
FindFirstOf(s, t, position) ==
  IF position >= Len(s) THEN NoPos ELSE IF t = <<>> THEN position
  ELSE Least({i \in position .. Len(s) - 1 : s[i + 1] \in CharsOf(t)})
FindFirstNotOf(s, t, position) ==
  Least({i \in position .. Len(s) - 1 : s[i + 1] \notin CharsOf(t)})
FindLastOf(s, t, position) ==
  IF s = <<>> THEN NoPos ELSE IF t = <<>> THEN position
  ELSE Greatest({i \in 0 .. LesserOf(position, Len(s) - 1) : s[i + 1] \in CharsOf(t)})
FindLastNotOf(s, t, position) ==
  Greatest({i \in 0 .. LesserOf(position, Len(s) - 1) : s[i + 1] \notin CharsOf(t)})

Contains(s, t) == Find(s, t, 0) # NoPos
StartsWithText(s, t) == Len(s) >= Len(t) /\ StandsAt(s, t, 0)
EndsWithText(s, t) == Len(s) >= Len(t) /\ StandsAt(s, t, Len(s) - Len(t))

Sign(n) == IF n < 0 THEN -1 ELSE IF n > 0 THEN 1 ELSE 0
(* The first difference decides, then the length. *)
CompareText(s, t) ==
  LET shorter == LesserOf(Len(s), Len(t))
      differs == Least({i \in 0 .. shorter - 1 : s[i + 1] # t[i + 1]})
  IN IF differs # NoPos THEN Sign(s[differs + 1] - t[differs + 1]) ELSE Sign(Len(s) - Len(t))
=============================================================================
