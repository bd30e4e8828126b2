--------------------------- MODULE TextAlgorithms ---------------------------
(***************************************************************************)
(* nex::text (core/text/algorithms.h, algorithms.cpp): functions from a    *)
(* string to a new one.  A string is UTF-8; the functions walk over its    *)
(* bytes as if each were a UTF-16 code unit, and narrow a char16 to a byte *)
(* when they append it or look for it.                                     *)
(***************************************************************************)
EXTENDS Encoding

CONSTANTS
  Alphabet,     \* the bytes that lines are made of
  MaxLine       \* bound on the length of a line

VARIABLE line

Space == 32
Ellipsis == 8230                \* the default of truncate()
ToByte(ch) == ch % 256          \* char16 to char8

IsWhitespace(ch) == IsUnicodeWhitespace(ch)
IsUpper(ch) == ch \in 65 .. 90
IsLower(ch) == ch \in 97 .. 122

IsBlank(s) == \A i \in DOMAIN s : IsWhitespace(s[i])
IsNumeric(s) == s # <<>> /\ \A i \in DOMAIN s : s[i] \in 48 .. 57
(* iswalpha() is the library's; in the "C" locale it adds nothing. *)
IsAlpha(s) ==
  s # <<>> /\ \A i \in DOMAIN s : IsUpper(s[i]) \/ IsLower(s[i]) \/ s[i] \in (192 .. 255) \ {215, 247}

Split(s, delimiter) ==
  LET from[start \in 0 .. Len(s)] ==
        LET end == FindChar(s, ToByte(delimiter), start)
        IN IF end # NoPos THEN <<Subview(s, start, end - start)>> \o from[end + 1]
           ELSE IF start < Len(s) THEN <<Subview(s, start, NoPos)>> ELSE <<>>
  IN from[0]

Join(strings, delimiter) ==
  LET upTo[i \in 0 .. Len(strings)] ==
        IF i = 0 THEN <<>> ELSE IF i = 1 THEN strings[1]
        ELSE upTo[i - 1] \o <<ToByte(delimiter)>> \o strings[i]
  IN upTo[Len(strings)]

Truncate(s, maxLength, ellipsis) ==
  IF Len(s) <= maxLength THEN s
  ELSE IF maxLength = 0 THEN <<>>
  ELSE Subview(s, 0, maxLength - 1) \o <<ToByte(ellipsis)>>

(* The first and the last character that is not trimmed. *)
TrimLeft(s, ch) ==
  LET kept == {i \in DOMAIN s : s[i] # ch}
  IN IF kept = {} THEN <<>> ELSE Subview(s, Least(kept) - 1, NoPos)
TrimRight(s, ch) ==
  LET kept == {i \in DOMAIN s : s[i] # ch}
  IN IF kept = {} THEN <<>> ELSE Subview(s, 0, Greatest(kept))
Trim(s, ch) == TrimRight(TrimLeft(s, ch), ch)

(* Mutated form: the flag is not cleared by the next word. *)
StartsRunOnce(s, i) == \A j \in 1 .. i - 1 : ~ IsWhitespace(s[j])

StartsRun(s, i) == i = 1 \/ ~ IsWhitespace(s[i - 1])

(* White space is kept where it begins, as one space. *)
SquashSpaces(s) ==
  LET kept == SelectSeq([i \in DOMAIN s |-> i],
                        LAMBDA i : ~ IsWhitespace(s[i]) \/ StartsRun(s, i))
  IN [k \in DOMAIN kept |-> IF IsWhitespace(s[kept[k]]) THEN Space ELSE s[kept[k]]]
NormalizeSpaces(s) == SquashSpaces(Trim(s, Space))

Lower(ch) == IF IsUpper(ch) THEN ch + 32 ELSE ch
Upper(ch) == IF IsLower(ch) THEN ch - 32 ELSE ch
ToLower(s) == [i \in DOMAIN s |-> Lower(s[i])]
ToUpper(s) == [i \in DOMAIN s |-> Upper(s[i])]
StartsWord(s, i) == i = 1 \/ IsWhitespace(s[i - 1])
ToTitleCase(s) == [i \in DOMAIN s |-> IF StartsWord(s, i) THEN Upper(s[i]) ELSE Lower(s[i])]

Left(s, count) == IF count >= Len(s) THEN s ELSE Subview(s, 0, count)
Mid(s, start, count) ==
  IF start >= Len(s) THEN <<>>
  ELSE IF count = NoPos \/ (start + count) % (SizeMax + 1) > Len(s)
       THEN Subview(s, start, Len(s) - start)
       ELSE Subview(s, start, count)
Right(s, count) == IF count >= Len(s) THEN s ELSE Subview(s, Len(s) - count, count)

SubstringBetween(s, open, close) ==
  LET at == Find(s, open, 0)
      start == at + Len(open)
      end == Find(s, close, start)
  IN IF at = NoPos \/ end = NoPos THEN <<>> ELSE Subview(s, start, end - start)

ContainsAny(s, characters) == \E i \in DOMAIN s : FindChar(characters, s[i], 0) # NoPos

CountChar(s, ch) == Len(SelectSeq(s, LAMBDA c : c = ch))
EraseChar(s, ch) == SelectSeq(s, LAMBDA c : c # ch)
ReplaceChar(s, target, replacement) ==
  [i \in DOMAIN s |-> IF s[i] = target THEN ToByte(replacement) ELSE s[i]]

(* Mutated form: one character further, so that matches may overlap. *)
PastMatchByOne(end, target) == end + 1

(* Where the search goes on after a match. *)
PastMatch(end, target) == end + Len(target)

CountText(s, target) ==
  LET from[start \in 0 .. Len(s)] ==
        LET end == Find(s, target, start)
        IN IF end = NoPos THEN 0 ELSE 1 + from[PastMatch(end, target)]
  IN IF target = <<>> THEN 0 ELSE from[0]

(* The loop of replace() ends only if the target is not empty. *)
ReplaceText(s, target, replacement) ==
  LET from[start \in 0 .. Len(s)] ==
        LET end == Find(s, target, start)
        IN IF end = NoPos THEN Subview(s, start, NoPos)
           ELSE Subview(s, start, end - start) \o replacement \o from[PastMatch(end, target)]
  IN from[0]
EraseText(s, target) == ReplaceText(s, target, <<>>)

Padding(s, total, ch) == [k \in 1 .. total - Len(s) |-> ToByte(ch)]
LeftPad(s, total, ch) == Padding(s, total, ch) \o s
RightPad(s, total, ch) == s \o Padding(s, total, ch)

Mask(s, start, end, ch) ==
  IF start >= Len(s) \/ end > Len(s) \/ start >= end THEN s
  ELSE [i \in DOMAIN s |-> IF i - 1 \in start .. end - 1 THEN ToByte(ch) ELSE s[i]]

-----------------------------------------------------------------------------
Texts(n) == UNION {[1 .. k -> Alphabet] : k \in 0 .. n}

TextInit == line = <<>>

Rewritten(s) == Len(s) <= MaxLine /\ line' = s
Type(ch) == Rewritten(line \o <<ch>>)
Tidy ==
  \/ Rewritten(NormalizeSpaces(line)) \/ Rewritten(SquashSpaces(line))
  \/ Rewritten(ToLower(line)) \/ Rewritten(ToUpper(line)) \/ Rewritten(ToTitleCase(line))
  \/ \E ch \in Alphabet : Rewritten(EraseChar(line, ch)) \/ Rewritten(Trim(line, ch))
Substitute ==
  \E target \in Texts(2) \ {<<>>}, replacement \in Texts(1) :
    Rewritten(ReplaceText(line, target, replacement))

TextNext == (\E ch \in Alphabet : Type(ch)) \/ Tidy \/ Substitute

-----------------------------------------------------------------------------
OccursAt(s, t, i) == i + Len(t) <= Len(s) /\ SubSeq(s, i + 1, i + Len(t)) = t

(* Searches, as they should answer: find() of an empty string fails at the *)
(* end of the view and beyond, and so in an empty view.  Looking for any   *)
(* of some characters finds the nearest of them, and trimming stops at the *)
(* first character, from either end, that is another.                      *)
SearchesAgree ==
  \A t \in Texts(2), position \in 0 .. Len(line) + 1 :
    LET at == {i \in 0 .. Len(line) : OccursAt(line, t, i)}
        inside == {i \in at : i < Len(line)}
    IN /\ Find(line, t, position) = Least({i \in inside : i >= position})
       /\ RFind(line, t, position) = Greatest({i \in at : i <= position})
       /\ StartsWithText(line, t) <=> 0 \in at
       /\ EndsWithText(line, t) <=> (Len(line) - Len(t)) \in at
       /\ Contains(line, t) <=> inside # {}
       /\ CompareText(line, t) = - CompareText(t, line)
       /\ CompareText(line, t) = 0 <=> line = t
       /\ \A ch \in Alphabet :
            t = <<ch>> => /\ FindChar(line, ch, position) = Find(line, t, position)
                          /\ RFindChar(line, ch, position) = RFind(line, t, position)
                          /\ TrimLeft(line, ch) = DropPrefix(line, FindFirstNotOf(line, t, 0))
                          /\ TrimRight(line, ch) = FirstOf(line, (FindLastNotOf(line, t, NoPos) + 1) % (SizeMax + 1))
       /\ t # <<>> =>
            /\ FindFirstOf(line, t, position) = Least({FindChar(line, t[k], position) : k \in DOMAIN t})
            /\ FindLastOf(line, t, position) =
                 Greatest({RFindChar(line, t[k], position) : k \in {j \in DOMAIN t : RFindChar(line, t[j], position) # NoPos}})

(* Replacing, one character at a time. *)
Replaced(s, target, replacement) ==
  LET from[i \in 0 .. Len(s)] ==
        IF OccursAt(s, target, i) THEN replacement \o from[i + Len(target)]
        ELSE IF i = Len(s) THEN <<>> ELSE <<s[i + 1]>> \o from[i + 1]
  IN from[0]

(* What is cut can be put together again: split() and join() lose at most  *)
(* one delimiter at the end, replace() touches exactly the leftmost        *)
(* occurrences that do not overlap, countOccurrences() counts those, and   *)
(* the parts of a string make up the string.                               *)
PiecesRejoin ==
  /\ \A ch \in Alphabet :
       LET pieces == Split(line, ch)
       IN /\ Join(pieces, ch) = IF EndsWithText(line, <<ch>>) THEN DropSuffix(line, 1) ELSE line
          /\ \A i \in DOMAIN pieces : ~ ContainsAny(pieces[i], <<ch>>)
          /\ Trim(line, ch) = TrimLeft(TrimRight(line, ch), ch)
  /\ \A target \in Texts(2) \ {<<>>}, replacement \in Texts(1) :
       LET result == ReplaceText(line, target, replacement)
       IN /\ result = Replaced(line, target, replacement)
          /\ Len(result) = Len(line) + CountText(line, target) * (Len(replacement) - Len(target))
          /\ \A ch \in Alphabet :
               target = <<ch>> => /\ EraseText(line, target) = EraseChar(line, ch)
                                  /\ CountText(line, target) = CountChar(line, ch)
  /\ \A n \in 0 .. MaxLine + 1 :
       /\ Left(line, n) \o Mid(line, n, NoPos) = line
       /\ Left(line, Len(line) - LesserOf(n, Len(line))) \o Right(line, n) = line
       /\ DropPrefix(LeftPad(line, n, Space), Len(Padding(line, n, Space))) = line
       /\ Len(RightPad(line, n, Space)) >= n
       /\ Len(Truncate(line, n, Ellipsis)) = LesserOf(n, Len(line))
       /\ \A m \in 0 .. SizeMax : Mid(line, n, m) = Left(Mid(line, n, NoPos), m)

(* The words of a line: what white space separates. *)
WordsOf(s) ==
  LET scan[i \in 0 .. Len(s)] ==
        IF i = 0 THEN <<>>
        ELSE IF IsWhitespace(s[i]) THEN scan[i - 1]
        ELSE IF StartsWord(s, i) THEN scan[i - 1] \o <<<<s[i]>>>>
        ELSE LET done == scan[i - 1]
             IN [done EXCEPT ![Len(done)] = @ \o <<s[i]>>]
  IN scan[Len(s)]

(* Tidying keeps the words: squashing spaces keeps them in order with one  *)
(* space between two, doing it again changes nothing, and a change of case *)
(* changes the case only.                                                  *)
WordsSurvive ==
  /\ WordsOf(SquashSpaces(line)) = WordsOf(line)
  /\ WordsOf(NormalizeSpaces(line)) = WordsOf(line)
  /\ Trim(SquashSpaces(line), Space) = Join(WordsOf(line), Space)
  /\ SquashSpaces(SquashSpaces(line)) = SquashSpaces(line)
  /\ ToLower(ToTitleCase(line)) = ToLower(line)
  /\ ToTitleCase(ToUpper(line)) = ToTitleCase(ToLower(line))
  /\ SquashSpaces(ToTitleCase(line)) = ToTitleCase(SquashSpaces(line))
  /\ IsBlank(line) <=> WordsOf(line) = <<>>

(* A line that is well-formed UTF-8 remains so when it is split, trimmed or *)
(* searched for ASCII characters, when well-formed text is replaced by     *)
(* well-formed text, and when its case changes, though all of this is done *)
(* byte by byte.                                                           *)
EditsKeepUtf8 ==
  WellFormed8(line) =>
    /\ \A ch \in Alphabet \cap 0 .. 127 :
         /\ \A i \in DOMAIN Split(line, ch) : WellFormed8(Split(line, ch)[i])
         /\ WellFormed8(Trim(line, ch)) /\ WellFormed8(EraseChar(line, ch))
    /\ \A target \in {t \in Texts(2) \ {<<>>} : WellFormed8(t)} :
         /\ \A replacement \in {<<>>, <<195, 160>>} : WellFormed8(ReplaceText(line, target, replacement))
         /\ WellFormed8(SubstringBetween(line, target, <<Space>>))
    /\ WellFormed8(ToLower(line)) /\ WellFormed8(ToUpper(line)) /\ WellFormed8(ToTitleCase(line))

=============================================================================
