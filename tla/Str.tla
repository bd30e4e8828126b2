-------------------------------- MODULE Str --------------------------------
(***************************************************************************)
(* nex::BasicStringStorage and BasicString (base/string.h): characters     *)
(* with a NUL after them, kept inside the object while they are few and on *)
(* the heap afterwards.  A call may be given a range of the string itself. *)
(***************************************************************************)
EXTENDS Integers, Sequences

CONSTANTS
  Letters,          \* characters other than NUL
  InlineCapacity,   \* characters that fit inside the object
  MaxChars,         \* maxSize()
  MaxText           \* bound on the length of a string

(* The object has room for a character, and no string passes maxSize().   *)
ASSUME StrAssumption ==
  MaxChars \in Nat /\ InlineCapacity \in 1 .. MaxChars /\ MaxText \in 0 .. MaxChars

Nul == "nul"        \* value_type{}
Stale == "stale"    \* what lies in memory that was freed or never written
Chars == Letters \cup {Nul}
Strings == {1, 2}
NPos == MaxChars + 1 \* npos, larger than every size

VARIABLES strs,     \* the storage of each string
          texts     \* what each string should read

Lesser(m, n) == IF m < n THEN m ELSE n
Replicate(n, ch) == [k \in 1 .. n |-> ch]

(* n cells from offset at; cells[k + 1] stands for data()[k]. *)
Cells(cells, at, n) == [k \in 1 .. n |-> IF at + k \in DOMAIN cells THEN cells[at + k] ELSE Stale]
Written(cells, at, source) ==
  LET end == at + Len(source)
  IN Cells(cells, 0, at) \o source \o SubSeq(cells, end + 1, Len(cells))

(* heap counts the allocations that the object has made or taken over and  *)
(* not freed.                                                              *)
EmptyShort == [short |-> TRUE, capacity |-> InlineCapacity, size |-> 0, cells |-> <<Nul>>, heap |-> 0]

WriteTerminator(s) == [s EXCEPT !.cells = Cells(@, 0, s.size) \o <<Nul>>]
CommitSize(s, n) == WriteTerminator([s EXCEPT !.size = n])

(* The loop doubles until that is enough, or more than half of the maximum *)
(* and becomes the maximum: the least of the doublings that are enough and *)
(* not too many.                                                           *)
DoubleGrowth(c, required) ==
  LET enough == {n \in required .. MaxChars \div 2 : \E k \in 1 .. n : n = c * 2 ^ k}
  IN IF enough = {} THEN MaxChars ELSE CHOOSE n \in enough : \A m \in enough : n <= m

Reallocate(s, n) ==
  [s EXCEPT !.short = FALSE, !.capacity = n, !.cells = Cells(@, 0, s.size + 1),
            !.heap = IF s.short THEN @ + 1 ELSE @]
MoveToShort(s) ==
  [s EXCEPT !.short = TRUE, !.capacity = InlineCapacity, !.cells = Cells(@, 0, s.size + 1),
            !.heap = @ - 1]
Reserve(s, n) ==
  IF n > s.capacity THEN Reallocate(s, DoubleGrowth(s.capacity, n)) ELSE s
ShrinkToFit(s) ==
  IF s.short THEN s
  ELSE IF s.size <= InlineCapacity THEN MoveToShort(s)
  ELSE IF s.size < s.capacity THEN Reallocate(s, s.size) ELSE s

Clear(s) == CommitSize(s, 0)
Reset(s) == [EmptyShort EXCEPT !.heap = IF s.short THEN s.heap ELSE s.heap - 1]

Resize(s, n, ch) ==
  LET r == Reserve(s, n)
  IN IF n > s.size THEN CommitSize([r EXCEPT !.cells = Written(@, s.size, Replicate(n - s.size, ch))], n)
     ELSE CommitSize(s, n)
AssignFill(s, n, ch) == Resize(Clear(s), n, ch)

-----------------------------------------------------------------------------
(* The characters passed to a call: somebody else's, or those of the       *)
(* string from an offset on, which are read where they lie.                *)
Foreign(text) == [own |-> FALSE, at |-> 0, text |-> text]
Own(s, at, n) == [own |-> TRUE, at |-> at, text |-> Cells(s.cells, at, n)]
ReadFrom(cells, src) == IF src.own THEN Cells(cells, src.at, Len(src.text)) ELSE src.text

Assign(s, src) ==
  LET n == Len(src.text)
      r == IF src.own THEN s ELSE Reserve(s, n)
  IN IF n = 0 THEN Clear(s)
     ELSE CommitSize([r EXCEPT !.cells = Written(@, 0, ReadFrom(@, src))], n)

(* Mutated form: a pointer into the string is not rebased when it moves. *)
AppendStale(s, src) ==
  LET n == Len(src.text)
      r == Reserve(s, s.size + n)
      from == IF src.own /\ r.capacity # s.capacity THEN Replicate(n, Stale) ELSE src.text
  IN CommitSize([r EXCEPT !.cells = Written(@, s.size, from)], s.size + n)

AppendRange(s, src) ==
  LET n == Len(src.text)
      r == Reserve(s, s.size + n)
  IN IF n = 0 THEN s
     ELSE CommitSize([r EXCEPT !.cells = Written(@, s.size, ReadFrom(@, src))], s.size + n)
AppendFill(s, n, ch) == Resize(s, s.size + n, ch)
AppendOne(s, ch) ==
  LET r == Reserve(s, s.size + 1)
  IN CommitSize([r EXCEPT !.cells = Written(@, s.size, <<ch>>)], s.size + 1)

(* A range of the string itself is copied before the tail, with its NUL,   *)
(* is shifted.                                                             *)
Replace(s, position, removedCount, src) ==
  LET removable == s.size - position
      removed == Lesser(removedCount, removable)
      newSize == s.size - removed + Len(src.text)
      r == Reserve(s, newSize)
      tail == Cells(r.cells, position + removed, removable - removed + 1)
      shifted == Written(r.cells, position + Len(src.text), tail)
  IN CommitSize([r EXCEPT !.cells = Written(shifted, position, src.text)], newSize)
Insert(s, position, src) == Replace(s, position, 0, src)
Erase(s, position, count) == Replace(s, position, count, Foreign(<<>>))

-----------------------------------------------------------------------------
Content(s) == Cells(s.cells, 0, s.size)

CopyFrom(other) ==
  LET r == Reserve(EmptyShort, other.size)
  IN [r EXCEPT !.cells = Cells(other.cells, 0, other.size + 1), !.size = other.size]

(* The new state of the string moved to, and of the one moved from. *)
MoveFrom(s, other) ==
  IF other.short
  THEN <<[s EXCEPT !.cells = Cells(other.cells, 0, other.size + 1), !.size = other.size],
         Clear(other)>>
  ELSE <<[other EXCEPT !.heap = s.heap + @], EmptyShort>>
MoveAssign(s, other) == MoveFrom(Reset(s), other)

Swap(s, other) ==
  LET temporary == MoveFrom(EmptyShort, s)
      taken == MoveAssign(temporary[2], other)
      given == MoveAssign(taken[2], temporary[1])
  IN <<taken[1], given[1]>>

Substring(s, position, count) ==
  Assign(EmptyShort, Foreign(Cells(s.cells, position, Lesser(count, s.size - position))))
Concat(s, src) == AppendRange(Assign(EmptyShort, Foreign(Content(s))), src)

-----------------------------------------------------------------------------
StrInit == strs = [i \in Strings |-> EmptyShort] /\ texts = [i \in Strings |-> <<>>]

Becomes(i, s, text) ==
  /\ Len(text) <= MaxText
  /\ strs' = [strs EXCEPT ![i] = s]
  /\ texts' = [texts EXCEPT ![i] = text]

Literals == UNION {[1 .. n -> Chars] : n \in 0 .. 2}

(* Every source string i can be given. *)
Sources(i) ==
  {Foreign(t) : t \in Literals} \cup {Foreign(texts[j]) : j \in Strings \ {i}}
    \cup {Own(strs[i], at, n) : at \in 0 .. Len(texts[i]), n \in 0 .. MaxText}
ValidSource(i, src) == src.own => src.at + Len(src.text) <= Len(texts[i])

StrAssign(i) ==
  \/ \E src \in Sources(i) : ValidSource(i, src) /\ Becomes(i, Assign(strs[i], src), src.text)
  \/ \E n \in 0 .. MaxText, ch \in Chars : Becomes(i, AssignFill(strs[i], n, ch), Replicate(n, ch))

StrAppend(i) ==
  \/ \E src \in Sources(i) :
       ValidSource(i, src) /\ Becomes(i, AppendRange(strs[i], src), texts[i] \o src.text)
  \/ \E n \in 0 .. MaxText, ch \in Chars :
       Becomes(i, AppendFill(strs[i], n, ch), texts[i] \o Replicate(n, ch))
  \/ \E ch \in Chars : Becomes(i, AppendOne(strs[i], ch), texts[i] \o <<ch>>)

StrPopBack(i) ==
  /\ texts[i] # <<>>
  /\ Becomes(i, CommitSize(strs[i], strs[i].size - 1), SubSeq(texts[i], 1, Len(texts[i]) - 1))

(* replace() and insert(); erase() without a source *)
StrReplace(i) ==
  \E position \in 0 .. Len(texts[i]), count \in 0 .. MaxText, src \in Sources(i) :
    LET t == texts[i]
        before == SubSeq(t, 1, position)
    IN /\ ValidSource(i, src)
       /\ \/ Becomes(i, Replace(strs[i], position, count, src),
                     before \o src.text \o SubSeq(t, position + count + 1, Len(t)))
          \/ Becomes(i, Insert(strs[i], position, src),
                     before \o src.text \o SubSeq(t, position + 1, Len(t)))
          \/ Becomes(i, Erase(strs[i], position, count),
                     before \o SubSeq(t, position + count + 1, Len(t)))

StrResize(i) ==
  \E n \in 0 .. MaxText, ch \in Chars :
    Becomes(i, Resize(strs[i], n, ch), SubSeq(texts[i], 1, Lesser(n, Len(texts[i]))) \o Replicate(n - Len(texts[i]), ch))

StrReserve(i) ==
  \/ \E n \in 0 .. MaxText : Becomes(i, Reserve(strs[i], n), texts[i])
  \/ Becomes(i, ShrinkToFit(strs[i]), texts[i])

StrEmpty(i) == Becomes(i, Clear(strs[i]), <<>>) \/ Becomes(i, Reset(strs[i]), <<>>)

(* A result is moved into a string. *)
StrBuild(i) ==
  \/ \E j \in Strings, position \in 0 .. MaxText, count \in 0 .. MaxText \cup {NPos} :
       /\ position <= Len(texts[j])
       /\ Becomes(i, MoveAssign(strs[i], Substring(strs[j], position, count))[1],
                  SubSeq(texts[j], position + 1, Lesser(position + count, Len(texts[j]))))
  \/ \E j, k \in Strings :
       Becomes(i, MoveAssign(strs[i], Concat(strs[j], Foreign(texts[k])))[1], texts[j] \o texts[k])

StrCopy(i, j) ==
  \/ Becomes(i, Assign(strs[i], Foreign(Content(strs[j]))), texts[j])
  \/ Becomes(i, [CopyFrom(strs[j]) EXCEPT !.heap = @ + Reset(strs[i]).heap], texts[j])

StrMove(i, j) ==
  LET moved == MoveAssign(strs[i], strs[j])
  IN /\ strs' = [strs EXCEPT ![i] = moved[1], ![j] = moved[2]]
     /\ texts' = [texts EXCEPT ![i] = texts[j], ![j] = <<>>]

StrSwap(i, j) ==
  LET swapped == Swap(strs[i], strs[j])
  IN /\ strs' = [strs EXCEPT ![i] = swapped[1], ![j] = swapped[2]]
     /\ texts' = [texts EXCEPT ![i] = texts[j], ![j] = texts[i]]

StrNext ==
  \/ \E i \in Strings :
       \/ StrAssign(i) \/ StrAppend(i) \/ StrPopBack(i) \/ StrReplace(i)
       \/ StrResize(i) \/ StrReserve(i) \/ StrEmpty(i) \/ StrBuild(i)
  \/ \E i, j \in Strings : i # j /\ (StrCopy(i, j) \/ StrMove(i, j) \/ StrSwap(i, j))
StrVars == <<strs, texts>>
StrSpec == StrInit /\ [][StrNext]_StrVars

-----------------------------------------------------------------------------
(* Whatever a string is given, its own characters included, and however it *)
(* moves between the object and the heap, it reads what it should, ends in *)
(* a NUL, fits, and holds the one allocation it uses.                      *)
StringIsText ==
  \A i \in Strings :
    LET s == strs[i]
    IN /\ s.cells = texts[i] \o <<Nul>>
       /\ s.size = Len(texts[i]) /\ s.size <= s.capacity
       /\ s.short => s.capacity = InlineCapacity
       /\ s.heap = IF s.short THEN 0 ELSE 1
=============================================================================
