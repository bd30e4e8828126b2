----------------------------- MODULE Algorithms -----------------------------
(***************************************************************************)
(* The algorithms of base/algorithm.h and the searches of base/math.h, on  *)
(* the cells of one array.  Those that write are one loop forwards each:   *)
(* the destination may lie in the range, and a value that is passed by     *)
(* reference may be a cell of it.                                          *)
(***************************************************************************)
EXTENDS Integers, Sequences

CONSTANTS
  Things,       \* the values of cells: numbers, ordered by their tens
  Emptied,      \* what is left in a cell that was moved from
  ArraySize     \* the number of cells

VARIABLE cellArray

Here == 1 .. ArraySize
Cells == Things \cup {Emptied}
Spans == {p \in (1 .. ArraySize + 1) \X (1 .. ArraySize + 1) : p[1] <= p[2]}

(* const Type&: a cell, or a value elsewhere. *)
Cell(i) == [at |-> i, thing |-> Emptied]
Outside(v) == [at |-> 0, thing |-> v]
References == {Cell(i) : i \in Here} \cup {Outside(v) : v \in Things}
Deref(seq, ref) == IF ref.at = 0 THEN ref.thing ELSE seq[ref.at]

(* for (; first != last; ++first), with an iterator that Step moves. *)
Loop(seq, first, last, out, Step(_, _)) ==
  LET before[i \in first .. last] ==
        IF i = first THEN [seq |-> seq, out |-> out] ELSE Step(before[i - 1], i - 1)
  IN before[last]

Written(run, thing) == [seq |-> [run.seq EXCEPT ![run.out] = thing], out |-> run.out + 1]

CopyCells(seq, first, last, dest) ==
  Loop(seq, first, last, dest, LAMBDA run, i : Written(run, run.seq[i]))
MoveCells(seq, first, last, dest) ==
  Loop(seq, first, last, dest,
       LAMBDA run, i : Written([run EXCEPT !.seq[i] = Emptied], run.seq[i]))
FillCells(seq, first, last, ref) ==
  Loop(seq, first, last, first, LAMBDA run, i : Written(run, Deref(run.seq, ref)))

ReplaceCells(seq, first, last, old, new) ==
  Loop(seq, first, last, first,
       LAMBDA run, i : Written(run, IF run.seq[i] = Deref(run.seq, old)
                                    THEN Deref(run.seq, new) ELSE run.seq[i]))
ReplaceCopyCells(seq, first, last, dest, old, new) ==
  Loop(seq, first, last, dest,
       LAMBDA run, i : Written(run, IF run.seq[i] = Deref(run.seq, old)
                                    THEN Deref(run.seq, new) ELSE run.seq[i]))

(* Mutated form: the iterator moves past removed cells as well. *)
RemoveCopyWide(seq, first, last, dest, ref) ==
  Loop(seq, first, last, dest,
       LAMBDA run, i : IF run.seq[i] = Deref(run.seq, ref) THEN [run EXCEPT !.out = @ + 1]
                       ELSE Written(run, run.seq[i]))

RemoveCopy(seq, first, last, dest, ref) ==
  Loop(seq, first, last, dest,
       LAMBDA run, i : IF run.seq[i] = Deref(run.seq, ref) THEN run ELSE Written(run, run.seq[i]))
RemoveCells(seq, first, last, ref) == RemoveCopy(seq, first, last, first, ref)

Swapped(seq, i, j) == [seq EXCEPT ![i] = seq[j], ![j] = seq[i]]
SwapRanges(seq, first1, last1, first2, last2) ==
  Loop(seq, first1, first1 + (IF last1 - first1 < last2 - first2 THEN last1 - first1 ELSE last2 - first2),
       first2, LAMBDA run, i : [seq |-> Swapped(run.seq, i, run.out), out |-> run.out + 1])

(* transform(first, last, dest, op) *)
TransformCells(seq, first, last, dest, op) ==
  Loop(seq, first, last, dest, LAMBDA run, i : Written(run, op[run.seq[i]]))

(* findIf() and findIfNot() with a predicate, which is the set of the      *)
(* values it holds of; find(); count() and countIf().                      *)
FindIf(seq, first, last, pred) ==
  LET at == {i \in first .. last - 1 : seq[i] \in pred}
  IN IF at = {} THEN last ELSE CHOOSE i \in at : \A j \in at : i <= j
FindIfNot(seq, first, last, pred) == FindIf(seq, first, last, {seq[i] : i \in Here} \ pred)
FindThing(seq, first, last, v) == FindIf(seq, first, last, {v})
CountIf(seq, first, last, pred) ==
  Loop(seq, first, last, 0, LAMBDA run, i : IF run.seq[i] \in pred THEN [run EXCEPT !.out = @ + 1] ELSE run).out
CountThing(seq, first, last, v) == CountIf(seq, first, last, {v})
AllOf(seq, first, last, pred) == \A i \in first .. last - 1 : seq[i] \in pred
AnyOf(seq, first, last, pred) == \E i \in first .. last - 1 : seq[i] \in pred

(* equal() with the end of the second range, and without it. *)
EqualPrefix(seq, first1, last1, first2) ==
  \A i \in 0 .. last1 - first1 - 1 : seq[first1 + i] = seq[first2 + i]
EqualRanges(seq, first1, last1, first2, last2) ==
  LET common == IF last1 - first1 < last2 - first2 THEN last1 - first1 ELSE last2 - first2
  IN EqualPrefix(seq, first1, first1 + common, first2)
     /\ first1 + common = last1 /\ first2 + common = last2

(* _minOf() and _maxOf() compare with <, the loops then with ==: two cells *)
(* may be neither less than one another nor equal.                         *)
Tens(v) == v \div 10
LessOf(v, w)    == IF Tens(v) < Tens(w) THEN v ELSE w
GreaterOf(v, w) == IF Tens(v) < Tens(w) THEN w ELSE v
Extreme(seq, first, last, Better(_, _)) ==
  IF first = last THEN first
  ELSE Loop(seq, first + 1, last, first,
            LAMBDA run, i : IF Better(seq[run.out], seq[i]) = seq[run.out] THEN run
                            ELSE [run EXCEPT !.out = i]).out
MinElement(seq, first, last) == Extreme(seq, first, last, LessOf)
MaxElement(seq, first, last) == Extreme(seq, first, last, GreaterOf)

-----------------------------------------------------------------------------
AlgorithmsInit == cellArray = [i \in Here |-> CHOOSE v \in Things : TRUE]

(* Calls that write to cells of the array only. *)
AlgorithmsNext ==
  \E span \in Spans :
    LET first == span[1]  last == span[2]  past == ArraySize + 1
    IN \/ \E ref \in References :
            \/ cellArray' = FillCells(cellArray, first, last, ref).seq
            \/ cellArray' = RemoveCells(cellArray, first, last, ref).seq
            \/ \E new \in References : cellArray' = ReplaceCells(cellArray, first, last, ref, new).seq
       \/ \E dest \in Here :
            /\ dest + (last - first) <= past
            /\ \/ cellArray' = CopyCells(cellArray, first, last, dest).seq
               \/ dest # first /\ cellArray' = MoveCells(cellArray, first, last, dest).seq
               \/ \E op \in [Cells -> Things] : cellArray' = TransformCells(cellArray, first, last, dest, op).seq
               \/ \E ref \in References :
                    \/ cellArray' = RemoveCopy(cellArray, first, last, dest, ref).seq
                    \/ \E new \in References :
                         cellArray' = ReplaceCopyCells(cellArray, first, last, dest, ref, new).seq
       \/ \E other \in Spans :
            other[1] >= last /\ cellArray' = SwapRanges(cellArray, first, last, other[1], other[2]).seq

-----------------------------------------------------------------------------
Survivors(seq, first, last, v) == SelectSeq(SubSeq(seq, first, last - 1), LAMBDA x : x # v)
PutAt(seq, dest, part) ==
  [i \in DOMAIN seq |-> IF i \in dest .. dest + Len(part) - 1 THEN part[i - dest + 1] ELSE seq[i]]
Replaced(part, v, w) == [i \in DOMAIN part |-> IF part[i] = v THEN w ELSE part[i]]

(* Searches and counts that say the same in several ways; the extremes are *)
(* extreme, the largest is the first of its kind, and so is the smallest   *)
(* when no other one is equivalent to it.                                  *)
SearchesAgree(first, last) ==
  LET within == first .. last - 1
      small == MinElement(cellArray, first, last)
      large == MaxElement(cellArray, first, last)
      lowest == {i \in within : Tens(cellArray[i]) = Tens(cellArray[small])}
  IN /\ \A pred \in SUBSET Cells :
          LET n == CountIf(cellArray, first, last, pred)
          IN /\ AllOf(cellArray, first, last, pred) <=> n = last - first
             /\ AllOf(cellArray, first, last, pred) <=> FindIfNot(cellArray, first, last, pred) = last
             /\ AnyOf(cellArray, first, last, pred) <=> FindIf(cellArray, first, last, pred) # last
             /\ CountIf(cellArray, FindIf(cellArray, first, last, pred), last, pred) = n
     /\ \A other \in Spans :
          EqualRanges(cellArray, first, last, other[1], other[2])
            <=> SubSeq(cellArray, first, last - 1) = SubSeq(cellArray, other[1], other[2] - 1)
     /\ within # {} =>
          /\ \A i \in within : Tens(cellArray[small]) <= Tens(cellArray[i])
          /\ \A i \in within : Tens(cellArray[i]) <= Tens(cellArray[large])
          /\ \A i \in first .. large - 1 : Tens(cellArray[i]) < Tens(cellArray[large])
          /\ (\A i \in lowest : cellArray[i] = cellArray[small]) => \A i \in lowest : small <= i

(* What a loop does at once, for a destination that does not run ahead of  *)
(* it, and a value that is not one of the cells that it writes.  A value   *)
(* in the range: fill() is not disturbed; replace() and remove() do what   *)
(* they should as far as its cell, replace() changes no other value, and   *)
(* what becomes of the occurrences behind that cell is not part of this.   *)
LoopsAreExact ==
  \A span \in Spans :
    LET first == span[1]  last == span[2]
        part == SubSeq(cellArray, first, last - 1)
        Apart(dest) == dest <= first \/ dest >= last
        Untouched(ref, dest) == ref.at \notin dest .. dest + (last - first) - 1
    IN /\ \A ref \in References :
            LET v == Deref(cellArray, ref)
                sure == IF Untouched(ref, first) THEN last - 1 ELSE ref.at
                removed == RemoveCells(cellArray, first, last, ref)
                kept == Survivors(cellArray, first, sure + 1, v)
            IN /\ FillCells(cellArray, first, last, ref).seq = PutAt(cellArray, first, [i \in DOMAIN part |-> v])
               /\ Untouched(ref, first) =>
                    /\ removed.seq = PutAt(cellArray, first, Survivors(cellArray, first, last, v))
                    /\ FindThing(removed.seq, first, removed.out, v) = removed.out
                    /\ last - removed.out = CountThing(cellArray, first, last, v)
               /\ removed.out \in first + Len(kept) .. last
               /\ SubSeq(removed.seq, first, first + Len(kept) - 1) = kept
               /\ \A new \in References :
                    LET got == ReplaceCells(cellArray, first, last, ref, new).seq
                    IN /\ SubSeq(got, first, sure)
                            = Replaced(SubSeq(cellArray, first, sure), v, Deref(cellArray, new))
                       /\ \A i \in Here : i \notin first .. last - 1 \/ cellArray[i] # v =>
                            got[i] = cellArray[i]
       /\ \A dest \in Here :
            dest + (last - first) <= ArraySize + 1 /\ Apart(dest) =>
              /\ CopyCells(cellArray, first, last, dest).seq = PutAt(cellArray, dest, part)
              /\ dest # first =>
                   LET moved == MoveCells(cellArray, first, last, dest)
                   IN /\ SubSeq(moved.seq, dest, moved.out - 1) = part
                      /\ \A i \in first .. last - 1 : i \notin dest .. moved.out - 1 => moved.seq[i] = Emptied
              /\ \A ref \in References :
                   LET v == Deref(cellArray, ref)
                   IN Untouched(ref, dest) =>
                        /\ RemoveCopy(cellArray, first, last, dest, ref).seq
                             = PutAt(cellArray, dest, Survivors(cellArray, first, last, v))
                        /\ \A w \in Things :
                             ReplaceCopyCells(cellArray, first, last, dest, ref, Outside(w)).seq
                               = PutAt(cellArray, dest, Replaced(part, v, w))
       /\ \A op \in [Cells -> Things] :
            TransformCells(cellArray, first, last, first, op).seq
              = PutAt(cellArray, first, [i \in DOMAIN part |-> op[part[i]]])
       /\ SearchesAgree(first, last)
       /\ \A other \in Spans :
            LET there == SwapRanges(cellArray, first, last, other[1], other[2])
            IN other[1] >= last =>
                 /\ SwapRanges(there.seq, first, last, other[1], other[2]).seq = cellArray
                 /\ \A i \in 0 .. there.out - other[1] - 1 :
                      there.seq[first + i] = cellArray[other[1] + i]
=============================================================================
