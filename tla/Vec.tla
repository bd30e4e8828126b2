-------------------------------- MODULE Vec --------------------------------
(***************************************************************************)
(* nex::Vec and nex::SmallVec (core/containers/vector.h, small_vec.h): the *)
(* same members over a DynamicBuffer and a SmallBuffer.  The calls that    *)
(* only forward are those of Buffer.  Arguments come from outside of the   *)
(* container, except where a member itself passes one of its elements on.  *)
(*                                                                         *)
(* nex::Array (core/containers/array.h) is a FixedBuffer whose size, as    *)
(* opposed to its capacity, differs from object to object.                 *)
(***************************************************************************)
EXTENDS Buffer

IsVec == kind # "fixed"

PushBack(b, v) == AppendCopies(b, <<v>>)

PushAll(outcomes, vs) ==
  Repeated(outcomes, Len(vs), LAMBDA r, k : PushBack(r, vs[k]))

(* append(first, last) *)
AppendRange(b, vs) == PushAll(Reserve(b, b.size + Len(vs)), vs)

(* assign(init): clear, reserve, push. *)
AssignRange(b, vs) == PushAll(Reserve(Clear(b), Len(vs)), vs)

(* assign(count, value) *)
AssignCount(b, n, v) == Resized(Clear(b), n, v)

-----------------------------------------------------------------------------
(* emplace() in the middle appends a copy of back(), shifts, and puts the  *)
(* new element in the place that is free.                                  *)

(* append(&back(), 1) of a full buffer copies back() after the storage it  *)
(* lies in has been freed.                                                 *)
AppendBack(b) ==
  IF b.size = Capacity(b)
  THEN Throws(b) \cup UNION {IF r.how = "returned" THEN Outcome(r.to, "freed") ELSE {r} :
                               r \in Grow(b, b.size + 1)}
  ELSE PushBack(b, b.cells[b.size])

(* The last n elements but one go up by one, from the last to the first. *)
ShiftUp(b, n) ==
  [b EXCEPT !.cells = MoveObjects(b.cells, b.size - n, b.size - n - 1, n, AssignOver)]

(* Mutated form: the shift stops one element early. *)
EmplaceLate(b, index, v) ==
  IF index = b.size THEN AppendConstruct(b, v)
  ELSE AndThen(AppendBack(b), LAMBDA r :
         LET shifted == ShiftUp(r, b.size - index - 1)
         IN Returns([shifted EXCEPT !.cells =
                       ConstructAt(DestroyCells(@, {index + 1}), index + 1, v)]))

Emplace(b, index, v) ==
  IF index = b.size THEN AppendConstruct(b, v)
  ELSE AndThen(AppendBack(b), LAMBDA r :
         LET shifted == ShiftUp(r, b.size - index)
         IN Returns([shifted EXCEPT !.cells =
                       ConstructAt(DestroyCells(@, {index + 1}), index + 1, v)])
            \cup MayThrow("copy", Breaks(shifted))
            \cup MayThrow("move",
                   {[to |-> ShiftUp(r, k), how |-> "threw"] : k \in 0 .. b.size - index - 1}))

(* insert(pos, first, last) and insert(pos, count, value): one by one. *)
InsertRange(b, index, vs) ==
  Repeated(Returns(b), Len(vs), LAMBDA r, k : Emplace(r, index + k - 1, vs[k]))

-----------------------------------------------------------------------------
(* erase(first, last): the elements behind move down, the last are removed *)
(* where they are.  The moves may throw, and leave moved-from elements.    *)
Erase(b, first, last) ==
  LET erased == last - first
      Shifted(n) == [b EXCEPT !.cells = MoveObjects(b.cells, first, last, n, AssignOver)]
  IN IF erased = 0 THEN Returns(b)
     ELSE RemoveRange(Shifted(b.size - last), b.size - erased, erased)
          \cup MayThrow("move", {[to |-> Shifted(n), how |-> "threw"] : n \in 0 .. b.size - last - 1})

(* popBack() *)
PopBack(b) == RemoveRange(b, b.size - 1, 1)

(* remove(value): the first occurrence. *)
RemoveFirstOf(b, v) ==
  LET at == {i \in 1 .. b.size : b.cells[i] = v}
  IN IF at = {} THEN Returns(b) ELSE Erase(b, Min(at) - 1, Min(at))

(* removeAll(value): the index, that of the kth element of the vector as   *)
(* it was, goes back by one with every element erased.                     *)
RemoveAllOf(b, v) ==
  Repeated(Returns(b), b.size, LAMBDA r, k :
    LET index == k - 1 - (b.size - r.size)
    IN IF r.cells[index + 1] = v THEN Erase(r, index, index + 1) ELSE Returns(r))

-----------------------------------------------------------------------------
(* Vec::operator==, and <, which is std::lexicographical_compare() on the  *)
(* elements; elements are ordered by Below.                                *)
VecEqual(b, c) == b.size = c.size /\ \A i \in 1 .. b.size : b.cells[i] = c.cells[i]

Lexicographic(s, t, Below) ==
  \E i \in 1 .. Len(t) :
    /\ i <= Len(s) + 1 /\ \A j \in 1 .. i - 1 : <<s[j], t[j]>> \notin Below /\ <<t[j], s[j]>> \notin Below
    /\ i = Len(s) + 1 \/ <<s[i], t[i]>> \in Below

VecLess(b, c, Below) == Lexicographic(Held(b), Held(c), Below)

(* Array::operator== goes by the size of the left one, whatever lies in    *)
(* the right one behind its last element: the possible answers.            *)
ArrayEqual(b, c) ==
  IF \E i \in 1 .. b.size : Alive(c.cells[i]) /\ b.cells[i] # c.cells[i] THEN {FALSE}
  ELSE IF b.size <= c.size THEN {TRUE} ELSE BOOLEAN

(* Array::fill() and operator=(init) assign to cells by their number, also *)
(* to those behind the size, which hold no object: nobody sees it, when    *)
(* the elements are plain bytes, or it is the end.  fill() is noexcept.    *)
AssignSlots(b, vs) ==
  LET Assigned(k) == [b EXCEPT !.cells = AssignCells(@, SubSeq(vs, 1, k))]
      inside == Min({b.size, Len(vs)})
  IN Returns(Assigned(inside))
     \cup (IF b.size < Len(vs) THEN Breaks(b) ELSE {})
     \cup MayThrow("copy", {[to |-> Assigned(k), how |-> "threw"] : k \in 0 .. inside - 1})

FillSlots(b, v) ==
  {IF r.how = "threw" THEN [r EXCEPT !.how = "broken"] ELSE r :
     r \in AssignSlots(b, [i \in 1 .. InlineCapacity |-> v])}

-----------------------------------------------------------------------------
Arguments(n) == {vs \in SeqOf(Elements, 2) : Len(vs) <= n}

DoAppendRange(o) ==
  \E vs \in Arguments(Room(o)) : Call(o, AppendRange(buf[o], vs))
DoAssignRange(o) ==
  \E vs \in Arguments(MaxCells) : Call(o, AssignRange(buf[o], vs))
DoAssignCount(o) ==
  \E n \in 0 .. MaxCells, v \in Elements : Call(o, AssignCount(buf[o], n, v))
DoInsert(o) ==
  \E index \in 0 .. buf[o].size, vs \in Arguments(Room(o)) :
    Call(o, InsertRange(buf[o], index, vs))
DoErase(o) ==
  \E first \in 0 .. buf[o].size : \E last \in first .. buf[o].size :
    Call(o, Erase(buf[o], first, last))
DoPopBack(o) == buf[o].size > 0 /\ Call(o, PopBack(buf[o]))
DoRemoveFirst(o) == \E v \in Elements : Call(o, RemoveFirstOf(buf[o], v))
DoRemoveAll(o) == \E v \in Elements : Call(o, RemoveAllOf(buf[o], v))

VecNext ==
  /\ IsVec
  /\ \/ DoAppendRange("x") \/ DoAssignRange("x") \/ DoAssignCount("x") \/ DoInsert("x")
     \/ DoErase("x") \/ DoPopBack("x") \/ DoRemoveFirst("x") \/ DoRemoveAll("x")

DoFillSlots(o) == \E v \in Elements : Call(o, FillSlots(buf[o], v))
DoAssignSlots(o) == \E vs \in Arguments(InlineCapacity) : Call(o, AssignSlots(buf[o], vs))

ArrayObjectNext == ~ IsVec /\ (DoFillSlots("x") \/ DoAssignSlots("x"))

(* Undefined behaviour, or objects that cannot be used: the end. *)
Broken == how \in {"broken", "freed"} /\ UNCHANGED bufferVars

BuffersNext == BufferNext \/ VecNext \/ ArrayObjectNext \/ Broken

BuffersSpec == BufferInit /\ [][BuffersNext]_bufferVars

-----------------------------------------------------------------------------
(* Properties.                                                             *)

Usable == how \in {"returned", "threw"}

(* Types; the size fits the storage, and what is not on the heap is inline. *)
BufferTypeOK ==
  /\ how \in {"returned", "threw", "broken", "freed"}
  /\ \A o \in Objects :
       /\ buf[o].cells \in Seq(Elements \cup {Moved, Raw, Bad})
       /\ buf[o].size \in 0 .. Capacity(buf[o])
       /\ ~ buf[o].heap => Capacity(buf[o]) = Len(InlineCells)

(* Exactly the cells below the size hold an object, after every sequence   *)
(* of calls, those that threw included: nothing is destroyed twice, leaked *)
(* or constructed over.  (The calls after which this is lost end in        *)
(* "broken": loops of constructions without a guard, removals and          *)
(* insertions whose elements throw half way.)                              *)
LifetimesMatchSize ==
  /\ BufferTypeOK
  /\ Usable => \A o \in Objects : \A i \in DOMAIN buf[o].cells :
       IF i <= buf[o].size THEN Alive(buf[o].cells[i]) ELSE buf[o].cells[i] = Raw

(* The calls that add elements at the end or change the storage.           *)
StorageCalls(b, room) ==
  ShrinkToFit(b)
  \cup (UNION {Reserve(b, n) : n \in 0 .. MaxCells})
  \cup (UNION {Resized(b, n, v) : n \in b.size .. MaxCells, v \in Elements})
  \cup (UNION {AppendCopies(b, vs) \cup AppendMove(b, vs) : vs \in Arguments(room)})

(* When moves do not throw, such a call that throws has no effect on the   *)
(* elements.                                                               *)
StrongGuarantee ==
  Usable /\ "move" \notin throwing =>
    \A r \in StorageCalls(buf["x"], Room("x")) : r.how = "threw" => Held(r.to) = Held(buf["x"])

(* The strict orders of the objects, moved-from ones included. *)
Orders ==
  {{<<p[at[1]], p[at[2]]>> : at \in {q \in (1 .. Len(p)) \X (1 .. Len(p)) : q[1] < q[2]}} :
     p \in SetToSeqs(Elements \cup {Moved})}

Effect(outcomes, contents) ==
  \A r \in outcomes : r.how = "returned" => Held(r.to) = contents

(* Calls that return have done what they are for: insertions and removals, *)
(* whatever the loops that move the elements have to go through; a copy    *)
(* has the elements of its source, a move takes them and leaves the source *)
(* empty, a swap exchanges them, inline, on the heap or mixed.  Of two     *)
(* vectors one is less, or they are equal; of two arrays of one size.      *)
CallsAreExact ==
  Usable =>
    LET b == buf["x"]
        s == Held(b)
        t == Held(buf["y"])
    IN /\ IsVec =>
            /\ \A at \in 0 .. b.size, vs \in Arguments(Room("x")) :
                 Effect(InsertRange(b, at, vs), SubSeq(s, 1, at) \o vs \o SubSeq(s, at + 1, b.size))
            /\ \A first \in 0 .. b.size : \A last \in first .. b.size :
                 LET rest == SubSeq(s, 1, first) \o SubSeq(s, last + 1, b.size)
                 IN /\ Effect(Erase(b, first, last), rest)
                    /\ first < last => Effect(RemoveRange(b, first, last - first), rest)
            /\ \A v \in Elements : Effect(RemoveAllOf(b, v), SelectSeq(s, LAMBDA e : e # v))
            /\ VecEqual(b, buf["y"]) <=> s = t
            /\ \A Below \in Orders :
                 1 = Cardinality({o \in 1 .. 3 :
                       <<VecLess(b, buf["y"], Below), s = t, VecLess(buf["y"], b, Below)>>[o]})
       /\ ~ IsVec =>
            /\ \A v \in Elements : Effect(FillSlots(b, v), [i \in 1 .. b.size |-> v])
            /\ \A vs \in Arguments(InlineCapacity) :
                 Effect(AssignSlots(b, vs), [i \in 1 .. b.size |-> IF i <= Len(vs) THEN vs[i] ELSE s[i]])
            /\ b.size = buf["y"].size => ArrayEqual(b, buf["y"]) = {s = t}
       /\ Effect(CopyAssignFrom(b, buf["y"]), t)
       /\ \A r \in MoveFrom(Reset(b), buf["y"]) :
            r.how = "returned" => Held(r.to) = t /\ Held(r.from) = <<>>
       /\ \A r \in Swap(b, buf["y"]) :
            r.how = "returned" => Held(r.to) = t /\ Held(r.from) = s

-----------------------------------------------------------------------------
(* What a comment says and the code does not do.                           *)

(* vector.h:312, "Inserts a copy of value before the element at pos.": an   *)
(* insertion never reads storage that it has freed.                        *)
InsertIsSound == how # "freed"
=============================================================================
