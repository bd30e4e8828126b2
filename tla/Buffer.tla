------------------------------- MODULE Buffer -------------------------------
(***************************************************************************)
(* nex::FixedBuffer, DynamicBuffer and SmallBuffer (base/buffer.h) over    *)
(* the memory helpers of base/memory.h: storage whose cells hold an object *)
(* or nothing, and a size that says which ones do.                         *)
(*                                                                         *)
(* Code of one thread: an action is a call.  What a call does is written   *)
(* as the set of its outcomes, one for each point at which an operation of *)
(* the element type, or an allocation, may throw.  The growth policy is    *)
(* any that grants what is asked (module Growth has the real ones).        *)
(***************************************************************************)
EXTENDS Integers, Sequences, FiniteSetsExt, SequencesExt

CONSTANTS
  Elements,
  Moved,          (* an object that was moved from: alive, value lost      *)
  Raw,            (* no object                                             *)
  Bad,            (* destroyed twice, overwritten unseen, used when raw    *)
  Kinds,          (* of "fixed", "dynamic", "small"                        *)
  Throwing,       (* sets of "copy", "move": the operations that may throw *)
  MaxCells,    (* bound on capacities                                   *)
  InlineCapacity  (* cells inside a SmallBuffer or a FixedBuffer           *)

ASSUME BufferAssumption ==
  /\ Moved # Raw /\ Raw # Bad /\ Bad # Moved /\ {Moved, Raw, Bad} \cap Elements = {}
  /\ MaxCells \in Nat /\ InlineCapacity \in 1 .. MaxCells

Objects == {"x", "y"}

VARIABLES
  kind,     (* the class of both objects                                   *)
  throwing, (* what may throw for their element type                       *)
  buf,      (* the two objects                                             *)
  how       (* how the last call ended: "returned", "threw"; "broken" when *)
            (* it left objects that no further call can put right, "freed" *)
            (* when it read freed storage                                  *)

bufferVars == <<kind, throwing, buf, how>>

-----------------------------------------------------------------------------
(* base/memory.h, on a sequence of cells.                                  *)

Alive(cell) == cell \notin {Raw, Bad}

RawCells(n) == [i \in 1 .. n |-> Raw]

(* What becomes of a cell in which v is constructed, or to which it is     *)
(* assigned.                                                               *)
ConstructOver(cell, v) == IF cell = Raw /\ Alive(v) THEN v ELSE Bad
AssignOver(cell, v) == IF Alive(cell) /\ Alive(v) THEN v ELSE Bad

ConstructAt(m, i, v) == [m EXCEPT ![i] = ConstructOver(@, v)]

(* destroy(range) *)
DestroyCells(m, range) ==
  [i \in DOMAIN m |-> IF i \in range THEN (IF Alive(m[i]) THEN Raw ELSE Bad) ELSE m[i]]

(* uninitializedCopy, uninitializedFill, ...: vs goes to the cells after   *)
(* at.  One cell does not affect another, here and in assign().            *)
ConstructCells(m, at, vs) ==
  [i \in DOMAIN m |-> IF i - at \in DOMAIN vs THEN ConstructOver(m[i], vs[i - at]) ELSE m[i]]

AssignCells(m, vs) ==
  [i \in DOMAIN m |-> IF i \in DOMAIN vs THEN AssignOver(m[i], vs[i]) ELSE m[i]]

(* The n objects after from have been moved from. *)
MovedFrom(m, from, n) == [i \in DOMAIN m |-> IF i \in from + 1 .. from + n THEN Moved ELSE m[i]]

(* They are moved to the cells after to, one by one: upwards when they go  *)
(* down, downwards when they go up, so that each is read before another    *)
(* one comes over it.                                                      *)
MoveObjects(m, to, from, n, Over(_, _)) ==
  LET left == MovedFrom(m, from, n)
  IN [i \in DOMAIN m |-> IF i \in to + 1 .. to + n THEN Over(left[i], m[i - to + from]) ELSE left[i]]

-----------------------------------------------------------------------------
(* Outcomes.                                                               *)

Outcome(b, h) == {[to |-> b, how |-> h]}
Returns(b) == Outcome(b, "returned")
Throws(b) == Outcome(b, "threw")
Breaks(b) == Outcome(b, "broken")

MayThrow(operation, outcomes) == IF operation \in throwing THEN outcomes ELSE {}

(* First one part of a call and, if it returns, the next. *)
AndThen(outcomes, F(_)) ==
  UNION {IF r.how = "returned" THEN F(r.to) ELSE {r} : r \in outcomes}

(* A loop of n steps, as far as it gets. *)
Repeated(outcomes, n, Step(_, _)) ==
  LET after[k \in 0 .. n] ==
        IF k = 0 THEN outcomes ELSE AndThen(after[k - 1], LAMBDA r : Step(r, k))
  IN after[n]

InlineCells == RawCells(IF kind = "dynamic" THEN 0 ELSE InlineCapacity)

Empty == [cells |-> InlineCells, size |-> 0, heap |-> FALSE]

Capacity(b) == Len(b.cells)
Held(b) == SubSeq(b.cells, 1, b.size)
CanFit(n) == kind # "fixed" \/ n <= InlineCapacity

-----------------------------------------------------------------------------
(* Storage.                                                                *)

(* relocateTo(): new storage, on the heap or inline, takes over the        *)
(* objects.  When a move throws, the objects constructed so far are        *)
(* destroyed and the new storage is freed: if it is the inline storage,    *)
(* operator delete is called on a member of the buffer.                    *)
RelocateTo(b, capacity, heap) ==
  Returns([b EXCEPT !.cells = ConstructCells(RawCells(capacity), 0, Held(b)),
                    !.heap = heap])
  \cup MayThrow("move",
         {[to |-> [b EXCEPT !.cells = MovedFrom(b.cells, 0, k)],
           how |-> IF heap THEN "threw" ELSE "broken"] : k \in 0 .. b.size - 1})

(* grow(): allocate() may throw. *)
Grow(b, required) ==
  Throws(b) \cup UNION {RelocateTo(b, c, TRUE) : c \in required .. MaxCells}

Reserve(b, required) == IF required > Capacity(b) THEN Grow(b, required) ELSE Returns(b)

Clear(b) == [b EXCEPT !.cells = DestroyCells(b.cells, 1 .. b.size), !.size = 0]

(* reset(): and the heap storage is freed; objects left in it are lost.    *)
Reset(b) ==
  LET cleared == Clear(b)
  IN IF ~ b.heap THEN cleared
     ELSE [Empty EXCEPT !.cells = IF \E i \in DOMAIN cleared.cells : cleared.cells[i] # Raw
                                  THEN <<Bad>> ELSE @]

(* SmallBuffer::shrinkToFit(); DynamicBuffer's has no inline storage to go *)
(* back to, FixedBuffer has none.                                          *)
ShrinkToFit(b) ==
  IF ~ b.heap THEN Returns(b)
  ELSE IF b.size = 0 THEN Returns(Reset(b))
  ELSE IF kind = "small" /\ b.size <= InlineCapacity
       THEN RelocateTo(b, InlineCapacity, FALSE)
  ELSE IF b.size < Capacity(b)
       THEN Throws(b) \cup RelocateTo(b, b.size, TRUE)
  ELSE Returns(b)

-----------------------------------------------------------------------------
(* Adding and removing elements.                                           *)

(* Mutated form: the size is raised before the copies are made. *)
AppendSizeFirst(b, vs) ==
  IF ~ CanFit(b.size + Len(vs)) THEN Returns(b)
  ELSE AndThen(Reserve(b, b.size + Len(vs)), LAMBDA r :
         LET raised == [r EXCEPT !.size = b.size + Len(vs)]
         IN Returns([raised EXCEPT !.cells = ConstructCells(r.cells, b.size, vs)])
            \cup MayThrow("copy", Throws(raised)))

(* append(src, count): all or nothing, FixedBuffer does nothing when vs    *)
(* does not fit.                                                           *)
AppendCopies(b, vs) ==
  IF ~ CanFit(b.size + Len(vs)) THEN Returns(b)
  ELSE AndThen(Reserve(b, b.size + Len(vs)), LAMBDA r :
         Returns([r EXCEPT !.cells = ConstructCells(r.cells, b.size, vs),
                           !.size = b.size + Len(vs)])
         \cup MayThrow("copy", Throws(r)))

(* appendMove(src, count): a loop with nothing to undo it. *)
AppendMove(b, vs) ==
  IF ~ CanFit(b.size + Len(vs)) THEN Returns(b)
  ELSE AndThen(Reserve(b, b.size + Len(vs)), LAMBDA r :
         Returns([r EXCEPT !.cells = ConstructCells(r.cells, b.size, vs),
                           !.size = b.size + Len(vs)])
         \cup MayThrow("move",
                Throws(r) \cup (IF Len(vs) > 1 THEN Breaks(r) ELSE {})))

(* appendConstruct(args...) *)
AppendConstruct(b, v) ==
  IF ~ CanFit(b.size + 1) THEN Returns(b)
  ELSE AndThen(Reserve(b, b.size + 1), LAMBDA r :
         Returns([r EXCEPT !.cells = ConstructAt(r.cells, b.size + 1, v),
                           !.size = b.size + 1])
         \cup MayThrow("copy", Throws(r)))

(* resize(count) and resize(count, value).  DynamicBuffer and SmallBuffer  *)
(* construct in a loop: when it throws after the first element, the new    *)
(* ones stay behind beyond the size.                                       *)
Resized(b, n, v) ==
  IF ~ CanFit(n) THEN Returns(b)
  ELSE IF n <= b.size
       THEN Returns([b EXCEPT !.cells = DestroyCells(b.cells, n + 1 .. b.size), !.size = n])
  ELSE AndThen(Reserve(b, n), LAMBDA r :
         Returns([r EXCEPT !.cells = ConstructCells(r.cells, b.size, [i \in 1 .. n - b.size |-> v]),
                           !.size = n])
         \cup MayThrow("copy",
                Throws(r)
                \cup (IF kind # "fixed" /\ n > b.size + 1 THEN Breaks(r) ELSE {})))

(* remove(index, count): destroy the gap, construct in it as far as it     *)
(* goes, assign the rest, destroy as many at the end.  A move that throws  *)
(* leaves destroyed cells inside the size.                                 *)
RemoveRange(b, index, count) ==
  LET remaining == b.size - (index + count)
      built == Min({remaining, count})
      gap == DestroyCells(b.cells, index + 1 .. index + count)
      filled == MoveObjects(gap, index, index + count, built, ConstructOver)
      shifted == MoveObjects(filled, index + built, index + count + built, remaining - built, AssignOver)
  IN Returns([b EXCEPT !.cells = DestroyCells(shifted, b.size - built + 1 .. b.size),
                       !.size = b.size - count])
     \cup (IF remaining > 0 THEN MayThrow("move", Breaks(b)) ELSE {})

-----------------------------------------------------------------------------
(* Copies, moves, swaps.                                                   *)

(* copyFrom(), in the copy constructor: b is Empty.  A constructor that    *)
(* throws runs no destructor: heap storage it has allocated stays behind.  *)
CopyFrom(b, other) ==
  IF ~ CanFit(other.size) THEN Returns(b)
  ELSE AndThen(Reserve(b, other.size), LAMBDA r :
         Returns([r EXCEPT !.cells = ConstructCells(r.cells, 0, Held(other)),
                           !.size = other.size])
         \cup (IF other.size > 0
               THEN MayThrow("copy", IF r.heap THEN Breaks(r) ELSE Throws(r)) ELSE {}))

(* Mutated form: the elements beyond the copied ones are not destroyed. *)
CopyAssignForgetful(b, other) ==
  IF other.size > Capacity(b)
  THEN AndThen(Reserve(Reset(b), other.size), LAMBDA r :
         Returns([r EXCEPT !.cells = ConstructCells(r.cells, 0, Held(other)),
                           !.size = other.size]))
  ELSE LET common == Min({b.size, other.size})
           assigned == [i \in DOMAIN b.cells |-> IF i <= common THEN other.cells[i] ELSE b.cells[i]]
       IN Returns([b EXCEPT !.cells = ConstructCells(assigned, common,
                                         SubSeq(other.cells, common + 1, other.size)),
                            !.size = other.size])

(* copyAssignFrom(): into new storage, or over the objects that are there. *)
(* Copies that throw leave the size, and objects old and new.              *)
CopyAssignFrom(b, other) ==
  IF ~ CanFit(other.size) THEN Returns(b)
  ELSE IF other.size > Capacity(b)
  THEN AndThen(Reserve(Reset(b), other.size), LAMBDA r :
         Returns([r EXCEPT !.cells = ConstructCells(r.cells, 0, Held(other)),
                           !.size = other.size])
         \cup MayThrow("copy", Throws(r)))
  ELSE LET common == Min({b.size, other.size})
           Assigned(k) == AssignCells(b.cells, SubSeq(other.cells, 1, k))
           trimmed == DestroyCells(Assigned(common), common + 1 .. b.size)
       IN Returns([b EXCEPT !.cells = ConstructCells(trimmed, common,
                                         SubSeq(other.cells, common + 1, other.size)),
                            !.size = other.size])
          \cup MayThrow("copy",
                 {[to |-> [b EXCEPT !.cells = Assigned(k)], how |-> "threw"] :
                    k \in 0 .. IF other.size > b.size THEN common ELSE common - 1})

(* moveFrom(): b is Empty.  Heap storage is stolen, inline elements are    *)
(* relocated.  The outcomes are those of the pair.                         *)
MoveFrom(b, other) ==
  IF kind = "dynamic" \/ other.heap
  THEN {[to |-> other, from |-> Empty, how |-> "returned"]}
  ELSE {[to |-> [b EXCEPT !.cells = ConstructCells(b.cells, 0, Held(other)),
                          !.size = other.size],
         from |-> [other EXCEPT !.cells = DestroyCells(other.cells, 1 .. other.size),
                                !.size = 0],
         how |-> "returned"]}
       \cup MayThrow("move",
              {[to |-> b, from |-> [other EXCEPT !.cells = MovedFrom(other.cells, 0, k)],
                how |-> "threw"] : k \in 0 .. other.size - 1})

(* swap(): three moves through a temporary, unless both are on the heap.   *)
(* When one throws, the temporary's elements are lost with it.             *)
Swap(b, c) ==
  IF b.heap /\ c.heap THEN {[to |-> c, from |-> b, how |-> "returned"]}
  ELSE UNION {
    IF t.how = "threw" THEN {[to |-> t.from, from |-> c, how |-> "threw"]}
    ELSE UNION {
      IF u.how = "threw" THEN {[to |-> u.to, from |-> u.from, how |-> "threw"]}
      ELSE {IF w.how = "threw" THEN [to |-> u.to, from |-> u.from, how |-> "threw"]
            ELSE [to |-> u.to, from |-> w.to, how |-> "returned"] :
              w \in MoveFrom(u.from, t.to)} :
        u \in MoveFrom(t.from, c)} :
      t \in MoveFrom(Empty, b)}

-----------------------------------------------------------------------------
(* Calls.  After a broken one nothing more is said.                        *)

BufferInit ==
  /\ kind \in Kinds /\ throwing \in Throwing
  /\ buf = [o \in Objects |-> Empty]
  /\ how = "returned"

Call(o, outcomes) ==
  /\ how \in {"returned", "threw"}
  /\ \E r \in outcomes : how' = r.how /\ buf' = [buf EXCEPT ![o] = r.to]
  /\ UNCHANGED <<kind, throwing>>

CallBoth(o, other, outcomes) ==
  /\ how \in {"returned", "threw"}
  /\ \E r \in outcomes :
       how' = r.how /\ buf' = [buf EXCEPT ![o] = r.to, ![other] = r.from]
  /\ UNCHANGED <<kind, throwing>>

Room(o) == MaxCells - buf[o].size

DoReserve(o) == \E n \in 0 .. MaxCells : kind # "fixed" /\ Call(o, Reserve(buf[o], n))
DoShrink(o) == kind # "fixed" /\ Call(o, ShrinkToFit(buf[o]))
DoClear(o) == Call(o, Returns(Clear(buf[o])))
DoReset(o) == Call(o, Returns(Reset(buf[o])))

DoAppend(o) ==
  \E vs \in SeqOf(Elements, 2) : Len(vs) \in 1 .. Room(o) /\ Call(o, AppendCopies(buf[o], vs))
DoAppendMove(o) ==
  \E vs \in SeqOf(Elements, 2) : Len(vs) \in 1 .. Room(o) /\ Call(o, AppendMove(buf[o], vs))
DoAppendConstruct(o) ==
  \E v \in Elements : Room(o) > 0 /\ Call(o, AppendConstruct(buf[o], v))
DoResize(o) ==
  \E n \in 0 .. MaxCells, v \in Elements : Call(o, Resized(buf[o], n, v))
DoRemove(o) ==
  \E index \in 0 .. buf[o].size - 1 : \E count \in 1 .. buf[o].size - index :
    Call(o, RemoveRange(buf[o], index, count))

DoCopyConstruct(o, other) == buf[o] = Empty /\ Call(o, CopyFrom(Empty, buf[other]))
DoCopyAssign(o, other) == Call(o, CopyAssignFrom(buf[o], buf[other]))

(* Move assignment resets first, the move constructor has nothing to.      *)
DoMove(o, other) == CallBoth(o, other, MoveFrom(Reset(buf[o]), buf[other]))
DoSwap(o, other) == CallBoth(o, other, Swap(buf[o], buf[other]))

(* One object is worked on; the other one takes part in copies, moves and  *)
(* swaps, by which it comes to hold all that the first one can.            *)
BufferNext ==
  \/ DoReserve("x") \/ DoShrink("x") \/ DoClear("x") \/ DoReset("x")
  \/ DoAppend("x") \/ DoAppendMove("x") \/ DoAppendConstruct("x") \/ DoResize("x") \/ DoRemove("x")
  \/ \E o \in Objects, other \in Objects :
       /\ o # other
       /\ DoCopyConstruct(o, other) \/ DoCopyAssign(o, other) \/ DoMove(o, other) \/ DoSwap(o, other)
=============================================================================
