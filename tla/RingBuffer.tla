----------------------------- MODULE RingBuffer -----------------------------
(***************************************************************************)
(* RingBufferBase of core/containers/details/ring_buffer_base.h over its   *)
(* DynamicStorage: the slots, the two indices and the count, and one       *)
(* iterator.  StaticStorage is the same code without resize/shrinkToFit.   *)
(* The container is not synchronised: one caller makes all the calls.      *)
(*                                                                         *)
(* `traits' stands for the template arguments of one instantiation: the    *)
(* overflow policy, and whether the element type is trivially copyable and *)
(* destructible, which selects the code of clear() and resize().           *)
(* popFront, popBack, front and back are called on a non-empty buffer only *)
(* (NEX_ASSERT in a debug build, the caller's duty in a release build).    *)
(***************************************************************************)
EXTENDS Integers, Sequences

CONSTANTS Values,        \* the elements a caller pushes
          Default,       \* value_type(): what a slot holds at first
          MaxCapacity,   \* bound: largest capacity a caller asks for
          None           \* no iterator, and nothing read yet

ASSUME ConstantsAssumption == /\ MaxCapacity \in Nat \ {0}
                              /\ Default \notin Values
                              /\ None \notin Values
                              /\ None \notin [index : Nat, fromStart : Nat]
                              /\ {"accepted", "rejected"} \cap Values = {}

VARIABLES traits,    \* [overwrites, trivial]: never changes
          buffer,    \* Storage::buffer, slot |-> element
          capacity,  \* Storage::capacity
          head,      \* head_: next element to be read
          tail,      \* tail_: next slot to be written
          count,     \* count_
          cursor,    \* one Iterator of the caller, or None
          out        \* what the last push or read returned

vars == <<traits, buffer, capacity, head, tail, count, cursor, out>>
storage == <<buffer, capacity>>
indices == <<head, tail, count>>

Iterators == [index : Nat, fromStart : Nat]

TypeOK == /\ traits \in [overwrites : BOOLEAN, trivial : BOOLEAN]
          /\ capacity \in 1..MaxCapacity
          /\ buffer \in [0..capacity - 1 -> Values \cup {Default}]
          /\ head \in 0..capacity - 1
          /\ tail \in 0..capacity - 1
          /\ count \in 0..capacity
          /\ cursor \in Iterators \cup {None}
          /\ out \in Values \cup {Default, None, "accepted", "rejected"}

-----------------------------------------------------------------------------
(* Helpers of the code.                                                    *)

full == count = capacity
empty == count = 0

\* at(i) and operator[](i): the slot of the i-th element from the oldest.
Slot(i) == (head + i) % capacity

\* The caller's iterators are invalid once the buffer is modified.
Invalidate == cursor' = None

\* DynamicStorage(cap): a capacity of 0 becomes 1.
Storage(cap) == LET c == IF cap > 0 THEN cap ELSE 1
                IN  capacity = c /\ buffer = [s \in 0..c - 1 |-> Default]

Init == /\ traits \in [overwrites : BOOLEAN, trivial : BOOLEAN]
        /\ \E cap \in 0..MaxCapacity : Storage(cap)
        /\ head = 0 /\ tail = 0 /\ count = 0
        /\ cursor = None
        /\ out = None

-----------------------------------------------------------------------------
(* Modifiers.                                                              *)

Store(v) == buffer' = [buffer EXCEPT ![tail] = v] /\ tail' = (tail + 1) % capacity

\* The overwriting push forgets to move the read index.
OverwriteInPlace(v) == Store(v) /\ head' = head /\ count' = count

\* The full-buffer branch under OverflowPolicy::Overwrite: the slot written is
\* the oldest element's, and the oldest element is now the one after it.
OverwriteOldest(v) == Store(v) /\ head' = tail' /\ count' = count

pushBack(v) ==
    /\ \/ /\ full /\ ~traits.overwrites
          /\ out' = "rejected"
          /\ UNCHANGED <<buffer, indices>>
       \/ full /\ traits.overwrites /\ OverwriteOldest(v) /\ out' = "accepted"
       \/ /\ ~full /\ Store(v)
          /\ count' = count + 1 /\ head' = head
          /\ out' = "accepted"
    /\ Invalidate
    /\ UNCHANGED <<traits, capacity>>

popFront ==
    /\ ~empty
    /\ head' = (head + 1) % capacity
    /\ count' = count - 1
    /\ Invalidate
    /\ UNCHANGED <<traits, storage, tail, out>>

popBack ==
    /\ ~empty
    /\ tail' = (tail + capacity - 1) % capacity
    /\ count' = count - 1
    /\ Invalidate
    /\ UNCHANGED <<traits, storage, head, out>>

\* Elements that own something are reset first; the slots of elements already
\* popped are not among them.
clear ==
    /\ buffer' = IF traits.trivial THEN buffer
                 ELSE [s \in 0..capacity - 1 |->
                          IF s \in {Slot(i) : i \in 0..count - 1} THEN Default ELSE buffer[s]]
    /\ head' = 0 /\ tail' = 0 /\ count' = 0
    /\ Invalidate
    /\ UNCHANGED <<traits, capacity, out>>

\* The two memcpy blocks of resize for a trivially copyable type: the elements
\* up to the end of the old buffer, then the rest from its start.
FirstBlock(n) == IF head + n > capacity THEN capacity - head ELSE n

CopyBlocks(n, cap) == [s \in 0..cap - 1 |-> CASE s < FirstBlock(n) -> buffer[head + s]
                                              [] FirstBlock(n) <= s /\ s < n -> buffer[s - FirstBlock(n)]
                                              [] OTHER -> Default]

\* The loop of resize copies slots instead of elements.
MoveSlots(n, cap) == [s \in 0..cap - 1 |-> IF s < n /\ s < capacity THEN buffer[s] ELSE Default]

\* The loop of resize for every other type.
MoveEach(n, cap) == [s \in 0..cap - 1 |-> IF s < n THEN buffer[Slot(s)] ELSE Default]

\* newCount: as many of the oldest elements as fit.
Kept(newCapacity) == IF count < newCapacity THEN count ELSE newCapacity

Relocate(newCapacity) ==
    LET n == Kept(newCapacity)
    IN  /\ buffer' = IF traits.trivial THEN CopyBlocks(n, newCapacity) ELSE MoveEach(n, newCapacity)
        /\ capacity' = newCapacity
        /\ head' = 0
        /\ tail' = n % newCapacity
        /\ count' = n
        /\ Invalidate
        /\ UNCHANGED <<traits, out>>

resize(newCapacity) ==
    /\ newCapacity # 0 /\ newCapacity # capacity
    /\ Relocate(newCapacity)

shrinkToFit ==
    /\ ~full
    /\ resize(IF count > 0 THEN count ELSE 1)

-----------------------------------------------------------------------------
(* Element access and iterators.                                           *)

Reads(slot) == out' = buffer[slot] /\ UNCHANGED <<traits, storage, indices, cursor>>

front == ~empty /\ Reads(head)
back == ~empty /\ Reads((tail + capacity - 1) % capacity)
at(i) == i < count /\ Reads(Slot(i))

PointsAt(index, fromStart) == /\ cursor' = [index |-> index, fromStart |-> fromStart]
                              /\ UNCHANGED <<traits, storage, indices, out>>

begin == PointsAt(head, 0)
end == PointsAt(tail, count)

\* ++, -- and += stay between begin() and end(): beyond them they are undefined.
Increment == /\ cursor # None /\ cursor.fromStart < count
             /\ PointsAt((cursor.index + 1) % capacity, cursor.fromStart + 1)

Decrement == /\ cursor # None /\ cursor.fromStart > 0
             /\ PointsAt((cursor.index + capacity - 1) % capacity, cursor.fromStart - 1)

\* C++'s %: the remainder has the sign of the dividend.
Remainder(a, b) == IF a >= 0 THEN a % b ELSE -((-a) % b)

\* offsetIndex trusts % to be non-negative.
OffsetUnsigned(offset) == LET wrapped == Remainder(cursor.index + offset, capacity)
                          IN  IF wrapped < 0 THEN -wrapped ELSE wrapped

offsetIndex(offset) == LET wrapped == Remainder(cursor.index + offset, capacity)
                       IN  IF wrapped < 0 THEN wrapped + capacity ELSE wrapped

\* `it += n' (and `it -= -n').
Advance(n) == /\ cursor # None
              /\ cursor.fromStart + n \in 0..count
              /\ PointsAt(offsetIndex(n), cursor.fromStart + n)

Dereference == cursor # None /\ cursor.fromStart < count /\ Reads(cursor.index)

Modify == \/ \E v \in Values : pushBack(v)
          \/ popFront \/ popBack \/ clear \/ shrinkToFit
          \/ \E c \in 0..MaxCapacity : resize(c)

Look == \/ front \/ back \/ Dereference
        \/ \E i \in 0..MaxCapacity - 1 : at(i)

Move == \/ begin \/ end \/ Increment \/ Decrement
        \/ \E n \in -MaxCapacity..MaxCapacity : Advance(n)

Next == Modify \/ Look \/ Move

Spec == Init /\ [][Next]_vars

-----------------------------------------------------------------------------
(* Properties.                                                             *)

\* The three indices describe one window: the write index is `count' slots
\* after the read index, around the end of the buffer.  The code keeps them
\* apart in pushBack's three branches, both pops, clear and resize, and back(),
\* end() and the next push all trust it.
IndicesAgree == tail = (head + count) % capacity

\* An iterator's slot and its distance from begin() never drift apart, whatever
\* mixture of ++, -- and += of either sign led there and however often they
\* went around the end of the buffer: comparisons use one and dereferences
\* the other.
CursorInStep == cursor # None => /\ cursor.fromStart <= count
                                 /\ cursor.index = (head + cursor.fromStart) % capacity

\* The elements in order, read from the oldest on.
Contents == [i \in 1..count |-> buffer[Slot(i - 1)]]

Deque == INSTANCE BoundedDeque WITH
            items <- Contents,
            overwrites <- traits.overwrites,
            position <- IF cursor = None THEN None ELSE cursor.fromStart

\* Seen through its operations the ring buffer is a bounded deque: pushes at
\* the back, a full buffer gives up its oldest element or refuses the new one,
\* a resize keeps the oldest elements in order whichever way they are copied,
\* and front, back, at and an iterator read what stands at that position.
ImplementsDeque == Deque!Spec
=============================================================================
