---------------------------- MODULE BoundedDeque ----------------------------
(***************************************************************************)
(* What a RingBuffer promises its caller, with no slots and no indices: a  *)
(* sequence of at most `capacity' elements, pushed at the back, taken from *)
(* either end, read by position or through an iterator that is nothing but *)
(* a position, and, when it is full, either refusing the new element or    *)
(* giving up its oldest one for it.                                        *)
(***************************************************************************)
EXTENDS Integers, Sequences

CONSTANTS Values,        \* the elements a caller pushes
          MaxCapacity,   \* largest capacity a caller asks for
          None           \* no iterator, and nothing read yet

VARIABLES items, capacity, overwrites, position, out

vars == <<items, capacity, overwrites, position, out>>

Init == /\ items = <<>>
        /\ capacity \in 1..MaxCapacity
        /\ overwrites \in BOOLEAN
        /\ position = None
        /\ out = None

\* Every modifier invalidates the iterators.
Becomes(s) == items' = s /\ position' = None

Push == \E v \in Values :
            /\ CASE Len(items) < capacity -> Becomes(Append(items, v)) /\ out' = "accepted"
                 [] Len(items) = capacity /\ overwrites ->
                        Becomes(Append(Tail(items), v)) /\ out' = "accepted"
                 [] OTHER -> Becomes(items) /\ out' = "rejected"
            /\ UNCHANGED <<capacity, overwrites>>

PopFront == items # <<>> /\ Becomes(Tail(items)) /\ UNCHANGED <<capacity, overwrites, out>>

PopBack == /\ items # <<>>
           /\ Becomes(SubSeq(items, 1, Len(items) - 1))
           /\ UNCHANGED <<capacity, overwrites, out>>

Clear == Becomes(<<>>) /\ UNCHANGED <<capacity, overwrites, out>>

\* The oldest elements survive a resize that cannot keep all.
Resize == \E c \in 1..MaxCapacity :
              /\ Becomes(SubSeq(items, 1, IF Len(items) < c THEN Len(items) ELSE c))
              /\ capacity' = c
              /\ UNCHANGED <<overwrites, out>>

Read == \E i \in 1..Len(items) : out' = items[i] /\ UNCHANGED <<items, capacity, overwrites, position>>

Iterate == /\ position' \in 0..Len(items)
           /\ UNCHANGED <<items, capacity, overwrites, out>>

Next == Push \/ PopFront \/ PopBack \/ Clear \/ Resize \/ Read \/ Iterate

Spec == Init /\ [][Next]_vars
=============================================================================
