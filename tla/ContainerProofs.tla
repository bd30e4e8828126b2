-------------------------- MODULE ContainerProofs --------------------------
(***************************************************************************)
(* The proofs about the containers' storage.                               *)
(*                                                                         *)
(* RingBuffer: the index arithmetic, for every capacity, both overflow     *)
(* policies and both ways of copying.                                      *)
(*                                                                         *)
(* Vec, over the three buffers of Buffer: which cells hold an object, and  *)
(* what a call that threw has undone, for every element type, inline       *)
(* capacity, size and argument, and for every choice of the element        *)
(* operations that may throw.                                              *)
(***************************************************************************)
EXTENDS RingBuffer, Vec, SequenceTheorems, WellFoundedInduction, TLAPS

(***************************************************************************)
(* RingBuffer                                                              *)
(***************************************************************************)

\* A name for the modulo, so that the steps can speak of it without opening it.
Mod(n, c) == n % c

\* Every index of the code is a sum below twice the capacity taken modulo the
\* capacity: it wraps at most once.
LEMMA WrapsOnce ==
    ASSUME NEW c \in Nat \ {0}, NEW n \in 0..2 * c - 1
    PROVE  Mod(n, c) = IF n < c THEN n ELSE n - c
  BY DEF Mod

\* offsetIndex's way around C++'s signed remainder lands on the same slot as a
\* mathematical modulo does, for offsets of at most one capacity.
LEMMA OffsetWraps ==
    ASSUME NEW c \in Nat \ {0}, NEW i \in 0..c - 1, NEW k \in -c..c,
           NEW r, r = Remainder(i + k, c)
    PROVE  (IF r < 0 THEN r + c ELSE r)
              = CASE i + k < 0 -> i + k + c
                  [] i + k >= 0 /\ i + k < c -> i + k
                  [] i + k >= c -> i + k - c
<1>1. CASE i + k < 0
  <2>1. CASE i = 0 /\ k = -c
    <3>1. -(i + k) = c /\ Mod(c, c) = 0
      BY <2>1, WrapsOnce
    <3>2. r = -Mod(-(i + k), c)
      BY <1>1 DEF Remainder, Mod
    <3>3. r = 0 /\ i + k + c = 0
      BY <2>1, <3>1, <3>2
    <3> QED
      BY <1>1, <3>3
  <2>2. CASE ~(i = 0 /\ k = -c)
    <3>1. -(i + k) \in 1..c - 1
      BY <1>1, <2>2
    <3>2. Mod(-(i + k), c) = -(i + k)
      BY <3>1, WrapsOnce
    <3> QED
      BY <1>1, <3>1, <3>2 DEF Remainder, Mod
  <2> QED
    BY <2>1, <2>2
<1>2. CASE i + k >= 0
  <2>1. i + k \in 0..2 * c - 1
    BY <1>2
  <2>2. Mod(i + k, c) = IF i + k < c THEN i + k ELSE i + k - c
    BY <2>1, WrapsOnce
  <2> QED
    BY <1>2, <2>1, <2>2 DEF Remainder, Mod
<1> QED
  BY <1>1, <1>2

\* The slot n places after slot h.
LEMMA WindowEnd ==
    ASSUME NEW c \in Nat \ {0}, NEW h \in 0..c - 1, NEW n \in 0..c
    PROVE  Mod(h + n, c) = IF h + n < c THEN h + n ELSE h + n - c
<1>1. h + n \in 0..2 * c - 1
  OBVIOUS
<1> QED
  BY <1>1, WrapsOnce

\* A full turn ends where it began.
LEMMA WindowRound ==
    ASSUME NEW c \in Nat \ {0}, NEW h \in 0..c - 1
    PROVE  Mod(h + c, c) = h
<1>1. h + c \in 0..2 * c - 1
  OBVIOUS
<1> QED
  BY <1>1, WrapsOnce

LEMMA WindowRange ==
    ASSUME NEW c \in Nat \ {0}, NEW h \in 0..c - 1, NEW n \in 0..c
    PROVE  Mod(h + n, c) \in 0..c - 1
<1>1. Mod(h + n, c) = IF h + n < c THEN h + n ELSE h + n - c
  BY WindowEnd
<1> QED
  BY <1>1

\* ++ on an iterator i at distance k of a window that starts at h.
LEMMA StepForward ==
    ASSUME NEW c \in Nat \ {0}, NEW h \in 0..c - 1, NEW n \in 0..c, NEW k \in 0..n, k < n,
           NEW i, i = Mod(h + k, c)
    PROVE  Mod(i + 1, c) = Mod(h + (k + 1), c)
<1>1. k \in 0..c /\ k + 1 \in 0..c /\ h + k \in Nat
  OBVIOUS
<1>2. i = (IF h + k < c THEN h + k ELSE h + k - c) /\ i \in 0..c - 1
  BY <1>1, WindowEnd, WindowRange
<1>3. Mod(h + (k + 1), c) = IF h + (k + 1) < c THEN h + (k + 1) ELSE h + (k + 1) - c
  BY <1>1, WindowEnd
<1>4. Mod(i + 1, c) = IF i + 1 < c THEN i + 1 ELSE i + 1 - c
  <2>1. 1 \in 0..c
    OBVIOUS
  <2> QED
    BY <1>2, <2>1, WindowEnd
<1> QED
  BY <1>2, <1>3, <1>4

\* -- on it.
LEMMA StepBack ==
    ASSUME NEW c \in Nat \ {0}, NEW h \in 0..c - 1, NEW n \in 0..c, NEW k \in 0..n, k > 0,
           NEW i, i = Mod(h + k, c)
    PROVE  Mod(i + c - 1, c) = Mod(h + (k - 1), c)
<1>1. k \in 0..c /\ k - 1 \in 0..c
  OBVIOUS
<1>2. i = (IF h + k < c THEN h + k ELSE h + k - c) /\ i \in 0..c - 1
  BY <1>1, WindowEnd, WindowRange
<1>3. Mod(h + (k - 1), c) = IF h + (k - 1) < c THEN h + (k - 1) ELSE h + (k - 1) - c
  BY <1>1, WindowEnd
<1>4. Mod(i + c - 1, c) = IF i + c - 1 < c THEN i + c - 1 ELSE i + c - 1 - c
  <2>1. i + c - 1 \in 0..2 * c - 1
    BY <1>2
  <2> QED
    BY <2>1, WrapsOnce
<1> QED
  BY <1>2, <1>3, <1>4

\* += on it, for an offset that stays inside the window.
LEMMA Jump ==
    ASSUME NEW c \in Nat \ {0}, NEW h \in 0..c - 1, NEW n \in 0..c, NEW k \in 0..n,
           NEW d \in Int, k + d \in 0..n,
           NEW i, i = Mod(h + k, c)
    PROVE  (IF Remainder(i + d, c) < 0 THEN Remainder(i + d, c) + c ELSE Remainder(i + d, c))
              = Mod(h + (k + d), c)
<1>1. k \in 0..c /\ k + d \in 0..c /\ d \in -c..c
  OBVIOUS
<1>2. i = (IF h + k < c THEN h + k ELSE h + k - c) /\ i \in 0..c - 1
  BY <1>1, WindowEnd, WindowRange
<1>3. Mod(h + (k + d), c) = IF h + (k + d) < c THEN h + (k + d) ELSE h + (k + d) - c
  BY <1>1, WindowEnd
<1> DEFINE r == Remainder(i + d, c)
<1>4. (IF r < 0 THEN r + c ELSE r) = CASE i + d < 0 -> i + d + c
                                       [] i + d >= 0 /\ i + d < c -> i + d
                                       [] i + d >= c -> i + d - c
  BY <1>1, <1>2, OffsetWraps
<1> HIDE DEF r
<1>5. (IF r < 0 THEN r + c ELSE r) = Mod(h + (k + d), c)
  BY <1>1, <1>2, <1>3, <1>4
<1> QED
  BY <1>5 DEF r

-----------------------------------------------------------------------------
\* What the code keeps true between two calls.
Inv == TypeOK /\ IndicesAgree /\ CursorInStep

LEMMA InitInv == Init => Inv
<1> SUFFICES ASSUME Init PROVE Inv
  OBVIOUS
<1>1. PICK cap \in 0..MaxCapacity : Storage(cap)
  BY DEF Init
<1>2. capacity \in 1..MaxCapacity /\ buffer \in [0..capacity - 1 -> Values \cup {Default}]
  BY <1>1, ConstantsAssumption DEF Storage
<1>3. head = 0 /\ tail = 0 /\ count = 0 /\ cursor = None /\ out = None
      /\ traits \in [overwrites : BOOLEAN, trivial : BOOLEAN]
  BY DEF Init
<1>4. TypeOK
  BY <1>2, <1>3, ConstantsAssumption DEF TypeOK
<1>5. IndicesAgree
  BY <1>2, <1>3, WrapsOnce, ConstantsAssumption DEF IndicesAgree, Mod
<1> QED
  BY <1>3, <1>4, <1>5 DEF Inv, CursorInStep

\* The facts about integers that every step below needs.
LEMMA Ranges ==
    ASSUME TypeOK
    PROVE  /\ capacity \in Nat \ {0}
           /\ head \in Nat /\ tail \in Nat /\ count \in Nat
           /\ head < capacity /\ tail < capacity /\ count <= capacity
  BY ConstantsAssumption DEF TypeOK

LEMMA StoreKeepsType ==
    ASSUME TypeOK, NEW v \in Values, Store(v)
    PROVE  /\ buffer' \in [0..capacity - 1 -> Values \cup {Default}]
           /\ tail' \in 0..capacity - 1
           /\ tail' = IF tail + 1 < capacity THEN tail + 1 ELSE 0
<1>1. tail + 1 \in 0..2 * capacity - 1
  BY Ranges
<1>2. Mod(tail + 1, capacity) = IF tail + 1 < capacity THEN tail + 1 ELSE tail + 1 - capacity
  BY <1>1, WrapsOnce, Ranges
<1>3. tail' = IF tail + 1 < capacity THEN tail + 1 ELSE 0
  BY <1>2, Ranges DEF Store, Mod
<1>4. buffer' \in [0..capacity - 1 -> Values \cup {Default}]
  BY DEF Store, TypeOK
<1> QED
  BY <1>3, <1>4, Ranges

\* IndicesAgree without the modulo.
LEMMA WriteIndex ==
    ASSUME TypeOK, IndicesAgree
    PROVE  tail = IF head + count < capacity THEN head + count ELSE head + count - capacity
<1>1. capacity \in Nat \ {0} /\ head \in 0..capacity - 1 /\ count \in 0..capacity
  BY Ranges DEF TypeOK
<1> QED
  BY <1>1, WindowEnd DEF IndicesAgree, Mod

LEMMA PushInv ==
    ASSUME Inv, NEW v \in Values, pushBack(v)
    PROVE  Inv'
<1>0. TypeOK /\ IndicesAgree
  BY DEF Inv
<1>1. cursor' = None /\ capacity' = capacity /\ traits' = traits
  BY DEF pushBack, Invalidate
<1>2. CASE full /\ ~traits.overwrites /\ out' = "rejected" /\ UNCHANGED <<buffer, indices>>
  <2>1. TypeOK'
    BY <1>0, <1>1, <1>2 DEF TypeOK, indices
  <2> QED
    BY <1>0, <1>1, <1>2, <2>1 DEF Inv, IndicesAgree, CursorInStep, indices
<1>3. CASE full /\ OverwriteOldest(v) /\ out' = "accepted"
  <2>1. /\ buffer' \in [0..capacity - 1 -> Values \cup {Default}]
        /\ tail' \in 0..capacity - 1
        /\ head' = tail' /\ count' = capacity
    BY <1>0, <1>3, StoreKeepsType DEF OverwriteOldest, full
  <2>2. TypeOK'
    BY <1>0, <1>1, <1>3, <2>1, Ranges DEF TypeOK
  <2>3. Mod(tail' + capacity, capacity) = tail'
    <3>1. capacity \in Nat \ {0}
      BY <1>0, Ranges
    <3> QED
      BY <2>1, <3>1, WindowRound
  <2> QED
    BY <1>1, <2>1, <2>2, <2>3 DEF Inv, IndicesAgree, CursorInStep, Mod
<1>4. CASE ~full /\ Store(v) /\ count' = count + 1 /\ head' = head /\ out' = "accepted"
  <2>1. /\ buffer' \in [0..capacity - 1 -> Values \cup {Default}]
        /\ tail' \in 0..capacity - 1
        /\ tail' = IF tail + 1 < capacity THEN tail + 1 ELSE 0
    BY <1>0, <1>4, StoreKeepsType
  <2>2. count + 1 \in 0..capacity /\ head \in 0..capacity - 1
    BY <1>0, <1>4, Ranges DEF full
  <2>3. TypeOK'
    BY <1>0, <1>1, <1>4, <2>1, <2>2 DEF TypeOK
  <2>4. tail' = Mod(head + (count + 1), capacity)
    <3>1. tail = IF head + count < capacity THEN head + count ELSE head + count - capacity
      BY <1>0, WriteIndex
    <3>2. Mod(head + (count + 1), capacity) = IF head + (count + 1) < capacity THEN head + (count + 1)
                                              ELSE head + (count + 1) - capacity
      BY <1>0, <2>2, WindowEnd, Ranges
    <3> QED
      BY <1>0, <2>1, <2>2, <3>1, <3>2, Ranges
  <2> QED
    BY <1>1, <1>4, <2>3, <2>4 DEF Inv, IndicesAgree, CursorInStep, Mod
<1> QED
  BY <1>2, <1>3, <1>4 DEF pushBack

LEMMA PopFrontInv ==
    ASSUME Inv, popFront
    PROVE  Inv'
<1>1. cursor' = None /\ capacity' = capacity /\ traits' = traits /\ buffer' = buffer
      /\ tail' = tail /\ out' = out /\ count' = count - 1 /\ count > 0
  BY Ranges DEF Inv, popFront, Invalidate, storage, empty
<1>2. head' = IF head + 1 < capacity THEN head + 1 ELSE head + 1 - capacity
  <2>1. Mod(head + 1, capacity) = IF head + 1 < capacity THEN head + 1 ELSE head + 1 - capacity
    BY WindowEnd, Ranges DEF Inv
  <2> QED
    BY <2>1 DEF popFront, Mod
<1>3. head' \in 0..capacity - 1 /\ count' \in 0..capacity
  BY <1>1, <1>2, Ranges DEF Inv
<1>4. TypeOK'
  BY <1>1, <1>3 DEF TypeOK, Inv
<1>5. tail = Mod(head' + count', capacity)
  <2>1. tail = IF head + count < capacity THEN head + count ELSE head + count - capacity
    BY WriteIndex DEF Inv
  <2>2. Mod(head' + count', capacity) = IF head' + count' < capacity THEN head' + count'
                                      ELSE head' + count' - capacity
    BY <1>3, WindowEnd, Ranges DEF Inv
  <2> QED
    BY <1>1, <1>2, <2>1, <2>2, Ranges DEF Inv
<1> QED
  BY <1>1, <1>4, <1>5 DEF Inv, IndicesAgree, CursorInStep, Mod

LEMMA PopBackInv ==
    ASSUME Inv, popBack
    PROVE  Inv'
<1>1. cursor' = None /\ capacity' = capacity /\ traits' = traits /\ buffer' = buffer
      /\ head' = head /\ out' = out /\ count' = count - 1 /\ count > 0
  BY Ranges DEF Inv, popBack, Invalidate, storage, empty
<1>2. tail' = IF tail = 0 THEN capacity - 1 ELSE tail - 1
  <2>1. tail + capacity - 1 \in 0..2 * capacity - 1
    BY Ranges DEF Inv
  <2>2. Mod(tail + capacity - 1, capacity) = IF tail + capacity - 1 < capacity THEN tail + capacity - 1
                                           ELSE tail + capacity - 1 - capacity
    BY <2>1, WrapsOnce, Ranges DEF Inv
  <2> QED
    BY <2>2, Ranges DEF Inv, popBack, Mod
<1>3. tail' \in 0..capacity - 1 /\ count' \in 0..capacity
  BY <1>1, <1>2, Ranges DEF Inv
<1>4. TypeOK'
  BY <1>1, <1>3 DEF TypeOK, Inv
<1>5. tail' = Mod(head + count', capacity)
  <2>1. tail = IF head + count < capacity THEN head + count ELSE head + count - capacity
    BY WriteIndex DEF Inv
  <2>2. Mod(head + count', capacity) = IF head + count' < capacity THEN head + count'
                                     ELSE head + count' - capacity
    BY <1>3, WindowEnd, Ranges DEF Inv
  <2> QED
    BY <1>1, <1>2, <2>1, <2>2, Ranges DEF Inv
<1> QED
  BY <1>1, <1>4, <1>5 DEF Inv, IndicesAgree, CursorInStep, Mod

LEMMA ClearInv ==
    ASSUME Inv, clear
    PROVE  Inv'
<1>1. buffer' \in [0..capacity - 1 -> Values \cup {Default}]
  <2>1. buffer \in [0..capacity - 1 -> Values \cup {Default}]
    BY DEF TypeOK, Inv
  <2> DEFINE live == {Slot(i) : i \in 0..count - 1}
  <2>2. [s \in 0..capacity - 1 |-> IF s \in live THEN Default ELSE buffer[s]]
           \in [0..capacity - 1 -> Values \cup {Default}]
    <3> HIDE DEF live
    <3> QED
      BY <2>1
  <2> QED
    BY <2>1, <2>2 DEF clear
<1>2. cursor' = None /\ capacity' = capacity /\ traits' = traits /\ out' = out
      /\ head' = 0 /\ tail' = 0 /\ count' = 0
  BY DEF clear, Invalidate
<1>3. TypeOK'
  BY <1>1, <1>2, Ranges DEF TypeOK, Inv
<1>4. Mod(0 + 0, capacity) = 0
  BY WindowEnd, Ranges DEF Inv
<1> QED
  BY <1>2, <1>3, <1>4 DEF Inv, IndicesAgree, CursorInStep, Mod

LEMMA RelocateInv ==
    ASSUME Inv, NEW c \in 1..MaxCapacity, Relocate(c)
    PROVE  Inv'
<1> DEFINE n == Kept(c)
<1>1. n \in 0..c /\ n <= count /\ c \in Nat \ {0}
  BY Ranges, ConstantsAssumption DEF Inv, Kept
<1>2. capacity' = c /\ head' = 0 /\ tail' = n % c /\ count' = n
      /\ cursor' = None /\ traits' = traits /\ out' = out
      /\ buffer' = IF traits.trivial THEN CopyBlocks(n, c) ELSE MoveEach(n, c)
  BY DEF Relocate, Invalidate
<1> HIDE DEF n
<1>3. Mod(0 + n, c) = IF 0 + n < c THEN 0 + n ELSE 0 + n - c
  BY <1>1, WindowEnd
<1>4. tail' \in 0..c - 1 /\ tail' = Mod(0 + n, c)
  BY <1>1, <1>2, <1>3 DEF Mod
<1>5. CopyBlocks(n, c) \in [0..c - 1 -> Values \cup {Default}]
  <2>1. ASSUME NEW s \in 0..c - 1, s < FirstBlock(n)
        PROVE  head + s \in 0..capacity - 1
    BY <1>1, <2>1, Ranges DEF Inv, FirstBlock
  <2>2. ASSUME NEW s \in 0..c - 1, FirstBlock(n) <= s, s < n
        PROVE  s - FirstBlock(n) \in 0..capacity - 1
    BY <1>1, <2>2, Ranges DEF Inv, FirstBlock
  <2>3. ASSUME NEW s \in 0..c - 1
        PROVE  CopyBlocks(n, c)[s] \in Values \cup {Default}
    BY <2>1, <2>2 DEF CopyBlocks, Inv, TypeOK
  <2> QED
    BY <2>3 DEF CopyBlocks
<1>6. MoveEach(n, c) \in [0..c - 1 -> Values \cup {Default}]
  <2>1. ASSUME NEW s \in 0..c - 1, s < n
        PROVE  Slot(s) \in 0..capacity - 1
    <3>1. s \in 0..capacity
      BY <1>1, <2>1, Ranges DEF Inv
    <3>2. Mod(head + s, capacity) = IF head + s < capacity THEN head + s ELSE head + s - capacity
      BY <3>1, WindowEnd, Ranges DEF Inv
    <3> QED
      BY <3>1, <3>2, Ranges DEF Inv, Slot, Mod
  <2>2. ASSUME NEW s \in 0..c - 1
        PROVE  MoveEach(n, c)[s] \in Values \cup {Default}
    BY <2>1 DEF MoveEach, Inv, TypeOK
  <2> QED
    BY <2>2 DEF MoveEach
<1>7. buffer' \in [0..c - 1 -> Values \cup {Default}]
  BY <1>2, <1>5, <1>6
<1>8. TypeOK'
  BY <1>1, <1>2, <1>4, <1>7 DEF TypeOK, Inv
<1> QED
  BY <1>2, <1>4, <1>8 DEF Inv, IndicesAgree, CursorInStep, Mod

\* The modifying steps: none of them lets the indices drift.
LEMMA ModifyInv == Inv /\ Modify => Inv'
<1> SUFFICES ASSUME Inv, Modify PROVE Inv'
  OBVIOUS
<1>1. ASSUME NEW v \in Values, pushBack(v) PROVE Inv'
  BY <1>1, PushInv
<1>2. CASE popFront
  BY <1>2, PopFrontInv
<1>3. CASE popBack
  BY <1>3, PopBackInv
<1>4. CASE clear
  BY <1>4, ClearInv
<1>5. ASSUME NEW c \in 0..MaxCapacity, resize(c) PROVE Inv'
  BY <1>5, RelocateInv, ConstantsAssumption DEF resize
<1>6. CASE shrinkToFit
  <2> DEFINE c == IF count > 0 THEN count ELSE 1
  <2>1. c \in 1..MaxCapacity
    BY ConstantsAssumption DEF Inv, TypeOK
  <2>2. Relocate(c)
    BY <1>6 DEF shrinkToFit, resize
  <2> QED
    BY <2>1, <2>2, RelocateInv
<1> QED
  BY <1>1, <1>2, <1>3, <1>4, <1>5, <1>6 DEF Modify

\* A read changes nothing but what the caller has seen.
LEMMA ReadsInv ==
    ASSUME Inv, NEW slot \in 0..capacity - 1, Reads(slot)
    PROVE  Inv'
  BY DEF Inv, Reads, TypeOK, IndicesAgree, CursorInStep, storage, indices

\* Whatever is read is the element of some place of the window.
LEMMA LookReads ==
    ASSUME Inv, Look
    PROVE  \E k \in 0..count - 1 : Reads(Mod(head + k, capacity))
<1>0. TypeOK /\ IndicesAgree /\ CursorInStep
      /\ capacity \in Nat \ {0} /\ head \in 0..capacity - 1 /\ count \in 0..capacity
  BY Ranges DEF Inv
<1>1. CASE front
  <2>1. 0 \in 0..count - 1 /\ head = Mod(head + 0, capacity)
    BY <1>0, <1>1, WrapsOnce DEF front, empty
  <2> QED
    BY <1>1, <2>1 DEF front
<1>2. CASE back
  <2>1. count > 0 /\ count \in 0..count /\ tail = Mod(head + count, capacity)
    BY <1>0, <1>2 DEF back, empty, IndicesAgree, Mod
  <2>2. Mod(tail + capacity - 1, capacity) = Mod(head + (count - 1), capacity)
    BY <1>0, <2>1, StepBack, ZenonT(60)
  <2>3. count - 1 \in 0..count - 1
    BY <1>0, <2>1
  <2> QED
    BY <1>2, <2>2, <2>3 DEF back, Mod
<1>3. ASSUME NEW i \in 0..MaxCapacity - 1, at(i)
      PROVE  i \in 0..count - 1 /\ Reads(Mod(head + i, capacity))
  BY <1>0, <1>3, ConstantsAssumption DEF at, Slot, Mod
<1>4. CASE Dereference
  <2>1. cursor.fromStart \in 0..count - 1 /\ cursor.index = Mod(head + cursor.fromStart, capacity)
    BY <1>0, <1>4 DEF Dereference, CursorInStep, TypeOK, Iterators, Mod
  <2> QED
    BY <1>4, <2>1 DEF Dereference
<1> QED
  BY <1>1, <1>2, <1>3, <1>4 DEF Look

LEMMA LookInv == Inv /\ Look => Inv'
<1> SUFFICES ASSUME Inv, Look PROVE Inv'
  OBVIOUS
<1>1. PICK k \in 0..count - 1 : Reads(Mod(head + k, capacity))
  BY LookReads
<1>2. k \in 0..capacity /\ capacity \in Nat \ {0} /\ head \in 0..capacity - 1
  BY Ranges DEF Inv
<1>3. Mod(head + k, capacity) \in 0..capacity - 1
  BY <1>2, WindowRange
<1> QED
  BY <1>1, <1>3, ReadsInv

-----------------------------------------------------------------------------
\* An iterator put on the slot of the k-th element keeps step.
LEMMA PointsAtInv ==
    ASSUME Inv, NEW k \in 0..count, NEW i, PointsAt(i, k), i = Mod(head + k, capacity)
    PROVE  Inv'
<1>1. k \in 0..capacity /\ k \in Nat /\ capacity \in Nat \ {0} /\ head \in 0..capacity - 1
  BY Ranges DEF Inv
<1>2. i \in Nat
  <2>1. i \in 0..capacity - 1
    BY <1>1, WindowRange
  <2> QED
    BY <1>1, <2>1
<1>3. cursor' = [index |-> i, fromStart |-> k]
  BY DEF PointsAt
<1>4. cursor' \in Iterators
  BY <1>1, <1>2, <1>3 DEF Iterators
<1>5. TypeOK'
  BY <1>4 DEF Inv, TypeOK, PointsAt, storage, indices
<1>6. IndicesAgree'
  BY DEF Inv, IndicesAgree, PointsAt, storage, indices
<1>7. head' = head /\ capacity' = capacity /\ count' = count
  BY DEF PointsAt, storage, indices
<1>8. CursorInStep'
  BY <1>1, <1>3, <1>7, Ranges DEF CursorInStep, Mod, Inv
<1> QED
  BY <1>5, <1>6, <1>8 DEF Inv

\* Wherever an iterator is put, it stands on the slot of its place.
LEMMA MovePoints ==
    ASSUME Inv, Move
    PROVE  \E k \in 0..count : PointsAt(Mod(head + k, capacity), k)
<1>0. /\ TypeOK /\ IndicesAgree /\ CursorInStep
      /\ capacity \in Nat \ {0} /\ head \in 0..capacity - 1 /\ count \in 0..capacity
  BY Ranges DEF Inv
<1>1. CASE begin
  <2>1. 0 \in 0..count /\ head = Mod(head + 0, capacity)
    BY <1>0, WrapsOnce
  <2> QED
    BY <1>1, <2>1 DEF begin
<1>2. CASE end
  <2>1. count \in 0..count /\ tail = Mod(head + count, capacity)
    BY <1>0 DEF IndicesAgree, Mod
  <2> QED
    BY <1>2, <2>1 DEF end
<1>3. ASSUME cursor # None
      PROVE  cursor.fromStart \in 0..count /\ cursor.index = Mod(head + cursor.fromStart, capacity)
  BY <1>0, <1>3 DEF CursorInStep, TypeOK, Iterators, Mod
<1>4. CASE Increment
  <2>1. Mod(cursor.index + 1, capacity) = Mod(head + (cursor.fromStart + 1), capacity)
    BY <1>0, <1>3, <1>4, StepForward DEF Increment
  <2>2. cursor.fromStart + 1 \in 0..count
    BY <1>0, <1>3, <1>4 DEF Increment
  <2> QED
    BY <1>4, <2>1, <2>2 DEF Increment, Mod
<1>5. CASE Decrement
  <2>1. Mod(cursor.index + capacity - 1, capacity) = Mod(head + (cursor.fromStart - 1), capacity)
    BY <1>0, <1>3, <1>5, StepBack DEF Decrement
  <2>2. cursor.fromStart - 1 \in 0..count
    BY <1>0, <1>3, <1>5 DEF Decrement
  <2> QED
    BY <1>5, <2>1, <2>2 DEF Decrement, Mod
<1>6. ASSUME NEW n \in -MaxCapacity..MaxCapacity, Advance(n) PROVE \E k \in 0..count : PointsAt(Mod(head + k, capacity), k)
  <2>1. cursor.fromStart + n \in 0..count
    BY <1>6 DEF Advance
  <2>2. offsetIndex(n) = Mod(head + (cursor.fromStart + n), capacity)
    <3> DEFINE i == cursor.index
               k == cursor.fromStart
    <3>1. n \in Int
      BY <1>6, ConstantsAssumption
    <3>2. k \in 0..count /\ i = Mod(head + k, capacity) /\ k + n \in 0..count
      BY <1>3, <1>6, <2>1 DEF Advance
    <3> HIDE DEF i, k
    <3>3. (IF Remainder(i + n, capacity) < 0 THEN Remainder(i + n, capacity) + capacity
           ELSE Remainder(i + n, capacity)) = Mod(head + (k + n), capacity)
      BY <1>0, <3>1, <3>2, Jump, ZenonT(60)
    <3> QED
      BY <3>3 DEF offsetIndex, i, k
  <2> QED
    BY <1>6, <2>1, <2>2 DEF Advance
<1> QED
  BY <1>1, <1>2, <1>4, <1>5, <1>6 DEF Move

LEMMA MoveInv == Inv /\ Move => Inv'
<1> SUFFICES ASSUME Inv, Move PROVE Inv'
  OBVIOUS
<1>1. PICK k \in 0..count : PointsAt(Mod(head + k, capacity), k)
  BY MovePoints
<1> QED
  BY <1>1, PointsAtInv

-----------------------------------------------------------------------------
\* Between two calls the three indices describe one window and a valid iterator
\* is where its distance from begin() says, for every capacity and any sequence
\* of legal calls: the induction all the theorems below rest on.
THEOREM Inductive == Spec => []Inv
<1>1. Init => Inv
  BY InitInv
<1>2. Inv /\ [Next]_vars => Inv'
  <2> SUFFICES ASSUME Inv, [Next]_vars PROVE Inv'
    OBVIOUS
  <2>1. CASE Next
    BY <2>1, ModifyInv, LookInv, MoveInv DEF Next
  <2>2. CASE UNCHANGED vars
    BY <2>2 DEF vars, Inv, TypeOK, IndicesAgree, CursorInStep
  <2> QED
    BY <2>1, <2>2
<1> QED
  BY <1>1, <1>2, PTL DEF Spec

\* Every index stays inside the storage, at any capacity.
THEOREM TypeCorrect == Spec => []TypeOK
<1>1. Inv => TypeOK
  BY DEF Inv
<1> QED
  BY <1>1, Inductive, PTL

\* The write index is `count' slots after the read index after every sequence
\* of pushes, pops, clears and resizes.
THEOREM IndicesNeverDrift == Spec => []IndicesAgree
<1>1. Inv => IndicesAgree
  BY DEF Inv
<1> QED
  BY <1>1, Inductive, PTL

\* An iterator's slot and its distance from begin() stay together.
THEOREM IteratorNeverDrifts == Spec => []CursorInStep
<1>1. Inv => CursorInStep
  BY DEF Inv
<1> QED
  BY <1>1, Inductive, PTL

-----------------------------------------------------------------------------
(* The elements in order.  Everything said of Contents is said first of the *)
(* n elements from slot h on of a buffer b with c slots, so that one lemma  *)
(* speaks of the window before and of the window after a call.             *)

\* What a slot can hold.
Storable == Values \cup {Default}

Window(b, c, h, n) == [i \in 1..n |-> b[Mod(h + (i - 1), c)]]

LEMMA WindowLen ==
    ASSUME NEW c, NEW b, NEW h, NEW n \in Nat
    PROVE  /\ Len(Window(b, c, h, n)) = n
           /\ \A i \in 1..n : Window(b, c, h, n)[i] = b[Mod(h + (i - 1), c)]
<1> DEFINE E == {b[Mod(h + (i - 1), c)] : i \in 1..n}
<1>1. Window(b, c, h, n) \in [1..n -> E]
  BY DEF Window
<1>2. Window(b, c, h, n) \in Seq(E) /\ Len(Window(b, c, h, n)) = n
  <2> HIDE DEF E
  <2> QED
    BY <1>1
<1>3. \A i \in 1..n : Window(b, c, h, n)[i] = b[Mod(h + (i - 1), c)]
  BY DEF Window
<1> QED
  BY <1>2, <1>3

LEMMA WindowIsSeq ==
    ASSUME NEW c \in Nat \ {0}, NEW b \in [0..c - 1 -> Storable],
           NEW h \in 0..c - 1, NEW n \in 0..c
    PROVE  Window(b, c, h, n) \in Seq(Storable)
<1>1. ASSUME NEW i \in 1..n
      PROVE  b[Mod(h + (i - 1), c)] \in Storable
  <2>1. i - 1 \in 0..c
    OBVIOUS
  <2>2. Mod(h + (i - 1), c) \in 0..c - 1
    BY <2>1, WindowRange
  <2> QED
    BY <2>2
<1>2. Window(b, c, h, n) \in [1..n -> Storable]
  BY <1>1 DEF Window
<1>3. n \in Nat
  OBVIOUS
<1> QED
  BY <1>2, <1>3

\* Two places of a window are two slots.
LEMMA WindowApart ==
    ASSUME NEW c \in Nat \ {0}, NEW h \in 0..c - 1, NEW i \in 0..c - 1, NEW j \in 0..c - 1, i # j
    PROVE  Mod(h + i, c) # Mod(h + j, c)
<1>1. /\ Mod(h + i, c) = IF h + i < c THEN h + i ELSE h + i - c
      /\ Mod(h + j, c) = IF h + j < c THEN h + j ELSE h + j - c
  <2>1. i \in 0..c /\ j \in 0..c
    OBVIOUS
  <2> QED
    BY <2>1, WindowEnd
<1> QED
  BY <1>1

\* The slots counted from the second one on.
LEMMA WindowNext ==
    ASSUME NEW c \in Nat \ {0}, NEW h \in 0..c - 1, NEW i \in 0..c - 1
    PROVE  /\ Mod(h + 1, c) \in 0..c - 1
           /\ Mod(Mod(h + 1, c) + i, c) = Mod(h + (i + 1), c)
<1>1. 1 \in 0..c /\ i \in 0..c /\ i + 1 \in 0..c
  OBVIOUS
<1>2. /\ Mod(h + 1, c) = IF h + 1 < c THEN h + 1 ELSE h + 1 - c
      /\ Mod(h + (i + 1), c) = IF h + (i + 1) < c THEN h + (i + 1) ELSE h + (i + 1) - c
  BY <1>1, WindowEnd
<1> DEFINE k == Mod(h + 1, c)
<1>3. k \in 0..c - 1
  BY <1>1, WindowRange
<1>4. Mod(k + i, c) = IF k + i < c THEN k + i ELSE k + i - c
  <2> HIDE DEF k
  <2> QED
    BY <1>1, <1>3, WindowEnd
<1> QED
  BY <1>2, <1>3, <1>4

\* What Store leaves, named so that a lemma can speak of its window.
Stored(b, slot, v) == [b EXCEPT ![slot] = v]

\* A store in the slot after the window makes it one longer.
LEMMA WindowAppended ==
    ASSUME NEW c \in Nat \ {0}, NEW b \in [0..c - 1 -> Storable],
           NEW h \in 0..c - 1, NEW n \in 0..c - 1, NEW v \in Storable
    PROVE  Window(Stored(b, Mod(h + n, c), v), c, h, n + 1) = Append(Window(b, c, h, n), v)
<1> DEFINE t == Mod(h + n, c)
           new == Stored(b, t, v)
           s == Window(b, c, h, n)
           r == Window(new, c, h, n + 1)
<1>1. n \in 0..c /\ n + 1 \in 0..c /\ n \in Nat /\ n + 1 \in Nat
  OBVIOUS
<1>2. t \in 0..c - 1
  BY <1>1, WindowRange
<1>3. new \in [0..c - 1 -> Storable] /\ new[t] = v /\ \A j \in 0..c - 1 : j # t => new[j] = b[j]
  BY <1>2 DEF Stored
<1> HIDE DEF new
<1>4. s \in Seq(Storable) /\ Len(s) = n /\ \A i \in 1..n : s[i] = b[Mod(h + (i - 1), c)]
  <2>1. s \in Seq(Storable)
    BY <1>1, WindowIsSeq
  <2>2. Len(s) = n /\ \A i \in 1..n : s[i] = b[Mod(h + (i - 1), c)]
    BY <1>1, WindowLen
  <2> QED
    BY <2>1, <2>2
<1>5. r \in Seq(Storable) /\ Len(r) = n + 1
      /\ \A i \in 1..n + 1 : r[i] = new[Mod(h + (i - 1), c)]
  <2>1. r \in Seq(Storable)
    BY <1>1, <1>3, WindowIsSeq
  <2>2. Len(r) = n + 1 /\ \A i \in 1..n + 1 : r[i] = new[Mod(h + (i - 1), c)]
    BY <1>1, WindowLen
  <2> QED
    BY <2>1, <2>2
<1>6. /\ Append(s, v) \in Seq(Storable) /\ Len(Append(s, v)) = n + 1
      /\ \A i \in 1..n : Append(s, v)[i] = s[i]
      /\ Append(s, v)[n + 1] = v
  <2> HIDE DEF s
  <2> QED
    BY <1>4, AppendProperties
<1>7. ASSUME NEW i \in 1..n + 1
      PROVE  r[i] = Append(s, v)[i]
  <2>1. CASE i = n + 1
    <3>1. r[n + 1] = new[Mod(h + (n + 1 - 1), c)]
      <4>1. n + 1 \in 1..n + 1
        BY <1>1
      <4> HIDE DEF r
      <4> QED
        BY <1>5, <4>1
    <3>2. n + 1 - 1 = n
      BY <1>1
    <3> HIDE DEF r, s
    <3> QED
      BY <1>3, <1>6, <2>1, <3>1, <3>2
  <2>2. CASE i # n + 1
    <3>1. i \in 1..n /\ i - 1 \in 0..c - 1 /\ i - 1 \in 0..c /\ i - 1 # n
      BY <1>1, <2>2
    <3>2. Mod(h + (i - 1), c) # t /\ Mod(h + (i - 1), c) \in 0..c - 1
      BY <3>1, WindowApart, WindowRange
    <3> HIDE DEF r, s, t
    <3> QED
      BY <1>3, <1>4, <1>5, <1>6, <3>1, <3>2
  <2> QED
    BY <2>1, <2>2
<1> HIDE DEF r, s
<1>8. r = Append(s, v)
  BY <1>5, <1>6, <1>7, SeqEqual
<1> QED
  BY <1>8 DEF r, s, new

\* The window without its oldest element.
LEMMA WindowTail ==
    ASSUME NEW c \in Nat \ {0}, NEW b \in [0..c - 1 -> Storable],
           NEW h \in 0..c - 1, NEW n \in 0..c, n > 0
    PROVE  Window(b, c, Mod(h + 1, c), n - 1) = Tail(Window(b, c, h, n))
<1> DEFINE k == Mod(h + 1, c)
           s == Window(b, c, h, n)
           r == Window(b, c, k, n - 1)
<1>1. k \in 0..c - 1 /\ n - 1 \in 0..c /\ 0 \in 0..c - 1
  BY WindowNext
<1>2. s \in Seq(Storable) /\ Len(s) = n /\ \A i \in 1..n : s[i] = b[Mod(h + (i - 1), c)]
  <2>1. s \in Seq(Storable)
    BY WindowIsSeq
  <2>2. n \in Nat
    OBVIOUS
  <2>3. Len(s) = n /\ \A i \in 1..n : s[i] = b[Mod(h + (i - 1), c)]
    BY <2>2, WindowLen
  <2> QED
    BY <2>1, <2>3
<1>3. r \in Seq(Storable) /\ Len(r) = n - 1 /\ \A i \in 1..n - 1 : r[i] = b[Mod(k + (i - 1), c)]
  <2>1. r \in Seq(Storable)
    <3> HIDE DEF k
    <3> QED
      BY <1>1, WindowIsSeq
  <2>2. n - 1 \in Nat
    OBVIOUS
  <2>3. Len(r) = n - 1 /\ \A i \in 1..n - 1 : r[i] = b[Mod(k + (i - 1), c)]
    <3> HIDE DEF k
    <3> QED
      BY <2>2, WindowLen
  <2> QED
    BY <2>1, <2>3
<1>4. Tail(s) \in Seq(Storable) /\ Len(Tail(s)) = n - 1 /\ \A i \in 1..n - 1 : Tail(s)[i] = s[i + 1]
  <2> HIDE DEF s
  <2>1. s # <<>>
    BY <1>2
  <2> QED
    BY <1>2, <2>1, HeadTailProperties
<1>5. ASSUME NEW i \in 1..n - 1
      PROVE  r[i] = Tail(s)[i]
  <2>1. i - 1 \in 0..c - 1 /\ i + 1 \in 1..n /\ (i - 1) + 1 = (i + 1) - 1
    OBVIOUS
  <2>2. Mod(k + (i - 1), c) = Mod(h + ((i - 1) + 1), c)
    BY <2>1, WindowNext
  <2> HIDE DEF r, s, k
  <2> QED
    BY <1>2, <1>3, <1>4, <2>1, <2>2
<1> HIDE DEF r, s
<1>6. r = Tail(s)
  BY <1>3, <1>4, <1>5, SeqEqual
<1> QED
  BY <1>6 DEF r, s

\* The m elements of one buffer from slot g on are those of another from h on.
Agree(new, d, g, b, c, h, m) == \A i \in 0..m - 1 : new[Mod(g + i, d)] = b[Mod(h + i, c)]

\* What a resize leaves: a buffer that agrees with the oldest m elements of a
\* window holds the window's first m elements.
First(s, m) == SubSeq(s, 1, m)

IsWindow(b, c, h, n) == /\ c \in Nat \ {0}
                        /\ b \in [0..c - 1 -> Storable]
                        /\ h \in 0..c - 1
                        /\ n \in 0..c

LEMMA WindowMoved ==
    ASSUME NEW b, NEW c, NEW h, NEW n, IsWindow(b, c, h, n),
           NEW new, NEW d, NEW g, NEW m, IsWindow(new, d, g, m),
           m <= n, Agree(new, d, g, b, c, h, m)
    PROVE  Window(new, d, g, m) = First(Window(b, c, h, n), m)
<1> DEFINE s == Window(b, c, h, n)
           r == Window(new, d, g, m)
<1>1. /\ c \in Nat \ {0} /\ b \in [0..c - 1 -> Storable] /\ h \in 0..c - 1 /\ n \in 0..c
      /\ d \in Nat \ {0} /\ new \in [0..d - 1 -> Storable] /\ g \in 0..d - 1 /\ m \in 0..d
      /\ m \in Nat /\ n \in Nat
  BY DEF IsWindow
<1>2. s \in Seq(Storable) /\ Len(s) = n /\ \A i \in 1..n : s[i] = b[Mod(h + (i - 1), c)]
  <2>1. s \in Seq(Storable)
    BY <1>1, WindowIsSeq
  <2>2. n \in Nat
    BY <1>1
  <2>3. Len(s) = n /\ \A i \in 1..n : s[i] = b[Mod(h + (i - 1), c)]
    BY <2>2, WindowLen
  <2> QED
    BY <2>1, <2>3
<1>3. r \in Seq(Storable) /\ Len(r) = m /\ \A i \in 1..m : r[i] = new[Mod(g + (i - 1), d)]
  <2>1. r \in Seq(Storable)
    BY <1>1, WindowIsSeq
  <2>2. m \in Nat
    BY <1>1
  <2>3. Len(r) = m /\ \A i \in 1..m : r[i] = new[Mod(g + (i - 1), d)]
    BY <2>2, WindowLen
  <2> QED
    BY <2>1, <2>3
<1>4. /\ SubSeq(s, 1, m) \in Seq(Storable) /\ Len(SubSeq(s, 1, m)) = m
      /\ \A i \in 1..m : SubSeq(s, 1, m)[i] = s[i]
  <2> HIDE DEF s
  <2> QED
    BY <1>1, <1>2, SubSeqProperties
<1>5. ASSUME NEW i \in 1..m
      PROVE  r[i] = SubSeq(s, 1, m)[i]
  <2>1. i - 1 \in 0..m - 1 /\ i \in 1..n
    BY <1>1
  <2>2. new[Mod(g + (i - 1), d)] = b[Mod(h + (i - 1), c)]
    BY <2>1 DEF Agree
  <2> HIDE DEF r, s
  <2> QED
    BY <1>2, <1>3, <1>4, <2>1, <2>2
<1> HIDE DEF r, s
<1>6. r = SubSeq(s, 1, m)
  BY <1>3, <1>4, <1>5, SeqEqual
<1> QED
  BY <1>6 DEF r, s, First

\* The oldest elements, left where they are.
LEMMA WindowPrefix ==
    ASSUME NEW c \in Nat \ {0}, NEW b \in [0..c - 1 -> Storable],
           NEW h \in 0..c - 1, NEW n \in 0..c, NEW m \in 0..n
    PROVE  Window(b, c, h, m) = First(Window(b, c, h, n), m)
<1>1. IsWindow(b, c, h, n) /\ IsWindow(b, c, h, m) /\ m <= n /\ Agree(b, c, h, b, c, h, m)
  BY DEF Agree, IsWindow
<1> QED
  BY <1>1, WindowMoved

LEMMA ContentsIsWindow ==
    ASSUME TypeOK
    PROVE  /\ Contents = Window(buffer, capacity, head, count)
           /\ Contents \in Seq(Storable)
           /\ Len(Contents) = count
           /\ \A i \in 1..count : Contents[i] = buffer[Mod(head + (i - 1), capacity)]
<1>1. Contents = Window(buffer, capacity, head, count)
  BY DEF Contents, Window, Slot, Mod
<1>2. /\ capacity \in Nat \ {0} /\ buffer \in [0..capacity - 1 -> Storable]
      /\ head \in 0..capacity - 1 /\ count \in 0..capacity
  BY Ranges DEF TypeOK, Storable
<1>3. Window(buffer, capacity, head, count) \in Seq(Storable)
  BY <1>2, WindowIsSeq
<1>4. Len(Window(buffer, capacity, head, count)) = count
  BY Ranges, WindowLen
<1>5. \A i \in 1..count : Contents[i] = buffer[Mod(head + (i - 1), capacity)]
  BY DEF Contents, Slot, Mod
<1> QED
  BY <1>1, <1>3, <1>4, <1>5

\* Full: the newest element takes the slot of the oldest.
LEMMA WindowOverwritten ==
    ASSUME NEW c \in Nat \ {0}, NEW b \in [0..c - 1 -> Storable], NEW h \in 0..c - 1,
           NEW v \in Storable
    PROVE  Window(Stored(b, h, v), c, Mod(h + 1, c), c) = Append(Tail(Window(b, c, h, c)), v)
<1> DEFINE k == Mod(h + 1, c)
<1>1. c - 1 \in 0..c - 1 /\ (c - 1) + 1 = c /\ c \in 0..c /\ c > 0
  OBVIOUS
<1>2. k \in 0..c - 1 /\ Mod(k + (c - 1), c) = h
  <2>1. Mod(k + (c - 1), c) = Mod(h + ((c - 1) + 1), c)
    BY <1>1, WindowNext
  <2>2. Mod(h + c, c) = h
    BY WindowRound
  <2>3. k \in 0..c - 1
    BY <1>1, WindowNext
  <2> QED
    BY <1>1, <2>1, <2>2, <2>3
<1>3. Window(b, c, k, c - 1) = Tail(Window(b, c, h, c))
  BY <1>1, WindowTail
<1> HIDE DEF k
<1>4. Window(Stored(b, Mod(k + (c - 1), c), v), c, k, (c - 1) + 1)
         = Append(Window(b, c, k, c - 1), v)
  BY <1>1, <1>2, WindowAppended
<1>5. Window(Stored(b, h, v), c, k, c) = Append(Tail(Window(b, c, h, c)), v)
  BY <1>1, <1>2, <1>3, <1>4
<1> QED
  BY <1>5 DEF k

-----------------------------------------------------------------------------
(* Each operation does to the elements what the bounded deque says.        *)

\* Before and after a call: the sequence the caller sees.
LEMMA Windows ==
    ASSUME Inv
    PROVE  /\ Contents = Window(buffer, capacity, head, count)
           /\ Contents' = Window(buffer', capacity', head', count')
           /\ Len(Contents) = count
           /\ capacity \in Nat \ {0} /\ capacity \in 1..MaxCapacity
           /\ buffer \in [0..capacity - 1 -> Storable]
           /\ head \in 0..capacity - 1 /\ count \in 0..capacity
<1>1. Contents' = Window(buffer', capacity', head', count')
  BY DEF Contents, Window, Slot, Mod
<1>2. TypeOK
  BY DEF Inv
<1> QED
  BY <1>1, <1>2, ContentsIsWindow, Ranges DEF TypeOK, Storable

LEMMA PushMaps ==
    ASSUME Inv, NEW v \in Values, pushBack(v)
    PROVE  Deque!Push
<1>1. /\ cursor' = None /\ capacity' = capacity /\ traits' = traits
      /\ v \in Storable
  BY DEF pushBack, Invalidate, Storable
<1>2. CASE full /\ ~traits.overwrites /\ out' = "rejected" /\ UNCHANGED <<buffer, indices>>
  <2>1. Contents' = Contents
    BY <1>1, <1>2, Windows DEF indices
  <2>2. Len(Contents) = capacity /\ capacity \in Nat
    BY <1>2, Windows DEF full
  <2> QED
    BY <1>1, <1>2, <2>1, <2>2 DEF Deque!Push, Deque!Becomes
<1>3. CASE full /\ traits.overwrites /\ OverwriteOldest(v) /\ out' = "accepted"
  <2>1. tail = head
    <3>1. Mod(head + capacity, capacity) = head
      BY Windows, WindowRound
    <3> QED
      BY <1>3, <3>1 DEF Inv, IndicesAgree, full, Mod
  <2>2. /\ buffer' = Stored(buffer, head, v)
        /\ head' = Mod(head + 1, capacity) /\ count' = capacity /\ count = capacity
    BY <1>3, <2>1 DEF OverwriteOldest, Store, Stored, Mod, full
  <2>3. Window(Stored(buffer, head, v), capacity, Mod(head + 1, capacity), capacity)
           = Append(Tail(Window(buffer, capacity, head, capacity)), v)
    BY <1>1, Windows, WindowOverwritten
  <2>4. Contents' = Append(Tail(Contents), v)
    BY <1>1, <2>2, <2>3, Windows
  <2>5. Len(Contents) = capacity /\ capacity \in Nat
    BY <2>2, Windows
  <2> QED
    BY <1>1, <1>3, <2>4, <2>5 DEF Deque!Push, Deque!Becomes
<1>4. CASE ~full /\ Store(v) /\ count' = count + 1 /\ head' = head /\ out' = "accepted"
  <2>1. count < capacity /\ count \in 0..capacity - 1
    BY <1>4, Windows DEF full
  <2>2. buffer' = Stored(buffer, Mod(head + count, capacity), v)
    BY <1>4 DEF Store, Stored, Inv, IndicesAgree, Mod
  <2>3. Window(Stored(buffer, Mod(head + count, capacity), v), capacity, head, count + 1)
           = Append(Window(buffer, capacity, head, count), v)
    BY <1>1, <2>1, Windows, WindowAppended
  <2>4. Contents' = Append(Contents, v)
    BY <1>1, <1>4, <2>2, <2>3, Windows
  <2>5. Len(Contents) < capacity /\ Len(Contents) # capacity
    BY <2>1, Windows
  <2> QED
    BY <1>1, <1>4, <2>4, <2>5 DEF Deque!Push, Deque!Becomes
<1> QED
  BY <1>2, <1>3, <1>4 DEF pushBack

LEMMA PopFrontMaps ==
    ASSUME Inv, popFront
    PROVE  Deque!PopFront
<1>1. /\ cursor' = None /\ capacity' = capacity /\ traits' = traits /\ buffer' = buffer
      /\ out' = out /\ count' = count - 1 /\ head' = Mod(head + 1, capacity)
  BY DEF popFront, Invalidate, storage, Mod
<1>2. count > 0
  BY Windows DEF popFront, empty
<1>3. Window(buffer, capacity, Mod(head + 1, capacity), count - 1)
         = Tail(Window(buffer, capacity, head, count))
  BY <1>2, Windows, WindowTail
<1>4. Contents' = Tail(Contents)
  BY <1>1, <1>3, Windows
<1>5. Contents # <<>>
  BY <1>2, Windows
<1> QED
  BY <1>1, <1>4, <1>5 DEF Deque!PopFront, Deque!Becomes

LEMMA PopBackMaps ==
    ASSUME Inv, popBack
    PROVE  Deque!PopBack
<1>1. /\ cursor' = None /\ capacity' = capacity /\ traits' = traits /\ buffer' = buffer
      /\ out' = out /\ count' = count - 1 /\ head' = head
  BY DEF popBack, Invalidate, storage
<1>2. count > 0 /\ count - 1 \in 0..count
  BY Windows DEF popBack, empty
<1>3. Window(buffer, capacity, head, count - 1)
         = First(Window(buffer, capacity, head, count), count - 1)
  BY <1>2, Windows, WindowPrefix
<1>4. Contents' = SubSeq(Contents, 1, Len(Contents) - 1)
  BY <1>1, <1>3, Windows DEF First
<1>5. Contents # <<>>
  BY <1>2, Windows
<1> QED
  BY <1>1, <1>4, <1>5 DEF Deque!PopBack, Deque!Becomes

LEMMA WindowEmpty ==
    ASSUME NEW c, NEW b, NEW h
    PROVE  Window(b, c, h, 0) = <<>>
  BY DEF Window

LEMMA ClearMaps ==
    ASSUME Inv, clear
    PROVE  Deque!Clear
<1>1. /\ cursor' = None /\ capacity' = capacity /\ traits' = traits /\ out' = out /\ count' = 0
  BY DEF clear, Invalidate
<1>2. Contents' = <<>>
  BY <1>1, Windows, WindowEmpty
<1> QED
  BY <1>1, <1>2 DEF Deque!Clear, Deque!Becomes

\* Both ways of copying, the two blocks and the loop, keep the oldest elements
\* in order, wherever the old window began and however it wrapped.
LEMMA RelocateMaps ==
    ASSUME Inv, NEW c \in 1..MaxCapacity, Relocate(c)
    PROVE  Deque!Resize
<1> DEFINE n == Kept(c)
<1>1. /\ n \in 0..count /\ n <= c /\ c \in Nat \ {0} /\ 0 \in 0..c - 1
      /\ n = IF count < c THEN count ELSE c
  BY Windows, ConstantsAssumption DEF Kept
<1>2. capacity' = c /\ head' = 0 /\ count' = n
      /\ cursor' = None /\ traits' = traits /\ out' = out
      /\ buffer' = IF traits.trivial THEN CopyBlocks(n, c) ELSE MoveEach(n, c)
  BY DEF Relocate, Invalidate
<1>3. buffer' \in [0..c - 1 -> Storable]
  <2>1. Inv'
    BY RelocateInv
  <2> QED
    BY <1>2, <2>1 DEF Inv, TypeOK, Storable
<1> HIDE DEF n
<1>4. ASSUME NEW i \in 0..n - 1
      PROVE  buffer'[Mod(0 + i, c)] = buffer[Mod(head + i, capacity)]
  <2>1. i \in 0..c /\ i \in 0..capacity /\ i \in 0..c - 1 /\ i < n
    BY <1>1, Windows
  <2>2. Mod(0 + i, c) = i
    BY <1>1, <2>1, WindowEnd
  <2>3. Mod(head + i, capacity) = IF head + i < capacity THEN head + i ELSE head + i - capacity
    BY <2>1, Windows, WindowEnd
  <2>4. MoveEach(n, c)[i] = buffer[Mod(head + i, capacity)]
    BY <2>1 DEF MoveEach, Slot, Mod
  <2>5. CopyBlocks(n, c)[i] = buffer[Mod(head + i, capacity)]
    <3>1. CopyBlocks(n, c)[i] = CASE i < FirstBlock(n) -> buffer[head + i]
                                  [] FirstBlock(n) <= i /\ i < n -> buffer[i - FirstBlock(n)]
                                  [] OTHER -> Default
      BY <2>1 DEF CopyBlocks
    <3>2. /\ FirstBlock(n) \in Int
          /\ i < FirstBlock(n) <=> head + i < capacity
          /\ head + i >= capacity => i - FirstBlock(n) = head + i - capacity
      BY <1>1, <2>1, Windows DEF FirstBlock
    <3>3. CASE head + i < capacity
      BY <2>3, <3>1, <3>2, <3>3
    <3>4. CASE ~(head + i < capacity)
      <4>1. FirstBlock(n) <= i /\ ~(i < FirstBlock(n)) /\ i - FirstBlock(n) = head + i - capacity
        BY <2>1, <3>2, <3>4, Windows
      <4> QED
        BY <2>1, <2>3, <3>1, <3>4, <4>1
    <3> QED
      BY <3>3, <3>4
  <2> QED
    BY <1>2, <2>2, <2>4, <2>5
<1>5. Window(buffer', capacity', head', count')
         = First(Window(buffer, capacity, head, count), count')
  <2>1. Agree(buffer', capacity', head', buffer, capacity, head, count')
    BY <1>2, <1>4 DEF Agree
  <2>2. IsWindow(buffer', capacity', head', count') /\ count' <= count
    BY <1>1, <1>2, <1>3, Windows DEF IsWindow
  <2>3. IsWindow(buffer, capacity, head, count)
    BY Windows DEF IsWindow
  <2> QED
    BY <2>1, <2>2, <2>3, WindowMoved
<1>6. Contents' = SubSeq(Contents, 1, IF Len(Contents) < c THEN Len(Contents) ELSE c)
  BY <1>1, <1>2, <1>5, Windows DEF First
<1> QED
  BY <1>2, <1>6 DEF Deque!Resize, Deque!Becomes

LEMMA LookMaps ==
    ASSUME Inv, Look
    PROVE  Deque!Read
<1>1. PICK k \in 0..count - 1 : Reads(Mod(head + k, capacity))
  BY LookReads
<1>2. k + 1 \in 1..count /\ (k + 1) - 1 = k
  BY Windows
<1>3. Contents[k + 1] = buffer[Mod(head + k, capacity)]
  BY <1>2, ContentsIsWindow DEF Inv
<1>4. UNCHANGED <<Contents, capacity, traits, cursor>>
  BY <1>1, Windows DEF Reads, storage, indices
<1>5. out' = Contents[k + 1]
  BY <1>1, <1>3 DEF Reads
<1>6. k + 1 \in 1..Len(Contents)
  BY <1>2, Windows
<1> QED
  BY <1>4, <1>5, <1>6 DEF Deque!Read

LEMMA MoveMaps ==
    ASSUME Inv, Move
    PROVE  Deque!Iterate
<1>1. PICK k \in 0..count : PointsAt(Mod(head + k, capacity), k)
  BY MovePoints
<1>2. k \in 0..capacity /\ k \in Nat
  BY Windows
<1>3. Mod(head + k, capacity) \in Nat
  <2>1. Mod(head + k, capacity) \in 0..capacity - 1
    BY <1>2, Windows, WindowRange
  <2> QED
    BY <2>1, Windows
<1>4. cursor' # None /\ cursor'.fromStart = k
  BY <1>1, <1>2, <1>3, ConstantsAssumption DEF PointsAt
<1>5. UNCHANGED <<Contents, capacity, traits, out>>
  BY <1>1, Windows DEF PointsAt, storage, indices
<1>6. k \in 0..Len(Contents)
  BY Windows
<1> QED
  BY <1>4, <1>5, <1>6 DEF Deque!Iterate

\* Seen through its operations a ring buffer is a bounded deque, whatever its
\* capacity, its overflow policy and its element type: no sequence of pushes,
\* pops, clears, resizes, reads and iterator steps can tell it from one.
THEOREM RefinesDeque == Spec => ImplementsDeque
<1>1. Init => Deque!Init
  <2> SUFFICES ASSUME Init PROVE Deque!Init
    OBVIOUS
  <2>1. Inv
    BY InitInv
  <2>2. Contents = <<>>
    BY <2>1, Windows, WindowEmpty DEF Init
  <2> QED
    BY <2>1, <2>2 DEF Init, Inv, TypeOK, Deque!Init
<1>2. Inv /\ [Next]_vars => [Deque!Next]_Deque!vars
  <2> SUFFICES ASSUME Inv, [Next]_vars PROVE [Deque!Next]_Deque!vars
    OBVIOUS
  <2>1. ASSUME NEW v \in Values, pushBack(v) PROVE Deque!Next
    BY <2>1, PushMaps DEF Deque!Next
  <2>2. CASE popFront
    BY <2>2, PopFrontMaps DEF Deque!Next
  <2>3. CASE popBack
    BY <2>3, PopBackMaps DEF Deque!Next
  <2>4. CASE clear
    BY <2>4, ClearMaps DEF Deque!Next
  <2>5. ASSUME NEW c \in 0..MaxCapacity, resize(c) PROVE Deque!Next
    BY <2>5, RelocateMaps, ConstantsAssumption DEF resize, Deque!Next
  <2>6. CASE shrinkToFit
    <3> DEFINE c == IF count > 0 THEN count ELSE 1
    <3>1. c \in 1..MaxCapacity
      BY ConstantsAssumption DEF Inv, TypeOK
    <3>2. Relocate(c)
      BY <2>6 DEF shrinkToFit, resize
    <3> QED
      BY <3>1, <3>2, RelocateMaps DEF Deque!Next
  <2>7. CASE Look
    BY <2>7, LookMaps DEF Deque!Next
  <2>8. CASE Move
    BY <2>8, MoveMaps DEF Deque!Next
  <2>9. CASE UNCHANGED vars
    <3>1. Contents' = Contents
      BY <2>9, Windows DEF vars
    <3> QED
      BY <2>9, <3>1 DEF vars, Deque!vars
  <2> QED
    BY <2>1, <2>2, <2>3, <2>4, <2>5, <2>6, <2>7, <2>8, <2>9 DEF Next, Modify
<1> QED
  BY <1>1, <1>2, Inductive, PTL DEF Spec, ImplementsDeque, Deque!Spec

(****************************************************************************)
(* The buffers.  Everything is said of cells first: what the helpers of    *)
(* memory.h leave of storage of which the first n cells hold an object.    *)
(****************************************************************************)

\* What an object holds: a value, or what a move leaves of it.
Living == Elements \cup {Moved}
\* What a cell can be, an object or not.
AnyCell == Living \cup {Raw, Bad}

\* Cells of which exactly the first n hold an object.
Filled(m, n) ==
  /\ m \in Seq(AnyCell) /\ n \in 0 .. Len(m)
  /\ \A i \in 1 .. Len(m) : IF i <= n THEN m[i] \in Living ELSE m[i] = Raw

\* An object is told from what is none.
LEMMA LivingIsAlive ==
  /\ \A v \in Living : Alive(v) /\ v # Raw /\ v # Bad
  /\ ~ Alive(Raw) /\ ~ Alive(Bad) /\ Raw # Bad
BY BufferAssumption DEF Living, Alive

\* What a construction and an assignment leave in a cell.
LEMMA Overwrites ==
    ASSUME NEW v \in Living
    PROVE  /\ ConstructOver(Raw, v) = v
           /\ \A old \in Living : AssignOver(old, v) = v
BY LivingIsAlive DEF ConstructOver, AssignOver

\* Cells given one by one.
LEMMA CellsAreSeq ==
    ASSUME NEW T, NEW n \in Nat, NEW c \in [1 .. n -> T]
    PROVE  c \in Seq(T) /\ Len(c) = n /\ DOMAIN c = 1 .. n
<1>1. c \in Seq(T)
  OBVIOUS
<1> QED
  BY <1>1, LenProperties

\* When every one is what it should be, so are all.
LEMMA FilledByCells ==
    ASSUME NEW L \in Nat, NEW n \in 0 .. L, NEW c, c = [i \in 1 .. L |-> c[i]],
           \A i \in 1 .. L : IF i <= n THEN c[i] \in Living ELSE c[i] = Raw
    PROVE  Filled(c, n) /\ Len(c) = L
<1>1. c \in [1 .. L -> AnyCell]
  BY DEF AnyCell
<1>2. c \in Seq(AnyCell) /\ Len(c) = L
  BY <1>1, CellsAreSeq
<1> QED
  BY <1>2 DEF Filled

\* The same, of cells that are spoken of by a name.
FilledTo(c, L, n) ==
  /\ c = [i \in 1 .. L |-> c[i]]
  /\ \A i \in 1 .. L : IF i <= n THEN c[i] \in Living ELSE c[i] = Raw
LEMMA FilledToIs ==
    ASSUME NEW L \in Nat, NEW n \in 0 .. L, NEW c, FilledTo(c, L, n)
    PROVE  Filled(c, n) /\ Len(c) = L
  BY FilledByCells DEF FilledTo

\* What is said of such cells, one fact at a time.
LEMMA FilledIs ==
    ASSUME NEW m, NEW n, Filled(m, n)
    PROVE  /\ m \in Seq(AnyCell) /\ Len(m) \in Nat /\ DOMAIN m = 1 .. Len(m)
           /\ n \in Nat /\ n <= Len(m)
           /\ \A i \in 1 .. n : m[i] \in Living
           /\ \A i \in n + 1 .. Len(m) : m[i] = Raw
<1>1. m \in Seq(AnyCell)
  BY DEF Filled
<1>2. Len(m) \in Nat /\ DOMAIN m = 1 .. Len(m)
  BY <1>1, LenProperties
<1> QED
  BY <1>1, <1>2 DEF Filled

\* New storage.
LEMMA RawIsFilled ==
    ASSUME NEW n \in Nat
    PROVE  Filled(RawCells(n), 0) /\ Len(RawCells(n)) = n
<1> DEFINE c == RawCells(n)
<1>1. c = [i \in 1 .. n |-> c[i]] /\ \A i \in 1 .. n : c[i] = Raw
  BY DEF RawCells
<1> HIDE DEF c
<1>2. Filled(c, 0) /\ Len(c) = n
  BY <1>1, FilledByCells
<1> QED
  BY <1>2 DEF c

\* Objects constructed behind the last one.
LEMMA ConstructedFilled ==
    ASSUME NEW m, NEW n, Filled(m, n), NEW vs \in Seq(Living), n + Len(vs) <= Len(m)
    PROVE  LET c == ConstructCells(m, n, vs)
           IN Filled(c, n + Len(vs)) /\ Len(c) = Len(m)
<1> DEFINE L == Len(m)
           c == ConstructCells(m, n, vs)
<1>1. /\ L \in Nat /\ DOMAIN m = 1 .. L /\ n \in Nat
      /\ \A i \in 1 .. n : m[i] \in Living
      /\ \A i \in n + 1 .. L : m[i] = Raw
  BY FilledIs
<1>2. /\ Len(vs) \in Nat /\ DOMAIN vs = 1 .. Len(vs)
      /\ \A k \in 1 .. Len(vs) : vs[k] \in Living
  BY LenProperties, ElementOfSeq
<1>3. c = [i \in 1 .. L |-> IF i - n \in 1 .. Len(vs) THEN ConstructOver(m[i], vs[i - n]) ELSE m[i]]
  BY <1>1, <1>2 DEF ConstructCells
<1>4. c = [i \in 1 .. L |-> c[i]]
  BY <1>3
<1>5. ASSUME NEW i \in 1 .. L
      PROVE  c[i] = IF i - n \in 1 .. Len(vs) THEN ConstructOver(m[i], vs[i - n]) ELSE m[i]
  BY <1>3
<1> HIDE DEF c
<1>6. ASSUME NEW i \in 1 .. L
      PROVE  IF i <= n + Len(vs) THEN c[i] \in Living ELSE c[i] = Raw
  <2>1. CASE i <= n
    BY <1>1, <1>2, <1>5, <2>1
  <2>2. CASE i > n /\ i <= n + Len(vs)
    <3>1. m[i] = Raw /\ i - n \in 1 .. Len(vs) /\ vs[i - n] \in Living
      BY <1>1, <1>2, <2>2
    <3> QED
      BY <1>5, <2>2, <3>1, Overwrites
  <2>3. CASE i > n + Len(vs)
    BY <1>1, <1>2, <1>5, <2>3
  <2> QED
    BY <1>1, <1>2, <2>1, <2>2, <2>3
<1>7. Filled(c, n + Len(vs)) /\ Len(c) = L
  <2>1. FilledTo(c, L, n + Len(vs))
    BY <1>4, <1>6 DEF FilledTo
  <2>2. n + Len(vs) \in 0 .. L
    BY <1>1, <1>2
  <2> QED
    BY <1>1, <2>1, <2>2, FilledToIs
<1> QED
  BY <1>7 DEF c

\* One object constructed behind the last one.
LEMMA ConstructedAtFilled ==
    ASSUME NEW m, NEW n, Filled(m, n), NEW v \in Living, n < Len(m)
    PROVE  LET c == ConstructAt(m, n + 1, v)
           IN Filled(c, n + 1) /\ Len(c) = Len(m)
<1> DEFINE L == Len(m)
           c == ConstructAt(m, n + 1, v)
<1>1. /\ L \in Nat /\ DOMAIN m = 1 .. L /\ n \in Nat /\ m \in Seq(AnyCell)
      /\ \A i \in 1 .. n : m[i] \in Living
      /\ \A i \in n + 1 .. L : m[i] = Raw
  BY FilledIs
<1>2. c = [i \in 1 .. L |-> IF i = n + 1 THEN ConstructOver(m[i], v) ELSE m[i]]
  BY <1>1 DEF ConstructAt
<1>3. c = [i \in 1 .. L |-> c[i]]
  BY <1>2
<1>4. ASSUME NEW i \in 1 .. L PROVE c[i] = IF i = n + 1 THEN ConstructOver(m[i], v) ELSE m[i]
  BY <1>2
<1> HIDE DEF c
<1>5. ASSUME NEW i \in 1 .. L PROVE IF i <= n + 1 THEN c[i] \in Living ELSE c[i] = Raw
  <2>1. CASE i = n + 1
    BY <1>1, <1>4, <2>1, Overwrites
  <2>2. CASE i # n + 1
    BY <1>1, <1>4, <2>2
  <2> QED
    BY <2>1, <2>2
<1>6. Filled(c, n + 1) /\ Len(c) = L
  <2>1. FilledTo(c, L, n + 1)
    BY <1>3, <1>5 DEF FilledTo
  <2>2. n + 1 \in 0 .. L
    BY <1>1
  <2> QED
    BY <1>1, <2>1, <2>2, FilledToIs
<1> QED
  BY <1>6 DEF c

\* The last objects destroyed.
LEMMA DestroyedFilled ==
    ASSUME NEW m, NEW n, Filled(m, n), NEW k \in 0 .. n
    PROVE  LET c == DestroyCells(m, k + 1 .. n)
           IN Filled(c, k) /\ Len(c) = Len(m)
<1> DEFINE L == Len(m)
           c == DestroyCells(m, k + 1 .. n)
<1>1. /\ L \in Nat /\ DOMAIN m = 1 .. L /\ n \in Nat /\ n <= L
      /\ \A i \in 1 .. n : m[i] \in Living
      /\ \A i \in n + 1 .. L : m[i] = Raw
  BY FilledIs
<1>2. c = [i \in 1 .. L |-> IF i \in k + 1 .. n THEN (IF Alive(m[i]) THEN Raw ELSE Bad) ELSE m[i]]
  BY <1>1 DEF DestroyCells
<1>3. c = [i \in 1 .. L |-> c[i]]
  BY <1>2
<1>4. ASSUME NEW i \in 1 .. L
      PROVE  c[i] = IF i \in k + 1 .. n THEN (IF Alive(m[i]) THEN Raw ELSE Bad) ELSE m[i]
  BY <1>2
<1> HIDE DEF c
<1>5. ASSUME NEW i \in 1 .. L PROVE IF i <= k THEN c[i] \in Living ELSE c[i] = Raw
  <2>1. CASE i \in k + 1 .. n
    BY <1>1, <1>4, <2>1, LivingIsAlive
  <2>2. CASE i \notin k + 1 .. n
    BY <1>1, <1>4, <2>2
  <2> QED
    BY <2>1, <2>2
<1>6. Filled(c, k) /\ Len(c) = L
  BY <1>1, <1>3, <1>5, FilledByCells
<1> QED
  BY <1>6 DEF c

\* Objects moved from, or assigned to, are objects.
LEMMA MovedFromFilled ==
    ASSUME NEW m, NEW n, Filled(m, n), NEW from \in Nat, NEW k \in Nat, from + k <= n
    PROVE  LET c == MovedFrom(m, from, k)
           IN /\ Filled(c, n) /\ Len(c) = Len(m)
              /\ \A i \in 1 .. Len(m) : c[i] = IF i \in from + 1 .. from + k THEN Moved ELSE m[i]
<1> DEFINE L == Len(m)
           c == MovedFrom(m, from, k)
<1>1. /\ L \in Nat /\ DOMAIN m = 1 .. L /\ n \in Nat /\ n <= L
      /\ \A i \in 1 .. n : m[i] \in Living
      /\ \A i \in n + 1 .. L : m[i] = Raw
  BY FilledIs
<1>2. c = [i \in 1 .. L |-> IF i \in from + 1 .. from + k THEN Moved ELSE m[i]]
  BY <1>1 DEF MovedFrom
<1>3. c = [i \in 1 .. L |-> c[i]]
  BY <1>2
<1>4. \A i \in 1 .. L : c[i] = IF i \in from + 1 .. from + k THEN Moved ELSE m[i]
  BY <1>2
<1> HIDE DEF c
<1>5. ASSUME NEW i \in 1 .. L PROVE IF i <= n THEN c[i] \in Living ELSE c[i] = Raw
  BY <1>1, <1>4 DEF Living
<1>6. Filled(c, n) /\ Len(c) = L
  BY <1>1, <1>3, <1>5, FilledByCells
<1> QED
  BY <1>4, <1>6 DEF c

\* Values assigned over objects, which must be there.
LEMMA AssignedFilled ==
    ASSUME NEW m, NEW n, Filled(m, n), NEW vs \in Seq(Living), Len(vs) <= n
    PROVE  LET c == AssignCells(m, vs)
           IN Filled(c, n) /\ Len(c) = Len(m)
<1> DEFINE L == Len(m)
           c == AssignCells(m, vs)
<1>1. /\ L \in Nat /\ DOMAIN m = 1 .. L /\ n \in Nat /\ n <= L
      /\ \A i \in 1 .. n : m[i] \in Living
      /\ \A i \in n + 1 .. L : m[i] = Raw
  BY FilledIs
<1>2. /\ Len(vs) \in Nat /\ DOMAIN vs = 1 .. Len(vs)
      /\ \A k \in 1 .. Len(vs) : vs[k] \in Living
  BY LenProperties, ElementOfSeq
<1>3. c = [i \in 1 .. L |-> IF i \in 1 .. Len(vs) THEN AssignOver(m[i], vs[i]) ELSE m[i]]
  BY <1>1, <1>2 DEF AssignCells
<1>4. c = [i \in 1 .. L |-> c[i]]
  BY <1>3
<1>5. ASSUME NEW i \in 1 .. L
      PROVE  c[i] = IF i \in 1 .. Len(vs) THEN AssignOver(m[i], vs[i]) ELSE m[i]
  BY <1>3
<1> HIDE DEF c
<1>6. ASSUME NEW i \in 1 .. L PROVE IF i <= n THEN c[i] \in Living ELSE c[i] = Raw
  <2>1. CASE i \in 1 .. Len(vs)
    BY <1>1, <1>2, <1>5, <2>1, Overwrites
  <2>2. CASE i \notin 1 .. Len(vs)
    BY <1>1, <1>5, <2>2
  <2> QED
    BY <2>1, <2>2
<1>7. Filled(c, n) /\ Len(c) = L
  BY <1>1, <1>4, <1>6, FilledByCells
<1> QED
  BY <1>7 DEF c

\* Objects moved over others.
LEMMA MovedOverFilled ==
    ASSUME NEW m, NEW n, Filled(m, n), NEW to \in Nat, NEW from \in Nat, NEW k \in Nat,
           to + k <= n, from + k <= n
    PROVE  LET c == MoveObjects(m, to, from, k, AssignOver)
           IN Filled(c, n) /\ Len(c) = Len(m)
<1> DEFINE L == Len(m)
           left == MovedFrom(m, from, k)
           c == MoveObjects(m, to, from, k, AssignOver)
<1>1. /\ L \in Nat /\ DOMAIN m = 1 .. L /\ n \in Nat /\ n <= L
      /\ \A i \in 1 .. n : m[i] \in Living
      /\ \A i \in n + 1 .. L : m[i] = Raw
  BY FilledIs
<1>2. Filled(left, n) /\ Len(left) = L
  BY MovedFromFilled
<1>3. c = [i \in 1 .. L |-> IF i \in to + 1 .. to + k THEN AssignOver(left[i], m[i - to + from]) ELSE left[i]]
  BY <1>1 DEF MoveObjects
<1> HIDE DEF left
<1>4. /\ \A i \in 1 .. n : left[i] \in Living
      /\ \A i \in n + 1 .. L : left[i] = Raw
  BY <1>2, FilledIs
<1>5. c = [i \in 1 .. L |-> c[i]]
  BY <1>3
<1>6. ASSUME NEW i \in 1 .. L
      PROVE  c[i] = IF i \in to + 1 .. to + k THEN AssignOver(left[i], m[i - to + from]) ELSE left[i]
  BY <1>3
<1> HIDE DEF c
<1>7. ASSUME NEW i \in 1 .. L PROVE IF i <= n THEN c[i] \in Living ELSE c[i] = Raw
  <2>1. CASE i \in to + 1 .. to + k
    <3>1. i - to + from \in 1 .. n /\ i \in 1 .. n
      BY <1>1, <2>1
    <3>2. m[i - to + from] \in Living /\ left[i] \in Living
      BY <1>1, <1>4, <3>1
    <3> QED
      BY <1>6, <2>1, <3>1, <3>2, Overwrites
  <2>2. CASE i \notin to + 1 .. to + k
    BY <1>1, <1>4, <1>6, <2>2
  <2> QED
    BY <2>1, <2>2
<1>8. Filled(c, n) /\ Len(c) = L
  <2>1. FilledTo(c, L, n)
    BY <1>5, <1>7 DEF FilledTo
  <2>2. n \in 0 .. L
    BY <1>1
  <2> QED
    BY <1>1, <2>1, <2>2, FilledToIs
<1> QED
  BY <1>8 DEF c

\* One object put in the place of another.
LEMMA ReplacedFilled ==
    ASSUME NEW m, NEW n, Filled(m, n), NEW i \in 1 .. n, NEW v \in Living
    PROVE  LET c == ConstructAt(DestroyCells(m, {i}), i, v)
           IN Filled(c, n) /\ Len(c) = Len(m)
<1> DEFINE L == Len(m)
           d == DestroyCells(m, {i})
           c == ConstructAt(d, i, v)
<1>1. /\ L \in Nat /\ DOMAIN m = 1 .. L /\ n \in Nat /\ n <= L
      /\ \A j \in 1 .. n : m[j] \in Living
      /\ \A j \in n + 1 .. L : m[j] = Raw
  BY FilledIs
<1>2. d = [j \in 1 .. L |-> IF j = i THEN Raw ELSE m[j]]
  BY <1>1, LivingIsAlive DEF DestroyCells
<1>3. c = [j \in 1 .. L |-> IF j = i THEN ConstructOver(Raw, v) ELSE m[j]]
  <2> HIDE DEF d
  <2> QED
    BY <1>1, <1>2 DEF ConstructAt
<1> HIDE DEF d
<1>4. c = [j \in 1 .. L |-> IF j = i THEN v ELSE m[j]]
  BY <1>3, Overwrites
<1>5. c = [j \in 1 .. L |-> c[j]]
  BY <1>4
<1>6. ASSUME NEW j \in 1 .. L PROVE IF j <= n THEN c[j] \in Living ELSE c[j] = Raw
  BY <1>1, <1>4
<1> HIDE DEF c
<1>7. Filled(c, n) /\ Len(c) = L
  BY <1>1, <1>5, <1>6, FilledByCells
<1> QED
  BY <1>7 DEF c, d

(****************************************************************************)
(* The buffers' own storage: reserving, relocating, clearing, shrinking.   *)
(****************************************************************************)

\* How many cells a buffer has that has not gone to the heap.
InlineSize == IF kind = "dynamic" THEN 0 ELSE InlineCapacity

\* The objects every call leaves: exactly the cells below the size hold one,
\* and what is not on the heap is the inline storage.
Buffers ==
  {b \in [cells : Seq(AnyCell), size : Nat, heap : BOOLEAN] :
     /\ Filled(b.cells, b.size)
     /\ ~ b.heap => Len(b.cells) = InlineSize
     /\ kind = "fixed" => ~ b.heap}

\* How a call can end: on such a buffer, whatever it did.
Outcomes == [to : Buffers, how : {"returned", "threw", "broken", "freed"}]

\* The inline storage has a size.
LEMMA InlineIs ==
  /\ InlineSize \in Nat
  /\ Filled(InlineCells, 0) /\ Len(InlineCells) = InlineSize
BY RawIsFilled, BufferAssumption DEF InlineCells, InlineSize

\* What is said of a buffer, one fact at a time.
LEMMA BufferIs ==
    ASSUME NEW b \in Buffers
    PROVE  /\ b \in [cells : Seq(AnyCell), size : Nat, heap : BOOLEAN]
           /\ Filled(b.cells, b.size) /\ Capacity(b) = Len(b.cells)
           /\ Len(b.cells) \in Nat /\ b.size \in Nat /\ b.size <= Len(b.cells)
           /\ DOMAIN b.cells = 1 .. Len(b.cells)
           /\ \A i \in 1 .. b.size : b.cells[i] \in Living
           /\ b.heap \in BOOLEAN
           /\ ~ b.heap => Len(b.cells) = InlineSize
           /\ kind = "fixed" => ~ b.heap /\ Len(b.cells) = InlineCapacity
<1>1. Filled(b.cells, b.size)
  BY DEF Buffers
<1> QED
  BY <1>1, FilledIs DEF Buffers, Capacity, InlineSize

\* The elements, or the last of them, as arguments of a call.
LEMMA HeldAreLiving ==
    ASSUME NEW b \in Buffers, NEW i \in 0 .. b.size, NEW j \in i .. b.size
    PROVE  /\ SubSeq(b.cells, i + 1, j) \in Seq(Living)
           /\ Len(SubSeq(b.cells, i + 1, j)) = j - i
<1>1. b.size \in Nat /\ \A k \in 1 .. b.size : b.cells[k] \in Living
  BY BufferIs
<1>2. i + 1 \in Int /\ j \in Int /\ \A k \in i + 1 .. j : b.cells[k] \in Living
  BY <1>1
<1>3. /\ SubSeq(b.cells, i + 1, j) \in Seq(Living)
      /\ Len(SubSeq(b.cells, i + 1, j)) = IF i + 1 <= j THEN j - (i + 1) + 1 ELSE 0
  BY <1>2, SubSeqProperties
<1> QED
  BY <1>1, <1>3

\* A buffer made of its fields.
LEMMA BufferMade ==
    ASSUME NEW c, NEW n, Filled(c, n), NEW heap \in BOOLEAN,
           ~ heap => Len(c) = InlineSize, kind = "fixed" => ~ heap
    PROVE  [cells |-> c, size |-> n, heap |-> heap] \in Buffers
<1>1. c \in Seq(AnyCell) /\ n \in Nat
  BY FilledIs
<1> QED
  BY <1>1 DEF Buffers

\* An object whose cells, or whose cells and size, have been replaced.
Edited(b, c, n) == [b EXCEPT !.cells = c, !.size = n]
\* A call that leaves the size alone.
CellsTo(b, c) == [b EXCEPT !.cells = c]

\* A buffer whose cells agree with its size is one, on the storage it had.
LEMMA BufferEdited ==
    ASSUME NEW b \in Buffers, NEW c, NEW n, Filled(c, n), Len(c) = Len(b.cells)
    PROVE  /\ Edited(b, c, n) \in Buffers
           /\ Edited(b, c, n).cells = c /\ Edited(b, c, n).size = n /\ Edited(b, c, n).heap = b.heap
<1> DEFINE e == Edited(b, c, n)
<1>1. /\ b \in [cells : Seq(AnyCell), size : Nat, heap : BOOLEAN]
      /\ b.heap \in BOOLEAN
      /\ ~ b.heap => Len(c) = InlineSize
      /\ kind = "fixed" => ~ b.heap
  BY BufferIs
<1>2. c \in Seq(AnyCell) /\ n \in Nat
  BY FilledIs
<1>3. /\ e.cells = c /\ e.size = n /\ e.heap = b.heap
      /\ e \in [cells : Seq(AnyCell), size : Nat, heap : BOOLEAN]
  BY <1>1, <1>2 DEF Edited
<1> HIDE DEF e
<1>4. e = [cells |-> c, size |-> n, heap |-> b.heap]
  <2>1. e = [cells |-> e.cells, size |-> e.size, heap |-> e.heap]
    BY <1>3
  <2> QED
    BY <1>3, <2>1
<1>5. [cells |-> c, size |-> n, heap |-> b.heap] \in Buffers
  BY <1>1, BufferMade
<1>6. e \in Buffers
  BY <1>4, <1>5
<1> QED
  BY <1>3, <1>6 DEF e

\* So is one whose cells were written and still hold as many objects.
LEMMA CellsEdited ==
    ASSUME NEW b \in Buffers, NEW c, Filled(c, b.size), Len(c) = Len(b.cells)
    PROVE  CellsTo(b, c) \in Buffers /\ CellsTo(b, c).cells = c /\ CellsTo(b, c).size = b.size
<1> DEFINE e == CellsTo(b, c)
<1>1. /\ b \in [cells : Seq(AnyCell), size : Nat, heap : BOOLEAN]
      /\ b.heap \in BOOLEAN
      /\ ~ b.heap => Len(c) = InlineSize
      /\ kind = "fixed" => ~ b.heap
  BY BufferIs
<1>2. e = [cells |-> c, size |-> b.size, heap |-> b.heap]
  BY <1>1 DEF CellsTo
<1>3. [cells |-> c, size |-> b.size, heap |-> b.heap] \in Buffers
  BY <1>1, BufferMade
<1> QED
  BY <1>2, <1>3

\* The state after construction.
LEMMA EmptyIsBuffer ==
  Empty \in Buffers /\ Empty.size = 0 /\ ~ Empty.heap
<1>1. [cells |-> InlineCells, size |-> 0, heap |-> FALSE] \in Buffers
  BY InlineIs, BufferMade
<1> QED
  BY <1>1 DEF Empty

\* What an operation of the element type may add is among what is listed.
LEMMA MayThrowListed ==
    ASSUME NEW operation, NEW outcomes
    PROVE  MayThrow(operation, outcomes) \subseteq outcomes
BY DEF MayThrow

\* An outcome has the buffer and the ending it was given.
LEMMA OutcomeIs ==
    ASSUME NEW b \in Buffers, NEW r, NEW h \in {"returned", "threw", "broken", "freed"}, r \in Outcome(b, h)
    PROVE  r \in Outcomes /\ r.to = b /\ r.how = h
BY DEF Outcome, Outcomes

\* Storage --------------------------------------------------------------

\* Relocation: an element that throws leaves the old storage as it was.
LEMMA RelocateSafe ==
    ASSUME NEW b \in Buffers, NEW room \in Nat, b.size <= room, NEW heap \in BOOLEAN,
           ~ heap => room = InlineSize, kind = "fixed" => ~ heap,
           NEW r \in RelocateTo(b, room, heap)
    PROVE  /\ r \in Outcomes /\ r.how # "freed"
           /\ r.how = "returned" => /\ r.to.size = b.size /\ Len(r.to.cells) = room
                                    /\ r.to.heap = heap
<1> DEFINE c == ConstructCells(RawCells(room), 0, Held(b))
           done == [b EXCEPT !.cells = c, !.heap = heap]
           Stopped(k) == [b EXCEPT !.cells = MovedFrom(b.cells, 0, k)]
           h == IF heap THEN "threw" ELSE "broken"
<1>1. /\ b \in [cells : Seq(AnyCell), size : Nat, heap : BOOLEAN]
      /\ Filled(b.cells, b.size) /\ b.size \in Nat
  BY BufferIs
<1>2. done \in Buffers /\ done.size = b.size /\ Len(done.cells) = room /\ done.heap = heap
  <2>1. Held(b) \in Seq(Living) /\ Len(Held(b)) = b.size
    <3>1. 0 \in 0 .. b.size /\ b.size \in 0 .. b.size
      BY <1>1
    <3>2. SubSeq(b.cells, 0 + 1, b.size) \in Seq(Living) /\ Len(SubSeq(b.cells, 0 + 1, b.size)) = b.size - 0
      BY <3>1, HeldAreLiving
    <3> QED
      BY <1>1, <3>2 DEF Held
  <2>2. Filled(RawCells(room), 0) /\ Len(RawCells(room)) = room
    BY RawIsFilled
  <2>3. Filled(c, 0 + Len(Held(b))) /\ Len(c) = room
    BY <1>1, <2>1, <2>2, ConstructedFilled
  <2> HIDE DEF c
  <2>4. Filled(c, b.size)
    BY <1>1, <2>1, <2>3
  <2>5. done = [cells |-> c, size |-> b.size, heap |-> heap]
    <3>1. c \in Seq(AnyCell)
      BY <2>4, FilledIs
    <3>2. /\ done.cells = c /\ done.size = b.size /\ done.heap = heap
          /\ done \in [cells : Seq(AnyCell), size : Nat, heap : BOOLEAN]
      BY <1>1, <3>1
    <3> HIDE DEF done
    <3>3. done = [cells |-> done.cells, size |-> done.size, heap |-> done.heap]
      BY <3>2
    <3> QED
      BY <3>2, <3>3
  <2>6. [cells |-> c, size |-> b.size, heap |-> heap] \in Buffers
    BY <2>3, <2>4, BufferMade
  <2> QED
    BY <2>3, <2>5, <2>6
<1>3. ASSUME NEW k \in 0 .. b.size - 1 PROVE Stopped(k) \in Buffers
  <2> DEFINE m == MovedFrom(b.cells, 0, k)
  <2>1. 0 \in Nat /\ k \in Nat /\ 0 + k <= b.size
    BY <1>1
  <2>2. Filled(m, b.size) /\ Len(m) = Len(b.cells)
    BY <1>1, <2>1, MovedFromFilled
  <2> HIDE DEF m
  <2>3. CellsTo(b, m) \in Buffers
    BY <2>2, CellsEdited
  <2> QED
    BY <2>3 DEF m, CellsTo
<1>4. \/ r = [to |-> done, how |-> "returned"]
      \/ \E k \in 0 .. b.size - 1 : r = [to |-> Stopped(k), how |-> h]
  BY DEF RelocateTo, Returns, Outcome, MayThrow
<1> HIDE DEF done, Stopped
<1>5. CASE r = [to |-> done, how |-> "returned"]
  BY <1>2, <1>5 DEF Outcomes
<1>6. CASE \E k \in 0 .. b.size - 1 : r = [to |-> Stopped(k), how |-> h]
  BY <1>3, <1>6 DEF Outcomes
<1> QED
  BY <1>4, <1>5, <1>6

\* Onto the heap, for the kinds that grow.
LEMMA RelocateToHeap ==
    ASSUME NEW b \in Buffers, NEW room \in Nat, b.size <= room, kind # "fixed",
           NEW r \in RelocateTo(b, room, TRUE)
    PROVE  /\ r \in Outcomes /\ r.how # "freed"
           /\ r.how = "returned" => r.to.size = b.size /\ Len(r.to.cells) = room
<1>1. TRUE \in BOOLEAN
  OBVIOUS
<1> QED
  BY <1>1, RelocateSafe

\* reserve() keeps the elements and has room for what was asked.
LEMMA ReserveSafe ==
    ASSUME NEW b \in Buffers, NEW required \in Nat, kind = "fixed" => required <= Len(b.cells),
           NEW r \in Reserve(b, required)
    PROVE  /\ r \in Outcomes /\ r.how # "freed"
           /\ r.how = "returned" => r.to.size = b.size /\ required <= Len(r.to.cells)
<1>1. /\ b.size \in Nat /\ Len(b.cells) \in Nat /\ b.size <= Len(b.cells)
      /\ Capacity(b) = Len(b.cells)
  BY BufferIs
<1>2. CASE required <= Len(b.cells)
  <2>1. r \in Outcome(b, "returned")
    BY <1>1, <1>2 DEF Reserve, Returns
  <2> QED
    BY <1>2, <2>1, OutcomeIs
<1>3. CASE required > Len(b.cells)
  <2>1. r \in Outcome(b, "threw") \/ \E c \in required .. MaxCells : r \in RelocateTo(b, c, TRUE)
    BY <1>1, <1>3 DEF Reserve, Grow, Throws
  <2>2. CASE r \in Outcome(b, "threw")
    BY <2>2, OutcomeIs
  <2>3. ASSUME NEW c \in required .. MaxCells, r \in RelocateTo(b, c, TRUE)
        PROVE  /\ r \in Outcomes /\ r.how # "freed"
               /\ r.how = "returned" => r.to.size = b.size /\ required <= Len(r.to.cells)
    <3>1. c \in Nat /\ b.size <= c /\ required <= c
      BY <1>1, <1>3, BufferAssumption
    <3>2. kind # "fixed"
      BY <1>1, <1>3
    <3>3. /\ r \in Outcomes /\ r.how # "freed"
          /\ r.how = "returned" => r.to.size = b.size /\ Len(r.to.cells) = c
      BY <2>3, <3>1, <3>2, RelocateToHeap
    <3> QED
      BY <3>1, <3>3
  <2> QED
    BY <2>1, <2>2, <2>3
<1> QED
  BY <1>1, <1>2, <1>3

\* clear() keeps the storage and the objects go.
LEMMA ClearSafe ==
    ASSUME NEW b \in Buffers
    PROVE  /\ Clear(b) \in Buffers /\ Clear(b).size = 0 /\ Clear(b).heap = b.heap
           /\ Len(Clear(b).cells) = Len(b.cells)
           /\ \A i \in DOMAIN Clear(b).cells : Clear(b).cells[i] = Raw
<1> DEFINE none == 0
           m == DestroyCells(b.cells, none + 1 .. b.size)
<1>1. Filled(b.cells, b.size) /\ b.size \in Nat
  BY BufferIs
<1>2. Filled(m, none) /\ Len(m) = Len(b.cells)
  <2>1. none \in 0 .. b.size
    BY <1>1
  <2> HIDE DEF none
  <2> QED
    BY <1>1, <2>1, DestroyedFilled
<1>3. Clear(b) = Edited(b, m, none)
  BY DEF Clear, Edited
<1> HIDE DEF m
<1>4. DOMAIN m = 1 .. Len(m) /\ Len(m) \in Nat /\ \A i \in none + 1 .. Len(m) : m[i] = Raw
  <2> HIDE DEF none
  <2> QED
    BY <1>2, FilledIs
<1> HIDE DEF none
<1>5. Clear(b) \in Buffers /\ Clear(b).cells = m /\ Clear(b).size = none /\ Clear(b).heap = b.heap
  BY <1>2, <1>3, BufferEdited
<1> QED
  BY <1>2, <1>4, <1>5 DEF none

\* reset() goes back to the inline storage, with nothing in it and nothing lost.
LEMMA ResetSafe ==
    ASSUME NEW b \in Buffers
    PROVE  Reset(b) \in Buffers /\ Reset(b).size = 0 /\ ~ Reset(b).heap
<1>1. CASE ~ b.heap
  <2>1. Reset(b) = Clear(b)
    BY <1>1 DEF Reset
  <2> QED
    BY <1>1, <2>1, ClearSafe
<1>2. CASE b.heap
  <2>1. \A i \in DOMAIN Clear(b).cells : Clear(b).cells[i] = Raw
    BY ClearSafe
  <2>2. Reset(b) = [Empty EXCEPT !.cells = Empty.cells]
    BY <1>2, <2>1 DEF Reset
  <2>3. Reset(b) = Empty
    BY <2>2 DEF Empty
  <2> QED
    BY <2>3, EmptyIsBuffer
<1> QED
  BY <1>1, <1>2

\* shrink_to_fit(): into the inline storage, or onto a smaller heap block.
LEMMA ShrinkSafe ==
    ASSUME NEW b \in Buffers, kind # "fixed", NEW r \in ShrinkToFit(b)
    PROVE  r \in Outcomes
<1>1. /\ b.size \in Nat /\ Len(b.cells) \in Nat /\ b.size <= Len(b.cells)
      /\ Capacity(b) = Len(b.cells)
  BY BufferIs
<1>2. \/ r \in Outcome(b, "returned") \/ r \in Outcome(Reset(b), "returned") \/ r \in Outcome(b, "threw")
      \/ kind = "small" /\ b.size <= InlineCapacity /\ r \in RelocateTo(b, InlineCapacity, FALSE)
      \/ r \in RelocateTo(b, b.size, TRUE)
  BY DEF ShrinkToFit, Returns, Throws
<1>3. CASE r \in Outcome(b, "returned") \/ r \in Outcome(Reset(b), "returned") \/ r \in Outcome(b, "threw")
  <2>1. Reset(b) \in Buffers
    BY ResetSafe
  <2> QED
    BY <1>3, <2>1, OutcomeIs
<1>4. CASE kind = "small" /\ b.size <= InlineCapacity /\ r \in RelocateTo(b, InlineCapacity, FALSE)
  <2>1. InlineCapacity \in Nat /\ InlineCapacity = InlineSize
    BY <1>4, BufferAssumption DEF InlineSize
  <2> QED
    BY <1>4, <2>1, RelocateSafe
<1>5. CASE r \in RelocateTo(b, b.size, TRUE)
  <2>1. b.size \in Nat /\ b.size <= b.size
    BY <1>1
  <2> QED
    BY <1>5, <2>1, RelocateToHeap
<1> QED
  BY <1>2, <1>3, <1>4, <1>5

(****************************************************************************)
(* Appending and resizing.                                                 *)
(****************************************************************************)

\* Constructing behind the last object makes it longer.
LEMMA LongerIsBuffer ==
    ASSUME NEW b \in Buffers, NEW vs \in Seq(Living), b.size + Len(vs) <= Len(b.cells)
    PROVE  LET e == Edited(b, ConstructCells(b.cells, b.size, vs), b.size + Len(vs))
           IN e \in Buffers /\ e.size = b.size + Len(vs)
<1> DEFINE c == ConstructCells(b.cells, b.size, vs)
           n == b.size + Len(vs)
<1>1. Filled(b.cells, b.size)
  BY BufferIs
<1>2. Filled(c, n) /\ Len(c) = Len(b.cells)
  BY <1>1, ConstructedFilled
<1> HIDE DEF c, n
<1>3. Edited(b, c, n) \in Buffers /\ Edited(b, c, n).size = n
  BY <1>2, BufferEdited
<1> QED
  BY <1>3 DEF c, n

\* What fits a fixed buffer is no more than its storage.
LEMMA FitsIsRoom ==
    ASSUME NEW b \in Buffers, NEW n \in Nat, CanFit(n)
    PROVE  kind = "fixed" => n <= Len(b.cells)
BY BufferIs DEF CanFit

\* Appending copies: the size grows only when all of them are there.
LEMMA AppendCopiesSafe ==
    ASSUME NEW b \in Buffers, NEW vs \in Seq(Living), NEW r \in AppendCopies(b, vs)
    PROVE  /\ r \in Outcomes /\ r.how # "freed"
           /\ r.how = "returned" /\ kind # "fixed" => r.to.size = b.size + Len(vs)
<1> DEFINE n == b.size + Len(vs)
           e(q) == Edited(q, ConstructCells(q.cells, b.size, vs), n)
<1>1. n \in Nat
  BY BufferIs, LenProperties
<1>2. CASE ~ CanFit(n)
  <2>1. r \in Outcome(b, "returned") /\ kind = "fixed"
    BY <1>2 DEF AppendCopies, Returns, CanFit
  <2> QED
    BY <2>1, OutcomeIs
<1>3. CASE CanFit(n)
  <2>1. \/ r \in Reserve(b, n) /\ r.how # "returned"
        \/ \E q \in Reserve(b, n) :
             /\ q.how = "returned"
             /\ r \in Outcome(e(q.to), "returned") \/ r \in Outcome(q.to, "threw")
    BY <1>3 DEF AppendCopies, AndThen, Returns, Throws, MayThrow, Edited
  <2>2. CASE r \in Reserve(b, n) /\ r.how # "returned"
    BY <1>1, <1>3, <2>2, FitsIsRoom, ReserveSafe
  <2>3. ASSUME NEW q \in Reserve(b, n), q.how = "returned",
               r \in Outcome(e(q.to), "returned") \/ r \in Outcome(q.to, "threw")
        PROVE  r \in Outcomes /\ r.how # "freed" /\ (r.how = "returned" => r.to.size = n)
    <3>1. q \in Outcomes /\ q.to.size = b.size /\ n <= Len(q.to.cells)
      BY <1>1, <1>3, <2>3, FitsIsRoom, ReserveSafe
    <3>2. q.to \in Buffers
      BY <3>1 DEF Outcomes
    <3>3. e(q.to) \in Buffers /\ e(q.to).size = n
      BY <3>1, <3>2, LongerIsBuffer
    <3> HIDE DEF e, n
    <3> QED
      BY <2>3, <3>2, <3>3, OutcomeIs
  <2> QED
    BY <2>1, <2>2, <2>3
<1> QED
  BY <1>2, <1>3

\* Appending by moving out of another buffer.
LEMMA AppendMoveSafe ==
    ASSUME NEW b \in Buffers, NEW vs \in Seq(Living), NEW r \in AppendMove(b, vs)
    PROVE  r \in Outcomes
<1> DEFINE n == b.size + Len(vs)
           e(q) == Edited(q, ConstructCells(q.cells, b.size, vs), n)
<1>1. n \in Nat
  BY BufferIs, LenProperties
<1>2. CASE ~ CanFit(n)
  <2>1. r \in Outcome(b, "returned")
    BY <1>2 DEF AppendMove, Returns
  <2> QED
    BY <2>1, OutcomeIs
<1>3. CASE CanFit(n)
  <2>1. \/ r \in Reserve(b, n)
        \/ \E q \in Reserve(b, n) :
             /\ q.how = "returned"
             /\ \/ r \in Outcome(e(q.to), "returned") \/ r \in Outcome(q.to, "threw")
                \/ r \in Outcome(q.to, "broken")
    BY <1>3 DEF AppendMove, AndThen, Returns, Throws, Breaks, MayThrow, Edited
  <2>2. CASE r \in Reserve(b, n)
    BY <1>1, <1>3, <2>2, FitsIsRoom, ReserveSafe
  <2>3. ASSUME NEW q \in Reserve(b, n), q.how = "returned",
               \/ r \in Outcome(e(q.to), "returned") \/ r \in Outcome(q.to, "threw")
               \/ r \in Outcome(q.to, "broken")
        PROVE  r \in Outcomes
    <3>1. q \in Outcomes /\ q.to.size = b.size /\ n <= Len(q.to.cells)
      BY <1>1, <1>3, <2>3, FitsIsRoom, ReserveSafe
    <3>2. q.to \in Buffers
      BY <3>1 DEF Outcomes
    <3>3. e(q.to) \in Buffers /\ e(q.to).size = n
      BY <3>1, <3>2, LongerIsBuffer
    <3> HIDE DEF e, n
    <3> QED
      BY <2>3, <3>2, <3>3, OutcomeIs
  <2> QED
    BY <2>1, <2>2, <2>3
<1> QED
  BY <1>2, <1>3

\* Appending an element constructed in place.
LEMMA AppendConstructSafe ==
    ASSUME NEW b \in Buffers, NEW v \in Living, NEW r \in AppendConstruct(b, v)
    PROVE  /\ r \in Outcomes /\ r.how # "freed"
           /\ r.how = "returned" /\ kind # "fixed" => r.to.size = b.size + 1
<1> DEFINE n == b.size + 1
           e(q) == Edited(q, ConstructAt(q.cells, b.size + 1, v), n)
<1>1. b.size \in Nat /\ n \in Nat
  BY BufferIs
<1>2. CASE ~ CanFit(n)
  <2>1. r \in Outcome(b, "returned") /\ kind = "fixed"
    BY <1>2 DEF AppendConstruct, Returns, CanFit
  <2> QED
    BY <2>1, OutcomeIs
<1>3. CASE CanFit(n)
  <2>1. \/ r \in Reserve(b, n) /\ r.how # "returned"
        \/ \E q \in Reserve(b, n) :
             /\ q.how = "returned"
             /\ r \in Outcome(e(q.to), "returned") \/ r \in Outcome(q.to, "threw")
    BY <1>3 DEF AppendConstruct, AndThen, Returns, Throws, MayThrow, Edited
  <2>2. CASE r \in Reserve(b, n) /\ r.how # "returned"
    BY <1>1, <1>3, <2>2, FitsIsRoom, ReserveSafe
  <2>3. ASSUME NEW q \in Reserve(b, n), q.how = "returned",
               r \in Outcome(e(q.to), "returned") \/ r \in Outcome(q.to, "threw")
        PROVE  r \in Outcomes /\ r.how # "freed" /\ (r.how = "returned" => r.to.size = n)
    <3>1. q \in Outcomes /\ q.to.size = b.size /\ n <= Len(q.to.cells)
      BY <1>1, <1>3, <2>3, FitsIsRoom, ReserveSafe
    <3>2. q.to \in Buffers
      BY <3>1 DEF Outcomes
    <3>3. e(q.to) \in Buffers /\ e(q.to).size = n
      <4> DEFINE c == ConstructAt(q.to.cells, b.size + 1, v)
      <4>1. Filled(q.to.cells, b.size) /\ b.size < Len(q.to.cells)
        BY <1>1, <3>1, <3>2, BufferIs
      <4>2. Filled(c, n) /\ Len(c) = Len(q.to.cells)
        BY <4>1, ConstructedAtFilled
      <4> HIDE DEF c, n
      <4>3. Edited(q.to, c, n) \in Buffers /\ Edited(q.to, c, n).size = n
        BY <3>2, <4>2, BufferEdited
      <4> QED
        BY <4>3 DEF c
    <3> HIDE DEF e, n
    <3> QED
      BY <2>3, <3>2, <3>3, OutcomeIs
  <2> QED
    BY <2>1, <2>2, <2>3
<1> QED
  BY <1>2, <1>3

\* Some copies of one value.
LEMMA CopiesAreLiving ==
    ASSUME NEW n \in Nat, NEW v \in Living
    PROVE  [i \in 1 .. n |-> v] \in Seq(Living) /\ Len([i \in 1 .. n |-> v]) = n
<1> DEFINE c == [i \in 1 .. n |-> v]
<1>1. c \in [1 .. n -> Living]
  OBVIOUS
<1> HIDE DEF c
<1>2. c \in Seq(Living) /\ Len(c) = n
  BY <1>1, CellsAreSeq
<1> QED
  BY <1>2 DEF c

\* resize(), either way.
LEMMA ResizedSafe ==
    ASSUME NEW b \in Buffers, NEW n \in Nat, NEW v \in Living, NEW r \in Resized(b, n, v)
    PROVE  r \in Outcomes
<1>1. b.size \in Nat /\ Filled(b.cells, b.size)
  BY BufferIs
<1>2. CASE ~ CanFit(n)
  <2>1. r \in Outcome(b, "returned")
    BY <1>2 DEF Resized, Returns
  <2> QED
    BY <2>1, OutcomeIs
<1>3. CASE n <= b.size /\ CanFit(n)
  <2> DEFINE c == DestroyCells(b.cells, n + 1 .. b.size)
  <2>1. r \in Outcome(Edited(b, c, n), "returned")
    BY <1>3 DEF Resized, Returns, Edited
  <2>2. n \in 0 .. b.size
    BY <1>1, <1>3
  <2>3. Filled(c, n) /\ Len(c) = Len(b.cells)
    BY <1>1, <2>2, DestroyedFilled
  <2> HIDE DEF c
  <2>4. Edited(b, c, n) \in Buffers
    BY <2>3, BufferEdited
  <2> QED
    BY <2>1, <2>4, OutcomeIs
<1>4. CASE n > b.size /\ CanFit(n)
  <2> DEFINE vs == [i \in 1 .. n - b.size |-> v]
             e(q) == Edited(q, ConstructCells(q.cells, b.size, vs), n)
  <2>1. \/ r \in Reserve(b, n)
        \/ \E q \in Reserve(b, n) :
             /\ q.how = "returned"
             /\ \/ r \in Outcome(e(q.to), "returned") \/ r \in Outcome(q.to, "threw")
                \/ r \in Outcome(q.to, "broken")
    <3>1. ~ (n <= b.size)
      BY <1>1, <1>4
    <3> QED
      BY <1>4, <3>1 DEF Resized, AndThen, Returns, Throws, Breaks, MayThrow, Edited
  <2>2. CASE r \in Reserve(b, n)
    BY <1>4, <2>2, FitsIsRoom, ReserveSafe
  <2>3. ASSUME NEW q \in Reserve(b, n), q.how = "returned",
               \/ r \in Outcome(e(q.to), "returned") \/ r \in Outcome(q.to, "threw")
               \/ r \in Outcome(q.to, "broken")
        PROVE  r \in Outcomes
    <3>1. q \in Outcomes /\ q.to.size = b.size /\ n <= Len(q.to.cells)
      BY <1>4, <2>3, FitsIsRoom, ReserveSafe
    <3>2. q.to \in Buffers
      BY <3>1 DEF Outcomes
    <3>3. vs \in Seq(Living) /\ b.size + Len(vs) = n
      <4>1. n - b.size \in Nat
        BY <1>1, <1>4
      <4>2. vs \in Seq(Living) /\ Len(vs) = n - b.size
        BY <4>1, CopiesAreLiving
      <4> HIDE DEF vs
      <4> QED
        BY <1>1, <4>2
    <3> HIDE DEF vs
    <3>4. e(q.to) \in Buffers
      BY <3>1, <3>2, <3>3, LongerIsBuffer
    <3> HIDE DEF e
    <3> QED
      BY <2>3, <3>2, <3>4, OutcomeIs
  <2> QED
    BY <2>1, <2>2, <2>3
<1> QED
  BY <1>1, <1>2, <1>3, <1>4

(****************************************************************************)
(* Removing.                                                               *)
(****************************************************************************)

\* Which of two is the smaller.
LEMMA MinOfTwo ==
    ASSUME NEW m \in Nat, NEW n \in Nat
    PROVE  Min({m, n}) = IF m <= n THEN m ELSE n
<1> DEFINE least == IF m <= n THEN m ELSE n
<1>1. Min({m, n}) = CHOOSE x \in {m, n} : \A y \in {m, n} : x <= y
  BY DEF Min
<1>2. least \in {m, n} /\ \A y \in {m, n} : least <= y
  OBVIOUS
<1>3. \A x \in {m, n} : (\A y \in {m, n} : x <= y) => x = least
  OBVIOUS
<1> QED
  BY <1>1, <1>2, <1>3

\* The gap of a removal closes, and as many cells become free at the end.
GapClosed(m, n, index, gone, built) ==
  LET gap == DestroyCells(m, index + 1 .. index + gone)
      filled == MoveObjects(gap, index, index + gone, built, ConstructOver)
      shifted == MoveObjects(filled, index + built, index + gone + built,
                           n - (index + gone) - built, AssignOver)
  IN DestroyCells(shifted, n - built + 1 .. n)

\* The gap a removal makes is closed: the elements behind it fill first the raw
\* cells, then what has been moved from, and what is left over at the end goes.
LEMMA RemovedFilled ==
    ASSUME NEW m, NEW n, Filled(m, n), NEW index \in Nat, NEW gone \in Nat, index + gone <= n,
           NEW built, built = IF n - (index + gone) <= gone THEN n - (index + gone) ELSE gone
    PROVE  /\ Filled(GapClosed(m, n, index, gone, built), n - gone)
           /\ Len(GapClosed(m, n, index, gone, built)) = Len(m)
<1> DEFINE L == Len(m)
           remaining == n - (index + gone)
           gap == DestroyCells(m, index + 1 .. index + gone)
           left == MovedFrom(gap, index + gone, built)
           filled == MoveObjects(gap, index, index + gone, built, ConstructOver)
           shifted == MoveObjects(filled, index + built, index + gone + built,
                                remaining - built, AssignOver)
           c == DestroyCells(shifted, n - built + 1 .. n)
<1>1. /\ L \in Nat /\ DOMAIN m = 1 .. L /\ n \in Nat /\ n <= L
      /\ \A i \in 1 .. n : m[i] \in Living
      /\ \A i \in n + 1 .. L : m[i] = Raw
  BY FilledIs
<1>2. remaining \in Nat /\ built \in Nat /\ built <= remaining /\ built <= gone
  BY <1>1
<1>3. /\ gap = [i \in 1 .. L |-> gap[i]]
      /\ \A i \in 1 .. L : gap[i] = IF i \in index + 1 .. index + gone THEN Raw ELSE m[i]
  <2>1. gap = [i \in 1 .. L |-> IF i \in index + 1 .. index + gone
                                THEN (IF Alive(m[i]) THEN Raw ELSE Bad) ELSE m[i]]
    BY <1>1 DEF DestroyCells
  <2>2. gap = [i \in 1 .. L |-> gap[i]]
    BY <2>1
  <2>3. \A i \in 1 .. L : i \in index + 1 .. index + gone => Alive(m[i])
    BY <1>1, LivingIsAlive
  <2> QED
    BY <2>1, <2>2, <2>3
<1> HIDE DEF gap
<1>4. /\ left = [i \in 1 .. L |-> left[i]]
      /\ \A i \in 1 .. L :
           left[i] = IF i \in index + gone + 1 .. index + gone + built THEN Moved ELSE gap[i]
  <2>1. DOMAIN gap = 1 .. L
    BY <1>3
  <2> QED
    BY <2>1 DEF MovedFrom
<1> HIDE DEF left
<1>5. /\ filled = [i \in 1 .. L |-> filled[i]]
      /\ \A i \in 1 .. L :
           filled[i] = IF i \in index + 1 .. index + built
                       THEN ConstructOver(left[i], gap[i - index + (index + gone)]) ELSE left[i]
  <2>1. DOMAIN gap = 1 .. L
    BY <1>3
  <2>2. filled = [i \in 1 .. L |->
          IF i \in index + 1 .. index + built
          THEN ConstructOver(left[i], gap[i - index + (index + gone)]) ELSE left[i]]
    BY <2>1 DEF MoveObjects, left
  <2> QED
    BY <2>2
<1> HIDE DEF filled
<1>6. ASSUME NEW i \in 1 .. L
      PROVE  /\ i <= index + built => filled[i] \in Living
             /\ index + built < i /\ i <= index + gone => filled[i] = Raw
             /\ index + gone < i /\ i <= n => filled[i] \in Living
             /\ n < i => filled[i] = Raw
  <2> DEFINE j == i - index + (index + gone)
  <2>1. /\ gap[i] = IF i \in index + 1 .. index + gone THEN Raw ELSE m[i]
        /\ left[i] = IF i \in index + gone + 1 .. index + gone + built THEN Moved ELSE gap[i]
        /\ filled[i] = IF i \in index + 1 .. index + built THEN ConstructOver(left[i], gap[j]) ELSE left[i]
    BY <1>3, <1>4, <1>5
  <2>2. (i <= n => m[i] \in Living) /\ (n < i => m[i] = Raw) /\ Moved \in Living
    BY <1>1 DEF Living
  <2>3. i \in Nat /\ 1 <= i /\ index \in Nat /\ gone \in Nat /\ built \in Nat /\ built <= gone
        /\ n \in Nat /\ index + gone + built <= n
    BY <1>1, <1>2
  <2>4. i \in index + 1 .. index + built => j \in 1 .. L /\ j \in 1 .. n /\ j > index + gone
    BY <1>1, <2>3
  <2>5. i \in index + 1 .. index + built => gap[j] \in Living
    <3> HIDE DEF j
    <3>1. j \in 1 .. L => gap[j] = IF j \in index + 1 .. index + gone THEN Raw ELSE m[j]
      BY <1>3
    <3>2. j \in 1 .. n => m[j] \in Living
      BY <1>1
    <3>3. j > index + gone => j \notin index + 1 .. index + gone
      BY <2>3
    <3> QED
      BY <2>4, <3>1, <3>2, <3>3
  <2> HIDE DEF j
  <2>6. CASE i \in index + 1 .. index + built
    <3>1. left[i] = Raw
      BY <2>1, <2>3, <2>6
    <3>2. filled[i] \in Living
      BY <2>1, <2>5, <2>6, <3>1, Overwrites
    <3> QED
      BY <2>3, <2>6, <3>2
  <2>7. CASE i \notin index + 1 .. index + built
    <3>1. filled[i] = left[i]
      BY <2>1, <2>7
    <3> QED
      BY <2>1, <2>2, <2>3, <2>7, <3>1
  <2> QED
    BY <2>6, <2>7
<1>7. CASE remaining >= gone
  <2>1. built = gone
    BY <1>2, <1>7
  <2>2. \A i \in 1 .. L : IF i <= n THEN filled[i] \in Living ELSE filled[i] = Raw
    BY <1>1, <1>6, <2>1
  <2>3. Filled(filled, n) /\ Len(filled) = L
    <3>1. FilledTo(filled, L, n)
      BY <1>5, <2>2 DEF FilledTo
    <3>2. n \in 0 .. L
      BY <1>1
    <3> QED
      BY <1>1, <3>1, <3>2, FilledToIs
  <2>4. Filled(shifted, n) /\ Len(shifted) = L
    <3> DEFINE to == index + built
               from == index + gone + built
               k == remaining - built
    <3>1. to \in Nat /\ from \in Nat /\ k \in Nat /\ to + k <= n /\ from + k <= n
      BY <1>1, <1>2
    <3> HIDE DEF to, from, k
    <3>2. LET d == MoveObjects(filled, to, from, k, AssignOver) IN Filled(d, n) /\ Len(d) = Len(filled)
      BY <2>3, <3>1, MovedOverFilled
    <3> QED
      BY <2>3, <3>2 DEF to, from, k
  <2> HIDE DEF shifted
  <2>5. Filled(c, n - built) /\ Len(c) = L
    <3>1. n - built \in 0 .. n
      BY <1>1, <1>2
    <3> QED
      BY <2>4, <3>1, DestroyedFilled
  <2> HIDE DEF c
  <2>6. Filled(c, n - gone) /\ Len(c) = Len(m)
    BY <2>1, <2>5
  <2> QED
    BY <2>6 DEF c, shifted, filled, gap, GapClosed
<1>8. CASE remaining < gone
  <2>1. built = remaining /\ n - built = index + gone /\ n - gone = index + built
    BY <1>1, <1>2, <1>8
  <2>2. /\ shifted = [i \in 1 .. L |-> shifted[i]]
        /\ \A i \in 1 .. L : shifted[i] = filled[i]
    <3>1. DOMAIN filled = 1 .. L
      BY <1>5
    <3>2. \A i \in 1 .. L : i \notin index + built + 1 .. index + built + (remaining - built)
                            /\ i \notin index + gone + built + 1 .. index + gone + built + (remaining - built)
      BY <1>2, <2>1
    <3> QED
      BY <3>1, <3>2 DEF MoveObjects, MovedFrom
  <2> HIDE DEF shifted
  <2>3. /\ c = [i \in 1 .. L |-> c[i]]
        /\ \A i \in 1 .. L : c[i] = IF i \in n - built + 1 .. n
                                    THEN (IF Alive(filled[i]) THEN Raw ELSE Bad) ELSE filled[i]
    <3>1. DOMAIN shifted = 1 .. L
      BY <2>2
    <3>2. c = [i \in 1 .. L |-> IF i \in n - built + 1 .. n
                                THEN (IF Alive(shifted[i]) THEN Raw ELSE Bad) ELSE shifted[i]]
      BY <3>1 DEF DestroyCells
    <3> QED
      BY <2>2, <3>2
  <2> HIDE DEF c
  <2>4. ASSUME NEW i \in 1 .. L PROVE IF i <= n - gone THEN c[i] \in Living ELSE c[i] = Raw
    <3>1. /\ i <= index + built => filled[i] \in Living
          /\ index + built < i /\ i <= index + gone => filled[i] = Raw
          /\ index + gone < i /\ i <= n => filled[i] \in Living
          /\ n < i => filled[i] = Raw
      BY <1>6
    <3>2. c[i] = IF i \in n - built + 1 .. n THEN (IF Alive(filled[i]) THEN Raw ELSE Bad) ELSE filled[i]
      BY <2>3
    <3>3. filled[i] \in Living => Alive(filled[i])
      BY LivingIsAlive
    <3>4. /\ i \in Nat /\ index \in Nat /\ gone \in Nat /\ built \in Nat /\ n \in Nat
          /\ n - built = index + gone /\ n - gone = index + built /\ built <= gone
          /\ index + gone <= n
      BY <1>1, <1>2, <2>1
    <3>5. CASE i <= index + built
      <4>1. i \notin n - built + 1 .. n /\ i <= n - gone
        BY <3>4, <3>5
      <4> QED
        BY <3>1, <3>2, <3>5, <4>1
    <3>6. CASE index + built < i /\ i <= index + gone
      <4>1. i \notin n - built + 1 .. n /\ ~ (i <= n - gone)
        BY <3>4, <3>6
      <4> QED
        BY <3>1, <3>2, <3>6, <4>1
    <3>7. CASE index + gone < i /\ i <= n
      <4>1. i \in n - built + 1 .. n /\ ~ (i <= n - gone)
        BY <3>4, <3>7
      <4> QED
        BY <3>1, <3>2, <3>3, <3>7, <4>1
    <3>8. CASE n < i
      <4>1. i \notin n - built + 1 .. n /\ ~ (i <= n - gone)
        BY <3>4, <3>8
      <4> QED
        BY <3>1, <3>2, <3>8, <4>1
    <3> QED
      BY <3>4, <3>5, <3>6, <3>7, <3>8
  <2>5. n - gone \in 0 .. L
    BY <1>1, <1>2
  <2>6. Filled(c, n - gone) /\ Len(c) = Len(m)
    BY <1>1, <2>3, <2>4, <2>5, FilledByCells
  <2> QED
    BY <2>6 DEF c, shifted, filled, gap, GapClosed
<1> QED
  BY <1>1, <1>2, <1>7, <1>8

\* Removing a range.
LEMMA RemoveSafe ==
    ASSUME NEW b \in Buffers, NEW index \in Nat, NEW gone \in Nat, index + gone <= b.size,
           NEW r \in RemoveRange(b, index, gone)
    PROVE  /\ r \in Outcomes /\ r.how # "freed"
           /\ r.how = "returned" => r.to.size = b.size - gone
<1> DEFINE n == b.size
           remaining == n - (index + gone)
           built == IF remaining <= gone THEN remaining ELSE gone
           c == GapClosed(b.cells, n, index, gone, built)
<1>1. n \in Nat /\ Filled(b.cells, n)
  BY BufferIs
<1>2. remaining \in Nat
  BY <1>1
<1>3. built = Min({remaining, gone})
  BY <1>2, MinOfTwo
<1>4. Filled(c, n - gone) /\ Len(c) = Len(b.cells)
  <2>1. built = IF n - (index + gone) <= gone THEN n - (index + gone) ELSE gone
    OBVIOUS
  <2>2. index + gone <= n
    OBVIOUS
  <2>3. index \in Nat /\ gone \in Nat
    OBVIOUS
  <2>4. /\ Filled(GapClosed(b.cells, n, index, gone, built), n - gone)
        /\ Len(GapClosed(b.cells, n, index, gone, built)) = Len(b.cells)
    <3> DEFINE m == b.cells
    <3>1. Filled(m, n)
      BY <1>1
    <3> HIDE DEF n, built, m
    <3>2. /\ Filled(GapClosed(m, n, index, gone, built), n - gone)
          /\ Len(GapClosed(m, n, index, gone, built)) = Len(m)
      BY <2>1, <2>2, <2>3, <3>1, RemovedFilled
    <3> QED
      BY <3>2 DEF m
  <2> HIDE DEF n, built
  <2> QED
    BY <2>4
<1>5. r \in Outcome(Edited(b, c, n - gone), "returned") \/ r \in Outcome(b, "broken")
  <2>1. remaining = b.size - (index + gone)
    OBVIOUS
  <2> HIDE DEF built, remaining
  <2> QED
    BY <1>3, <2>1 DEF GapClosed, RemoveRange, Returns, Breaks, MayThrow, Edited
<1> HIDE DEF c
<1>6. Edited(b, c, n - gone) \in Buffers /\ Edited(b, c, n - gone).size = n - gone
  BY <1>4, BufferEdited
<1> QED
  BY <1>5, <1>6, OutcomeIs

(****************************************************************************)
(* Copying, moving and swapping whole buffers.                             *)
(****************************************************************************)

\* Copy construction.
LEMMA CopyFromSafe ==
    ASSUME NEW other \in Buffers, NEW r \in CopyFrom(Empty, other)
    PROVE  r \in Outcomes
<1> DEFINE n == other.size
           vs == Held(other)
           e(q) == Edited(q, ConstructCells(q.cells, 0, vs), n)
<1>1. Empty \in Buffers /\ Empty.size = 0 /\ n \in Nat
  BY EmptyIsBuffer, BufferIs
<1>2. CASE ~ CanFit(n)
  <2>1. r \in Outcome(Empty, "returned")
    BY <1>2 DEF CopyFrom, Returns
  <2> QED
    BY <1>1, <2>1, OutcomeIs
<1>3. CASE CanFit(n)
  <2>1. \/ r \in Reserve(Empty, n)
        \/ \E q \in Reserve(Empty, n) :
             /\ q.how = "returned"
             /\ \/ r \in Outcome(e(q.to), "returned") \/ r \in Outcome(q.to, "threw")
                \/ r \in Outcome(q.to, "broken")
    BY <1>3 DEF CopyFrom, AndThen, Returns, Throws, Breaks, MayThrow, Edited
  <2>2. CASE r \in Reserve(Empty, n)
    BY <1>1, <1>3, <2>2, FitsIsRoom, ReserveSafe
  <2>3. ASSUME NEW q \in Reserve(Empty, n), q.how = "returned",
               \/ r \in Outcome(e(q.to), "returned") \/ r \in Outcome(q.to, "threw")
               \/ r \in Outcome(q.to, "broken")
        PROVE  r \in Outcomes
    <3>1. q \in Outcomes /\ q.to.size = 0 /\ n <= Len(q.to.cells)
      BY <1>1, <1>3, <2>3, FitsIsRoom, ReserveSafe
    <3>2. q.to \in Buffers
      BY <3>1 DEF Outcomes
    <3>3. vs \in Seq(Living) /\ Len(vs) = n
      <4>1. 0 \in 0 .. n /\ n \in 0 .. n
        BY <1>1
      <4>2. SubSeq(other.cells, 0 + 1, n) \in Seq(Living) /\ Len(SubSeq(other.cells, 0 + 1, n)) = n - 0
        BY <4>1, HeldAreLiving
      <4> QED
        BY <1>1, <4>2 DEF Held
    <3> HIDE DEF vs
    <3>4. e(q.to) \in Buffers
      <4>1. q.to.size + Len(vs) = n /\ q.to.size + Len(vs) <= Len(q.to.cells)
        BY <1>1, <3>1, <3>3
      <4>2. Edited(q.to, ConstructCells(q.to.cells, q.to.size, vs), q.to.size + Len(vs)) \in Buffers
        BY <3>2, <3>3, <4>1, LongerIsBuffer
      <4> QED
        BY <3>1, <4>1, <4>2
    <3> HIDE DEF e
    <3> QED
      BY <2>3, <3>2, <3>4, OutcomeIs
  <2> QED
    BY <2>1, <2>2, <2>3
<1> QED
  BY <1>2, <1>3

\* The first objects of the source, as values.
LEMMA FirstAreLiving ==
    ASSUME NEW b \in Buffers, NEW k \in 0 .. b.size
    PROVE  SubSeq(b.cells, 1, k) \in Seq(Living) /\ Len(SubSeq(b.cells, 1, k)) = k
<1>1. b.size \in Nat
  BY BufferIs
<1>2. 0 \in 0 .. b.size /\ k \in 0 .. b.size /\ k \in 0 .. k
  BY <1>1
<1>3. SubSeq(b.cells, 0 + 1, k) \in Seq(Living) /\ Len(SubSeq(b.cells, 0 + 1, k)) = k - 0
  BY <1>2, HeldAreLiving
<1> QED
  BY <1>2, <1>3

\* Copies assigned over the objects that the two buffers have in common.
LEMMA AssignedIsBuffer ==
    ASSUME NEW b \in Buffers, NEW other \in Buffers, NEW k \in 0 .. b.size, k <= other.size
    PROVE  /\ Filled(AssignCells(b.cells, SubSeq(other.cells, 1, k)), b.size)
           /\ Len(AssignCells(b.cells, SubSeq(other.cells, 1, k))) = Len(b.cells)
<1> DEFINE vs == SubSeq(other.cells, 1, k)
<1>1. Filled(b.cells, b.size) /\ b.size \in Nat /\ other.size \in Nat
  BY BufferIs
<1>2. k \in 0 .. other.size
  BY <1>1
<1>3. vs \in Seq(Living) /\ Len(vs) <= b.size
  BY <1>1, <1>2, FirstAreLiving
<1> HIDE DEF vs
<1>4. Filled(AssignCells(b.cells, vs), b.size) /\ Len(AssignCells(b.cells, vs)) = Len(b.cells)
  BY <1>1, <1>3, AssignedFilled
<1> QED
  BY <1>4 DEF vs

\* Copy assignment, over the objects there are and behind them or on new storage.
LEMMA CopyAssignSafe ==
    ASSUME NEW b \in Buffers, NEW other \in Buffers, NEW r \in CopyAssignFrom(b, other)
    PROVE  r \in Outcomes
<1> DEFINE n == other.size
<1>1. /\ n \in Nat /\ b.size \in Nat /\ Capacity(b) = Len(b.cells) /\ Len(b.cells) \in Nat
      /\ n <= Len(other.cells)
  BY BufferIs
<1>2. CASE ~ CanFit(n)
  <2>1. r \in Outcome(b, "returned")
    BY <1>2 DEF CopyAssignFrom, Returns
  <2> QED
    BY <2>1, OutcomeIs
<1>3. CASE CanFit(n) /\ n > Len(b.cells)
  <2> DEFINE vs == Held(other)
             s == Reset(b)
             e(q) == Edited(q, ConstructCells(q.cells, 0, vs), n)
  <2>1. s \in Buffers /\ s.size = 0
    BY ResetSafe
  <2>2. \/ r \in Reserve(s, n)
        \/ \E q \in Reserve(s, n) :
             /\ q.how = "returned"
             /\ r \in Outcome(e(q.to), "returned") \/ r \in Outcome(q.to, "threw")
    BY <1>1, <1>3 DEF CopyAssignFrom, AndThen, Returns, Throws, MayThrow, Edited
  <2> HIDE DEF s
  <2>3. CASE r \in Reserve(s, n)
    BY <1>1, <1>3, <2>1, <2>3, FitsIsRoom, ReserveSafe
  <2>4. ASSUME NEW q \in Reserve(s, n), q.how = "returned",
               r \in Outcome(e(q.to), "returned") \/ r \in Outcome(q.to, "threw")
        PROVE  r \in Outcomes
    <3>1. q \in Outcomes /\ q.to.size = 0 /\ n <= Len(q.to.cells)
      BY <1>1, <1>3, <2>1, <2>4, FitsIsRoom, ReserveSafe
    <3>2. q.to \in Buffers
      BY <3>1 DEF Outcomes
    <3>3. vs \in Seq(Living) /\ Len(vs) = n
      <4>1. n \in 0 .. n
        BY <1>1
      <4> QED
        BY <4>1, FirstAreLiving DEF Held
    <3> HIDE DEF vs
    <3>4. e(q.to) \in Buffers
      <4>1. q.to.size + Len(vs) = n /\ q.to.size + Len(vs) <= Len(q.to.cells)
        BY <1>1, <3>1, <3>3
      <4>2. Edited(q.to, ConstructCells(q.to.cells, q.to.size, vs), q.to.size + Len(vs)) \in Buffers
        BY <3>2, <3>3, <4>1, LongerIsBuffer
      <4> QED
        BY <3>1, <4>1, <4>2
    <3> HIDE DEF e
    <3> QED
      BY <2>4, <3>2, <3>4, OutcomeIs
  <2> QED
    BY <2>2, <2>3, <2>4
<1>4. CASE CanFit(n) /\ n <= Len(b.cells)
  <2> DEFINE common == IF b.size <= n THEN b.size ELSE n
             Assigned(k) == AssignCells(b.cells, SubSeq(other.cells, 1, k))
             trimmed == DestroyCells(Assigned(common), common + 1 .. b.size)
             vs == SubSeq(other.cells, common + 1, n)
             c == ConstructCells(trimmed, common, vs)
             last == IF n > b.size THEN common ELSE common - 1
  <2>1. common = Min({b.size, n})
    BY <1>1, MinOfTwo
  <2>2. \/ r \in Outcome(Edited(b, c, n), "returned")
        \/ \E k \in 0 .. last : r \in Outcome(CellsTo(b, Assigned(k)), "threw")
    <3>1. ~ (n > Capacity(b))
      BY <1>1, <1>4
    <3> HIDE DEF common
    <3> QED
      BY <1>4, <2>1, <3>1 DEF CopyAssignFrom, Returns, Outcome, MayThrow, Edited, CellsTo
  <2>3. common \in 0 .. b.size /\ common \in 0 .. n /\ common <= n
    BY <1>1
  <2>4. \A k \in 0 .. common : k \in 0 .. b.size /\ k <= n
    <3> HIDE DEF common
    <3> QED
      BY <1>1, <2>3
  <2>5. \A k \in 0 .. common : Filled(Assigned(k), b.size) /\ Len(Assigned(k)) = Len(b.cells)
    BY <2>4, AssignedIsBuffer
  <2>6. \A k \in 0 .. last : k \in 0 .. common
    BY <2>3
  <2>7. common \in 0 .. common
    BY <2>3
  <2>8. common + (n - common) = n
    BY <1>1, <2>3
  <2>9. vs \in Seq(Living) /\ Len(vs) = n - common
    <3>1. common \in 0 .. other.size /\ n \in common .. other.size
      BY <1>1, <2>3
    <3> HIDE DEF common
    <3> QED
      BY <3>1, HeldAreLiving
  <2> HIDE DEF Assigned, common, vs, last
  <2>10. Filled(trimmed, common) /\ Len(trimmed) = Len(b.cells)
    BY <2>3, <2>5, <2>7, DestroyedFilled
  <2> HIDE DEF trimmed
  <2>11. Filled(c, n) /\ Len(c) = Len(b.cells)
    <3>1. common + Len(vs) = n /\ common + Len(vs) <= Len(trimmed)
      BY <1>4, <2>8, <2>9, <2>10
    <3>2. Filled(c, common + Len(vs)) /\ Len(c) = Len(trimmed)
      BY <2>9, <2>10, <3>1, ConstructedFilled
    <3> QED
      BY <2>10, <3>1, <3>2
  <2> HIDE DEF c
  <2>12. Edited(b, c, n) \in Buffers
    BY <2>11, BufferEdited
  <2>13. \A k \in 0 .. last : CellsTo(b, Assigned(k)) \in Buffers
    BY <2>5, <2>6, CellsEdited
  <2> QED
    BY <2>2, <2>12, <2>13, OutcomeIs
<1> QED
  BY <1>1, <1>2, <1>3, <1>4

\* What a move or a swap makes of the pair.
Pairs == [to : Buffers, from : Buffers, how : {"returned", "threw"}]

\* Move construction: the heap block changes hands, or the elements are moved.
LEMMA MoveFromSafe ==
    ASSUME NEW b \in Buffers, b.size = 0, ~ b.heap, NEW other \in Buffers, NEW r \in MoveFrom(b, other)
    PROVE  /\ r \in Pairs
           /\ r.how = "returned" => r.from.size = 0 /\ ~ r.from.heap
<1> DEFINE n == other.size
           vs == Held(other)
           taken == Edited(b, ConstructCells(b.cells, 0, vs), n)
           given == Edited(other, DestroyCells(other.cells, 1 .. n), 0)
           Stopped(k) == CellsTo(other, MovedFrom(other.cells, 0, k))
<1>1. /\ n \in Nat /\ Filled(other.cells, n) /\ n <= Len(other.cells)
      /\ Empty \in Buffers /\ Empty.size = 0 /\ ~ Empty.heap
  BY BufferIs, EmptyIsBuffer
<1>2. CASE kind = "dynamic" \/ other.heap
  <2>1. r = [to |-> other, from |-> Empty, how |-> "returned"]
    BY <1>2 DEF MoveFrom
  <2> QED
    BY <1>1, <2>1 DEF Pairs
<1>3. CASE kind # "dynamic" /\ ~ other.heap
  <2>1. \/ r = [to |-> taken, from |-> given, how |-> "returned"]
        \/ \E k \in 0 .. n - 1 : r = [to |-> b, from |-> Stopped(k), how |-> "threw"]
    BY <1>3 DEF MoveFrom, MayThrow, Edited, CellsTo
  <2>2. taken \in Buffers
    <3>1. vs \in Seq(Living) /\ Len(vs) = n
      <4>1. n \in 0 .. n
        BY <1>1
      <4> QED
        BY <4>1, FirstAreLiving DEF Held
    <3> HIDE DEF vs
    <3>2. Len(b.cells) = Len(other.cells)
      BY <1>3, BufferIs
    <3>3. b.size + Len(vs) = n /\ b.size + Len(vs) <= Len(b.cells)
      BY <1>1, <3>1, <3>2
    <3>4. Edited(b, ConstructCells(b.cells, b.size, vs), b.size + Len(vs)) \in Buffers
      BY <3>1, <3>3, LongerIsBuffer
    <3> QED
      BY <3>3, <3>4
  <2>3. given \in Buffers /\ given.size = 0 /\ ~ given.heap
    <3> DEFINE none == 0
               d == DestroyCells(other.cells, none + 1 .. n)
    <3>1. none \in 0 .. n
      BY <1>1
    <3> HIDE DEF none
    <3>2. Filled(d, none) /\ Len(d) = Len(other.cells)
      BY <1>1, <3>1, DestroyedFilled
    <3> HIDE DEF d
    <3>3. Edited(other, d, none) \in Buffers /\ Edited(other, d, none).size = none
          /\ Edited(other, d, none).heap = other.heap
      BY <3>2, BufferEdited
    <3> QED
      BY <1>3, <3>3 DEF d, none
  <2>4. \A k \in 0 .. n - 1 : Stopped(k) \in Buffers
    <3> TAKE k \in 0 .. n - 1
    <3> DEFINE none == 0
               c == MovedFrom(other.cells, none, k)
    <3>1. none \in Nat /\ k \in Nat /\ none + k <= n
      BY <1>1
    <3> HIDE DEF none
    <3>2. Filled(c, n) /\ Len(c) = Len(other.cells)
      BY <1>1, <3>1, MovedFromFilled
    <3> HIDE DEF c
    <3>3. CellsTo(other, c) \in Buffers
      BY <3>2, CellsEdited
    <3> QED
      BY <3>3 DEF c, none
  <2> HIDE DEF taken, given, Stopped
  <2>5. CASE r = [to |-> taken, from |-> given, how |-> "returned"]
    BY <2>2, <2>3, <2>5 DEF Pairs
  <2>6. CASE \E k \in 0 .. n - 1 : r = [to |-> b, from |-> Stopped(k), how |-> "threw"]
    BY <2>4, <2>6 DEF Pairs
  <2> QED
    BY <2>1, <2>5, <2>6
<1> QED
  BY <1>2, <1>3

\* swap(), three moves.
LEMMA SwapSafe ==
    ASSUME NEW b \in Buffers, NEW c \in Buffers, NEW r \in Swap(b, c)
    PROVE  r \in Pairs
<1>1. CASE b.heap /\ c.heap
  <2>1. r = [to |-> c, from |-> b, how |-> "returned"]
    BY <1>1 DEF Swap
  <2> QED
    BY <2>1 DEF Pairs
<1>2. CASE ~ (b.heap /\ c.heap)
  <2>1. \E t \in MoveFrom(Empty, b) :
          \/ t.how = "threw" /\ r = [to |-> t.from, from |-> c, how |-> "threw"]
          \/ t.how # "threw" /\ \E u \in MoveFrom(t.from, c) :
               \/ r = [to |-> u.to, from |-> u.from, how |-> "threw"]
               \/ u.how # "threw" /\ \E w \in MoveFrom(u.from, t.to) :
                    r = [to |-> u.to, from |-> w.to, how |-> "returned"]
    BY <1>2 DEF Swap
  <2>2. PICK t \in MoveFrom(Empty, b) :
          \/ t.how = "threw" /\ r = [to |-> t.from, from |-> c, how |-> "threw"]
          \/ t.how # "threw" /\ \E u \in MoveFrom(t.from, c) :
               \/ r = [to |-> u.to, from |-> u.from, how |-> "threw"]
               \/ u.how # "threw" /\ \E w \in MoveFrom(u.from, t.to) :
                    r = [to |-> u.to, from |-> w.to, how |-> "returned"]
    BY <2>1
  <2>3. t \in Pairs /\ (t.how = "returned" => t.from.size = 0 /\ ~ t.from.heap)
    BY EmptyIsBuffer, MoveFromSafe
  <2>4. t.to \in Buffers /\ t.from \in Buffers /\ t.how \in {"returned", "threw"}
    BY <2>3 DEF Pairs
  <2>5. CASE t.how = "threw"
    BY <2>2, <2>4, <2>5 DEF Pairs
  <2>6. CASE t.how # "threw"
    <3>1. t.from.size = 0 /\ ~ t.from.heap
      BY <2>3, <2>4, <2>6
    <3>2. PICK u \in MoveFrom(t.from, c) :
            \/ r = [to |-> u.to, from |-> u.from, how |-> "threw"]
            \/ u.how # "threw" /\ \E w \in MoveFrom(u.from, t.to) :
                 r = [to |-> u.to, from |-> w.to, how |-> "returned"]
      BY <2>2, <2>6
    <3>3. u \in Pairs /\ (u.how = "returned" => u.from.size = 0 /\ ~ u.from.heap)
      BY <2>4, <3>1, MoveFromSafe
    <3>4. u.to \in Buffers /\ u.from \in Buffers /\ u.how \in {"returned", "threw"}
      BY <3>3 DEF Pairs
    <3>5. CASE r = [to |-> u.to, from |-> u.from, how |-> "threw"]
      BY <3>4, <3>5 DEF Pairs
    <3>6. CASE u.how # "threw" /\ \E w \in MoveFrom(u.from, t.to) :
                 r = [to |-> u.to, from |-> w.to, how |-> "returned"]
      <4>1. PICK w \in MoveFrom(u.from, t.to) : r = [to |-> u.to, from |-> w.to, how |-> "returned"]
        BY <3>6
      <4>2. w \in Pairs
        BY <2>4, <3>3, <3>4, <3>6, MoveFromSafe
      <4> QED
        BY <3>4, <4>1, <4>2 DEF Pairs
    <3> QED
      BY <3>2, <3>5, <3>6
  <2> QED
    BY <2>5, <2>6
<1> QED
  BY <1>1, <1>2

(****************************************************************************)
(* The calls that run a loop.  Their bounds are data, so nothing is said by*)
(* induction: a loop that left the good outcomes would have a least step at*)
(* which it does, and the step before it contradicts that.                 *)
(****************************************************************************)

\* A set of numbers has a least one.
LEMMA LeastOf ==
    ASSUME NEW T \in SUBSET Nat, T # {}
    PROVE  \E x \in T : \A y \in T : x <= y
<1>1. PICK x \in T : \A y \in T : ~ (<<y, x>> \in OpToRel(<, Nat))
  BY NatLessThanWellFounded, WFMin
<1>2. \A y \in T : ~ (y < x)
  BY <1>1 DEF OpToRel
<1> QED
  BY <1>2

\* The least one is Min.
LEMMA MinIsMember ==
    ASSUME NEW T \in SUBSET Nat, T # {}
    PROVE  Min(T) \in T
<1>1. \E x \in T : \A y \in T : x <= y
  BY LeastOf
<1> QED
  BY <1>1 DEF Min

\* What holds at first and stays from one step to the next holds to the end.
LEMMA StepByStep ==
    ASSUME NEW n \in Nat, NEW h, NEW S, h[0] \in S[0],
           \A k \in 1 .. n : h[k - 1] \in S[k - 1] => h[k] \in S[k]
    PROVE  \A k \in 0 .. n : h[k] \in S[k]
<1> DEFINE T == {k \in 0 .. n : h[k] \notin S[k]}
<1>1. T \in SUBSET Nat
  OBVIOUS
<1>2. ASSUME T # {} PROVE FALSE
  <2>1. PICK k \in T : \A j \in T : k <= j
    BY <1>1, <1>2, LeastOf
  <2>2. k \in 0 .. n /\ h[k] \notin S[k]
    BY <2>1
  <2>3. k # 0
    BY <2>2
  <2>4. k \in 1 .. n /\ k - 1 \in 0 .. n /\ ~ (k <= k - 1)
    BY <2>2, <2>3
  <2>5. h[k - 1] \in S[k - 1]
    BY <2>1, <2>4
  <2> QED
    BY <2>2, <2>4, <2>5
<1> QED
  BY <1>2

\* A recursion over the numbers up to n has a solution.
Solves(g, m, base, F) == g = [k \in 0 .. m |-> IF k = 0 THEN base ELSE F[k][g[k - 1]]]

\* A recursive function over 0 .. n exists.
LEMMA Recursion ==
    ASSUME NEW n \in Nat, NEW base, NEW F
    PROVE  \E g : Solves(g, n, base, F)
<1> DEFINE h == [m \in 0 .. n |-> IF \E g : Solves(g, m, base, F) THEN TRUE ELSE FALSE]
           S == [m \in 0 .. n |-> {TRUE}]
<1>1. h[0] \in S[0]
  <2> DEFINE g == [k \in 0 .. 0 |-> base]
  <2>1. g = [k \in 0 .. 0 |-> IF k = 0 THEN base ELSE F[k][g[k - 1]]]
    OBVIOUS
  <2>2. Solves(g, 0, base, F)
    BY <2>1 DEF Solves
  <2>3. \E f : Solves(f, 0, base, F)
    BY <2>2
  <2>4. 0 \in 0 .. n
    OBVIOUS
  <2> QED
    BY <2>3, <2>4
<1>2. ASSUME NEW m \in 1 .. n, h[m - 1] \in S[m - 1]
      PROVE  h[m] \in S[m]
  <2>1. m - 1 \in 0 .. n /\ m \in 0 .. n /\ m \in Nat /\ m # 0
    OBVIOUS
  <2>2. PICK g : Solves(g, m - 1, base, F)
    BY <1>2, <2>1
  <2> DEFINE e == [k \in 0 .. m |-> IF k < m THEN g[k] ELSE F[m][g[m - 1]]]
  <2>3. g = [k \in 0 .. m - 1 |-> IF k = 0 THEN base ELSE F[k][g[k - 1]]]
    BY <2>2 DEF Solves
  <2>4. \A k \in 0 .. m - 1 : g[k] = IF k = 0 THEN base ELSE F[k][g[k - 1]]
    BY <2>3
  <2>5. \A k \in 0 .. m : e[k] = IF k < m THEN g[k] ELSE F[m][g[m - 1]]
    OBVIOUS
  <2>6. e = [k \in 0 .. m |-> e[k]]
    OBVIOUS
  <2> HIDE DEF e
  <2>7. ASSUME NEW k \in 0 .. m PROVE e[k] = IF k = 0 THEN base ELSE F[k][e[k - 1]]
    <3>1. CASE k = m
      <4>1. m - 1 \in 0 .. m /\ m - 1 < m /\ ~ (m < m)
        BY <2>1
      <4>2. e[m - 1] = g[m - 1] /\ e[m] = F[m][g[m - 1]]
        BY <2>5, <4>1
      <4> QED
        BY <2>1, <3>1, <4>2
    <3>2. CASE k # m
      <4>1. k \in 0 .. m - 1 /\ k < m
        BY <2>1, <3>2
      <4>2. e[k] = g[k] /\ (k # 0 => e[k - 1] = g[k - 1])
        <5>1. k # 0 => k - 1 \in 0 .. m /\ k - 1 < m
          BY <2>1
        <5> QED
          BY <2>5, <4>1, <5>1
      <4> QED
        BY <2>4, <4>1, <4>2
    <3> QED
      BY <3>1, <3>2
  <2>8. Solves(e, m, base, F)
    BY <2>6, <2>7 DEF Solves
  <2>9. \E f : Solves(f, m, base, F)
    BY <2>8
  <2> QED
    BY <2>1, <2>9
<1> HIDE DEF h, S
<1>3. \A m \in 0 .. n : h[m] \in S[m]
  BY <1>1, <1>2, StepByStep
<1>4. n \in 0 .. n
  OBVIOUS
<1> QED
  BY <1>3, <1>4 DEF h, S

\* The function recursion defines, all its values within the sets S[k].
RunsWithin(g, n, base, F, S) ==
  /\ g = [k \in 0 .. n |-> g[k]] /\ g[0] = base
  /\ \A k \in 1 .. n : g[k] = F[k][g[k - 1]]
  /\ \A k \in 0 .. n : g[k] \in S[k]

\* And when its values stay in given sets, so does the solution.
LEMMA RecursionWithin ==
    ASSUME NEW n \in Nat, NEW F, NEW S, NEW base \in S[0],
           \A k \in 1 .. n : \A x \in S[k - 1] : F[k][x] \in S[k]
    PROVE  \E g : RunsWithin(g, n, base, F, S)
<1>1. PICK g : Solves(g, n, base, F)
  BY Recursion
<1>2. g = [k \in 0 .. n |-> IF k = 0 THEN base ELSE F[k][g[k - 1]]]
  BY <1>1 DEF Solves
<1>3. g = [k \in 0 .. n |-> g[k]] /\ g[0] = base
  BY <1>2
<1>4. \A k \in 1 .. n : g[k] = F[k][g[k - 1]]
  BY <1>2
<1>5. \A k \in 0 .. n : g[k] \in S[k]
  <2>1. \A k \in 1 .. n : g[k - 1] \in S[k - 1] => g[k] \in S[k]
    BY <1>4
  <2> QED
    BY <1>3, <2>1, StepByStep
<1> QED
  BY <1>3, <1>4, <1>5 DEF RunsWithin

(****************************************************************************)
(* The containers over the growing buffers: pushing and inserting.         *)
(****************************************************************************)

\* The outcomes of which those that returned hold at least, or just, so many.
Returning(n) == {r \in Outcomes : r.how = "returned" => r.to.size = n}

\* push_back() of a range, one call after another.
LEMMA PushAllSafe ==
    ASSUME NEW b \in Buffers, kind # "fixed", NEW vs \in Seq(Living),
           NEW outcomes \in SUBSET Outcomes, NEW r \in PushAll(outcomes, vs)
    PROVE  r \in Outcomes
<1> DEFINE n == Len(vs)
           Pushed(x, k) == AndThen(x, LAMBDA q : PushBack(q, vs[k]))
           S == [k \in 0 .. n |-> SUBSET Outcomes]
           F == [k \in 1 .. n |-> [x \in SUBSET Outcomes |-> Pushed(x, k)]]
<1>1. n \in Nat /\ \A k \in 1 .. n : vs[k] \in Living
  BY LenProperties, ElementOfSeq
<1>2. ASSUME NEW k \in 1 .. n, NEW x \in SUBSET Outcomes PROVE Pushed(x, k) \in SUBSET Outcomes
  <2>1. <<vs[k]>> \in Seq(Living)
    BY <1>1
  <2>2. ASSUME NEW q \in x PROVE q \in Outcomes /\ q.to \in Buffers
    BY DEF Outcomes
  <2>3. ASSUME NEW q \in x, NEW p \in PushBack(q.to, vs[k]) PROVE p \in Outcomes
    BY <2>1, <2>2, AppendCopiesSafe DEF PushBack
  <2> QED
    BY <2>2, <2>3 DEF AndThen
<1> HIDE DEF Pushed
<1>3. \A k \in 1 .. n : \A x \in S[k - 1] : F[k][x] = Pushed(x, k) /\ F[k][x] \in S[k]
  BY <1>1, <1>2
<1>4. S[0] = SUBSET Outcomes /\ outcomes \in S[0]
  BY <1>1
<1> HIDE DEF F, S
<1>4a. \A k \in 1 .. n : \A x \in S[k - 1] : F[k][x] \in S[k]
  BY <1>3
<1> HIDE DEF n
<1>4b. PICK g : RunsWithin(g, n, outcomes, F, S)
  BY <1>1, <1>4, <1>4a, RecursionWithin
<1>5. /\ g = [k \in 0 .. n |-> g[k]] /\ g[0] = outcomes
      /\ \A k \in 1 .. n : g[k] = F[k][g[k - 1]]
      /\ \A k \in 0 .. n : g[k] \in S[k]
  BY <1>4b DEF RunsWithin
<1>6. g = [k \in 0 .. n |-> IF k = 0 THEN outcomes ELSE Pushed(g[k - 1], k)]
  <2>1. ASSUME NEW k \in 1 .. n PROVE g[k] = Pushed(g[k - 1], k)
    <3>1. k - 1 \in 0 .. n
      BY <1>1
    <3>2. g[k - 1] \in S[k - 1]
      BY <1>5, <3>1
    <3> QED
      BY <1>3, <1>5, <3>2
  <2> QED
    BY <1>1, <1>5, <2>1
<1> DEFINE after == CHOOSE f : f = [k \in 0 .. n |-> IF k = 0 THEN outcomes ELSE Pushed(f[k - 1], k)]
<1>7. after = [k \in 0 .. n |-> IF k = 0 THEN outcomes ELSE Pushed(after[k - 1], k)]
  BY <1>6
<1>8. PushAll(outcomes, vs) = after[n]
  BY DEF PushAll, Repeated, Pushed, n
<1> HIDE DEF after
<1>9. \A k \in 0 .. n : after[k] \in S[k]
  <2>1. after[0] \in S[0]
    BY <1>1, <1>4, <1>7
  <2>2. \A k \in 1 .. n : after[k - 1] \in S[k - 1] => after[k] \in S[k]
    BY <1>1, <1>3, <1>7
  <2> QED
    BY <1>1, <2>1, <2>2, StepByStep
<1> QED
  BY <1>1, <1>8, <1>9 DEF S

\* emplace() opens the gap with a copy of the last element behind it.
LEMMA AppendBackSafe ==
    ASSUME NEW b \in Buffers, kind # "fixed", b.size > 0, NEW r \in AppendBack(b)
    PROVE  r \in Returning(b.size + 1)
<1>1. b.size \in Nat /\ b.size + 1 \in Nat /\ Capacity(b) = Len(b.cells) /\ Len(b.cells) \in Nat
  BY BufferIs
<1>2. CASE b.size = Capacity(b)
  <2>1. \/ r \in Outcome(b, "threw")
        \/ \E q \in Grow(b, b.size + 1) : (q.how # "returned" /\ r = q) \/ r \in Outcome(q.to, "freed")
    BY <1>2 DEF AppendBack, Throws
  <2>2. Grow(b, b.size + 1) = Reserve(b, b.size + 1)
    <3>1. b.size + 1 > Capacity(b)
      BY <1>1, <1>2
    <3> QED
      BY <3>1 DEF Reserve
  <2>3. ASSUME NEW q \in Grow(b, b.size + 1), (q.how # "returned" /\ r = q) \/ r \in Outcome(q.to, "freed")
        PROVE  r \in Returning(b.size + 1)
    <3>1. q \in Outcomes
      BY <1>1, <2>2, ReserveSafe
    <3>2. q.to \in Buffers
      BY <3>1 DEF Outcomes
    <3> QED
      BY <2>3, <3>1, <3>2, OutcomeIs DEF Returning
  <2> QED
    BY <2>1, <2>3, OutcomeIs DEF Returning
<1>3. CASE b.size # Capacity(b)
  <2>1. b.cells[b.size] \in Living
    BY <1>1, BufferIs
  <2> DEFINE vs == <<b.cells[b.size]>>
  <2>2. vs \in Seq(Living) /\ Len(vs) = 1
    BY <2>1
  <2>3. r \in AppendCopies(b, vs)
    BY <1>3 DEF AppendBack, PushBack
  <2> HIDE DEF vs
  <2> QED
    BY <2>2, <2>3, AppendCopiesSafe DEF Returning
<1> QED
  BY <1>2, <1>3

\* Elements shifted up by one: as many objects as before.
LEMMA ShiftUpSafe ==
    ASSUME NEW b \in Buffers, NEW k \in Nat, k < b.size
    PROVE  ShiftUp(b, k) \in Buffers /\ ShiftUp(b, k).size = b.size
<1> DEFINE to == b.size - k
           from == b.size - k - 1
           c == MoveObjects(b.cells, to, from, k, AssignOver)
<1>1. Filled(b.cells, b.size) /\ b.size \in Nat
  BY BufferIs
<1>2. to \in Nat /\ from \in Nat /\ to + k <= b.size /\ from + k <= b.size
  BY <1>1
<1>3. ShiftUp(b, k) = CellsTo(b, c)
  BY DEF ShiftUp, CellsTo
<1> HIDE DEF to, from
<1>4. Filled(c, b.size) /\ Len(c) = Len(b.cells)
  BY <1>1, <1>2, MovedOverFilled
<1> HIDE DEF c
<1> QED
  BY <1>3, <1>4, CellsEdited

\* The new element in its place.
Placed(q, index, v) == CellsTo(q, ConstructAt(DestroyCells(q.cells, {index + 1}), index + 1, v))

\* emplace() in the middle: wherever it throws, the cells agree with the size.
LEMMA EmplaceSafe ==
    ASSUME NEW b \in Buffers, kind # "fixed", NEW index \in 0 .. b.size, NEW v \in Living,
           NEW r \in Emplace(b, index, v)
    PROVE  r \in Returning(b.size + 1)
<1>1. b.size \in Nat
  BY BufferIs
<1>2. CASE index = b.size
  <2>1. r \in AppendConstruct(b, v)
    BY <1>2 DEF Emplace
  <2> QED
    BY <2>1, AppendConstructSafe DEF Returning
<1>3. CASE index # b.size
  <2> DEFINE n == b.size - index
             last == n - 1
  <2>1. n \in Nat /\ n # 0 /\ b.size > 0 /\ index + 1 \in 1 .. b.size + 1
    BY <1>1, <1>3
  <2>2. \/ r \in AppendBack(b) /\ r.how # "returned"
        \/ \E q \in AppendBack(b) :
             /\ q.how = "returned"
             /\ \/ r \in Outcome(Placed(ShiftUp(q.to, n), index, v), "returned")
                \/ r \in Outcome(ShiftUp(q.to, n), "broken")
                \/ \E k \in 0 .. last : r \in Outcome(ShiftUp(q.to, k), "threw")
    <3> DEFINE Body(q) ==
                 LET shifted == ShiftUp(q, n)
                 IN Returns([shifted EXCEPT !.cells =
                               ConstructAt(DestroyCells(@, {index + 1}), index + 1, v)])
                    \cup MayThrow("copy", Breaks(shifted))
                    \cup MayThrow("move", {[to |-> ShiftUp(q, k), how |-> "threw"] : k \in 0 .. last})
    <3>1. r \in AndThen(AppendBack(b), Body)
      BY <1>3 DEF Emplace
    <3>2. ASSUME NEW q, r \in Body(q)
          PROVE  \/ r \in Outcome(Placed(ShiftUp(q, n), index, v), "returned")
                 \/ r \in Outcome(ShiftUp(q, n), "broken")
                 \/ \E k \in 0 .. last : r \in Outcome(ShiftUp(q, k), "threw")
      <4> HIDE DEF n, last
      <4> QED
        BY <3>2 DEF Returns, Breaks, Outcome, MayThrow, Placed, CellsTo
    <3> HIDE DEF Body, n, last
    <3> QED
      BY <3>1, <3>2 DEF AndThen
  <2>3. CASE r \in AppendBack(b) /\ r.how # "returned"
    BY <2>1, <2>3, AppendBackSafe
  <2>4. ASSUME NEW q \in AppendBack(b), q.how = "returned",
               \/ r \in Outcome(Placed(ShiftUp(q.to, n), index, v), "returned")
               \/ r \in Outcome(ShiftUp(q.to, n), "broken")
               \/ \E k \in 0 .. last : r \in Outcome(ShiftUp(q.to, k), "threw")
        PROVE  r \in Returning(b.size + 1)
    <3>1. q.to \in Buffers /\ q.to.size = b.size + 1
      BY <2>1, <2>4, AppendBackSafe DEF Returning, Outcomes
    <3>2. n < q.to.size /\ \A k \in 0 .. last : k \in Nat /\ k < q.to.size
      BY <1>1, <2>1, <3>1
    <3>3. \A k \in 0 .. last : ShiftUp(q.to, k) \in Buffers
      BY <3>1, <3>2, ShiftUpSafe
    <3> HIDE DEF n, last
    <3> DEFINE s == ShiftUp(q.to, n)
               c == ConstructAt(DestroyCells(s.cells, {index + 1}), index + 1, v)
    <3>4. s \in Buffers /\ s.size = b.size + 1
      BY <2>1, <3>1, <3>2, ShiftUpSafe
    <3>5. r \in Outcome(CellsTo(s, c), "returned") \/ r \in Outcome(s, "broken")
          \/ \E k \in 0 .. last : r \in Outcome(ShiftUp(q.to, k), "threw")
      BY <2>4 DEF Placed
    <3> HIDE DEF s
    <3>6. Filled(s.cells, s.size) /\ index + 1 \in 1 .. s.size
      BY <2>1, <3>4, BufferIs
    <3>7. Filled(c, s.size) /\ Len(c) = Len(s.cells)
      BY <3>6, ReplacedFilled
    <3> HIDE DEF c
    <3>8. CellsTo(s, c) \in Buffers /\ CellsTo(s, c).size = b.size + 1
      BY <3>4, <3>7, CellsEdited
    <3> QED
      BY <3>3, <3>4, <3>5, <3>8, OutcomeIs DEF Returning
  <2> QED
    BY <2>2, <2>3, <2>4
<1> QED
  BY <1>2, <1>3

\* insert() of a range, one emplace() after another.
LEMMA InsertRangeSafe ==
    ASSUME NEW b \in Buffers, kind # "fixed", NEW index \in 0 .. b.size, NEW vs \in Seq(Living),
           NEW r \in InsertRange(b, index, vs)
    PROVE  r \in Outcomes
<1> DEFINE n == Len(vs)
           base == Returns(b)
           Inserted(x, k) == AndThen(x, LAMBDA q : Emplace(q, index + k - 1, vs[k]))
           S == [k \in 0 .. n |-> SUBSET Returning(b.size + k)]
           F == [k \in 1 .. n |-> [x \in SUBSET Returning(b.size + (k - 1)) |-> Inserted(x, k)]]
<1>1. n \in Nat /\ b.size \in Nat /\ \A k \in 1 .. n : vs[k] \in Living
  BY LenProperties, ElementOfSeq, BufferIs
<1>2. ASSUME NEW k \in 1 .. n, NEW x \in SUBSET Returning(b.size + (k - 1))
      PROVE  Inserted(x, k) \in SUBSET Returning(b.size + k)
  <2> DEFINE place == index + k - 1
             size == b.size + (k - 1)
  <2>1. place \in 0 .. size /\ vs[k] \in Living /\ size + 1 = b.size + k
    BY <1>1
  <2> HIDE DEF place
  <2>2. ASSUME NEW q \in x
        PROVE  /\ q.to \in Buffers
               /\ q.how = "returned" => q.to.size = size
               /\ q.how # "returned" => q \in Returning(size + 1)
    BY DEF Outcomes, Returning
  <2> HIDE DEF size
  <2>3. ASSUME NEW q \in x, q.how = "returned", NEW p \in Emplace(q.to, place, vs[k])
        PROVE  p \in Returning(size + 1)
    <3>1. q.to \in Buffers /\ q.to.size = size /\ place \in 0 .. q.to.size
      BY <2>1, <2>2, <2>3
    <3> QED
      BY <2>1, <2>3, <3>1, EmplaceSafe
  <2>4. Inserted(x, k) = UNION {IF q.how = "returned" THEN Emplace(q.to, place, vs[k]) ELSE {q} : q \in x}
    BY DEF AndThen, place
  <2> HIDE DEF Inserted
  <2>5. Inserted(x, k) \in SUBSET Returning(size + 1)
    BY <2>2, <2>3, <2>4
  <2> QED
    BY <2>1, <2>5
<1> HIDE DEF Inserted
<1>3. \A k \in 1 .. n : \A x \in S[k - 1] : F[k][x] = Inserted(x, k) /\ F[k][x] \in S[k]
  <2> SUFFICES ASSUME NEW k \in 1 .. n, NEW x \in S[k - 1]
               PROVE  F[k][x] = Inserted(x, k) /\ F[k][x] \in S[k]
    OBVIOUS
  <2>1. k \in 0 .. n /\ k - 1 \in 0 .. n
    BY <1>1
  <2>2. /\ S[k - 1] = SUBSET Returning(b.size + (k - 1))
        /\ S[k] = SUBSET Returning(b.size + k)
    BY <2>1
  <2> HIDE DEF S
  <2>3. x \in SUBSET Returning(b.size + (k - 1))
    BY <2>2
  <2>4. F[k][x] = Inserted(x, k)
    BY <2>3
  <2> HIDE DEF F
  <2>5. Inserted(x, k) \in SUBSET Returning(b.size + k)
    BY <1>2, <2>3
  <2> QED
    BY <2>2, <2>4, <2>5
<1>4. base \in S[0] /\ S[n] = SUBSET Returning(b.size + n)
  <2>1. ASSUME NEW q \in base PROVE q \in Returning(b.size)
    BY OutcomeIs DEF Returns, Returning
  <2> QED
    BY <1>1, <2>1
<1> HIDE DEF F, S, n, base
<1>5. \A k \in 1 .. n : \A x \in S[k - 1] : F[k][x] \in S[k]
  BY <1>3
<1>6. PICK g : RunsWithin(g, n, base, F, S)
  BY <1>1, <1>4, <1>5, RecursionWithin
<1>7. /\ g = [k \in 0 .. n |-> g[k]] /\ g[0] = base
      /\ \A k \in 1 .. n : g[k] = F[k][g[k - 1]]
      /\ \A k \in 0 .. n : g[k] \in S[k]
  BY <1>6 DEF RunsWithin
<1>8. g = [k \in 0 .. n |-> IF k = 0 THEN base ELSE Inserted(g[k - 1], k)]
  <2>1. ASSUME NEW k \in 1 .. n PROVE g[k] = Inserted(g[k - 1], k)
    <3>1. k - 1 \in 0 .. n
      BY <1>1
    <3>2. g[k - 1] \in S[k - 1]
      BY <1>7, <3>1
    <3> QED
      BY <1>3, <1>7, <3>2
  <2>2. \A k \in 0 .. n : k = 0 \/ k \in 1 .. n
    BY <1>1
  <2>3. \A k \in 0 .. n : g[k] = IF k = 0 THEN base ELSE Inserted(g[k - 1], k)
    BY <1>7, <2>1, <2>2
  <2> QED
    BY <1>7, <2>3
<1> DEFINE after == CHOOSE f : f = [k \in 0 .. n |-> IF k = 0 THEN base ELSE Inserted(f[k - 1], k)]
<1>9. after = [k \in 0 .. n |-> IF k = 0 THEN base ELSE Inserted(after[k - 1], k)]
  BY <1>8
<1>10. InsertRange(b, index, vs) = after[n]
  BY DEF InsertRange, Repeated, Inserted, n, base
<1> HIDE DEF after
<1>11. \A k \in 0 .. n : after[k] \in S[k]
  <2>1. after[0] \in S[0]
    BY <1>1, <1>4, <1>9
  <2>2. \A k \in 1 .. n : after[k - 1] \in S[k - 1] => after[k] \in S[k]
    BY <1>1, <1>3, <1>9
  <2> QED
    BY <1>1, <2>1, <2>2, StepByStep
<1> QED
  BY <1>1, <1>4, <1>10, <1>11 DEF Returning

(****************************************************************************)
(* The other calls of the containers.                                      *)
(****************************************************************************)

\* erase() of a range.
LEMMA EraseSafe ==
    ASSUME NEW b \in Buffers, NEW first \in 0 .. b.size, NEW last \in first .. b.size,
           NEW r \in Erase(b, first, last)
    PROVE  r \in Returning(b.size - (last - first))
<1> DEFINE erased == last - first
           behind == b.size - last
           Shifted(n) == CellsTo(b, MoveObjects(b.cells, first, last, n, AssignOver))
<1>1. b.size \in Nat /\ Filled(b.cells, b.size) /\ first \in Nat /\ last \in Nat
  BY BufferIs
<1>2. erased \in Nat /\ behind \in Nat /\ b.size - erased \in Nat /\ (b.size - erased) + erased <= b.size
  BY <1>1
<1>3. ASSUME NEW n \in 0 .. behind
      PROVE  Shifted(n) \in Buffers /\ Shifted(n).size = b.size
  <2> DEFINE c == MoveObjects(b.cells, first, last, n, AssignOver)
  <2>1. n \in Nat /\ first + n <= b.size /\ last + n <= b.size
    BY <1>1
  <2>2. Filled(c, b.size) /\ Len(c) = Len(b.cells)
    BY <1>1, <2>1, MovedOverFilled
  <2>3. Shifted(n) = CellsTo(b, c)
    OBVIOUS
  <2> HIDE DEF c, Shifted
  <2> QED
    BY <2>2, <2>3, CellsEdited
<1>4. CASE erased = 0
  <2>1. r \in Outcome(b, "returned")
    BY <1>4 DEF Erase, Returns
  <2> QED
    BY <1>1, <1>4, <2>1, OutcomeIs DEF Returning
<1>5. CASE erased # 0
  <2>1. \/ r \in RemoveRange(Shifted(behind), b.size - erased, erased)
        \/ \E n \in 0 .. behind - 1 : r \in Outcome(Shifted(n), "threw")
    BY <1>5 DEF Erase, Outcome, MayThrow, CellsTo
  <2>2. behind \in 0 .. behind /\ \A n \in 0 .. behind - 1 : n \in 0 .. behind
    BY <1>2
  <2> HIDE DEF Shifted, erased, behind
  <2>3. CASE r \in RemoveRange(Shifted(behind), b.size - erased, erased)
    <3>1. Shifted(behind) \in Buffers /\ Shifted(behind).size = b.size
      BY <1>3, <2>2
    <3>2. r \in Outcomes /\ (r.how = "returned" => r.to.size = b.size - erased)
      BY <1>2, <2>3, <3>1, RemoveSafe
    <3> QED
      BY <3>2 DEF Returning, erased
  <2>4. CASE \E n \in 0 .. behind - 1 : r \in Outcome(Shifted(n), "threw")
    BY <1>3, <2>2, <2>4, OutcomeIs DEF Returning
  <2> QED
    BY <2>1, <2>3, <2>4
<1> QED
  BY <1>4, <1>5

\* pop_back().
LEMMA PopBackSafe ==
    ASSUME NEW b \in Buffers, b.size > 0, NEW r \in PopBack(b)
    PROVE  r \in Outcomes
<1>1. b.size \in Nat /\ b.size - 1 \in Nat /\ (b.size - 1) + 1 <= b.size /\ 1 \in Nat
  BY BufferIs
<1>2. r \in RemoveRange(b, b.size - 1, 1)
  BY DEF PopBack
<1> QED
  BY <1>1, <1>2, RemoveSafe

\* Removing the first element equal to a value.
LEMMA RemoveFirstOfSafe ==
    ASSUME NEW b \in Buffers, NEW v, NEW r \in RemoveFirstOf(b, v)
    PROVE  r \in Outcomes
<1> DEFINE place == {i \in 1 .. b.size : b.cells[i] = v}
<1>1. b.size \in Nat
  BY BufferIs
<1>2. CASE place = {}
  <2>1. r \in Outcome(b, "returned")
    BY <1>2 DEF RemoveFirstOf, Returns
  <2> QED
    BY <2>1, OutcomeIs
<1>3. CASE place # {}
  <2>1. place \in SUBSET Nat
    BY <1>1
  <2>2. Min(place) \in place
    BY <1>3, <2>1, MinIsMember
  <2>3. Min(place) \in 1 .. b.size
    BY <2>2
  <2>4. r \in Erase(b, Min(place) - 1, Min(place))
    BY <1>3 DEF RemoveFirstOf
  <2> HIDE DEF place
  <2>5. Min(place) - 1 \in 0 .. b.size /\ Min(place) \in Min(place) - 1 .. b.size
    BY <1>1, <2>3
  <2> QED
    BY <2>4, <2>5, EraseSafe DEF Returning
<1> QED
  BY <1>2, <1>3

\* Removing all of them: the elements to keep are moved to the front first.
LEMMA RemoveAllOfSafe ==
    ASSUME NEW b \in Buffers, NEW v, NEW r \in RemoveAllOf(b, v)
    PROVE  r \in Outcomes
<1> DEFINE n == b.size
           base == Returns(b)
           At(q, k) == k - 1 - (b.size - q.size)
           Step(q, k) == IF q.cells[At(q, k) + 1] = v THEN Erase(q, At(q, k), At(q, k) + 1) ELSE Returns(q)
           Removed(x, k) == AndThen(x, LAMBDA q : Step(q, k))
           Left(k) == {q \in Outcomes : q.how = "returned" => q.to.size <= n /\ n - q.to.size <= k}
           S == [k \in 0 .. n |-> SUBSET Left(k)]
           F == [k \in 1 .. n |-> [x \in SUBSET Left(k - 1) |-> Removed(x, k)]]
<1>1. n \in Nat
  BY BufferIs
<1>2. ASSUME NEW k \in 1 .. n, NEW x \in SUBSET Left(k - 1)
      PROVE  Removed(x, k) \in SUBSET Left(k)
  <2>1. ASSUME NEW q \in x
        PROVE  /\ q.to \in Buffers /\ q \in Outcomes
               /\ q.how = "returned" => q.to.size <= n /\ n - q.to.size <= k - 1
               /\ q.how # "returned" => q \in Left(k)
    BY DEF Outcomes
  <2>2. ASSUME NEW q \in Buffers, q.size <= n, n - q.size <= k - 1, NEW p \in Step(q, k)
        PROVE  p \in Left(k)
    <3> DEFINE place == At(q, k)
    <3>1. q.size \in Nat
      BY BufferIs
    <3>2. place \in 0 .. q.size /\ place + 1 \in place .. q.size /\ place + 1 - place = 1
      BY <1>1, <2>2, <3>1
    <3>3. p \in Erase(q, place, place + 1) \/ p \in Outcome(q, "returned")
      BY <2>2 DEF Returns
    <3> HIDE DEF place, n, Step, Removed, At
    <3>4. CASE p \in Erase(q, place, place + 1)
      <4>1. p \in Outcomes /\ (p.how = "returned" => p.to.size = q.size - 1)
        BY <3>2, <3>4, EraseSafe DEF Returning
      <4> QED
        BY <1>1, <2>2, <3>1, <4>1
    <3>5. CASE p \in Outcome(q, "returned")
      <4>1. p \in Outcomes /\ p.to = q
        BY <3>5, OutcomeIs
      <4> QED
        BY <1>1, <2>2, <3>1, <4>1
    <3> QED
      BY <3>3, <3>4, <3>5
  <2>3. Removed(x, k) = UNION {IF q.how = "returned" THEN Step(q.to, k) ELSE {q} : q \in x}
    BY DEF AndThen
  <2> HIDE DEF Removed, Step, n
  <2>4. ASSUME NEW q \in x, q.how = "returned", NEW p \in Step(q.to, k) PROVE p \in Left(k)
    BY <2>1, <2>2, <2>4
  <2> HIDE DEF Left
  <2> QED
    BY <2>1, <2>3, <2>4
<1>3. \A k \in 1 .. n : \A x \in S[k - 1] : F[k][x] = Removed(x, k) /\ F[k][x] \in S[k]
  <2> HIDE DEF Removed, Left
  <2> QED
    BY <1>1, <1>2
<1>4. base \in S[0] /\ S[n] \subseteq SUBSET Outcomes
  <2>1. ASSUME NEW q \in base PROVE q \in Left(0)
    BY <1>1, OutcomeIs DEF Returns
  <2> QED
    BY <1>1, <2>1
<1>5. RemoveAllOf(b, v) = Repeated(base, n, Step)
  BY DEF RemoveAllOf
<1> HIDE DEF F, S, n, base, Step, Left
<1>6. \A k \in 1 .. n : \A x \in S[k - 1] : F[k][x] \in S[k]
  BY <1>3
<1>7. PICK g : RunsWithin(g, n, base, F, S)
  BY <1>1, <1>4, <1>6, RecursionWithin
<1>8. /\ g = [k \in 0 .. n |-> g[k]] /\ g[0] = base
      /\ \A k \in 1 .. n : g[k] = F[k][g[k - 1]]
      /\ \A k \in 0 .. n : g[k] \in S[k]
  BY <1>7 DEF RunsWithin
<1> DEFINE after == CHOOSE f : f = [k \in 0 .. n |-> IF k = 0 THEN base ELSE Removed(f[k - 1], k)]
<1>9. RemoveAllOf(b, v) = after[n]
  BY <1>5 DEF Repeated
<1> HIDE DEF Removed
<1>10. g = [k \in 0 .. n |-> IF k = 0 THEN base ELSE Removed(g[k - 1], k)]
  <2>1. ASSUME NEW k \in 1 .. n PROVE g[k] = Removed(g[k - 1], k)
    <3>1. k - 1 \in 0 .. n
      BY <1>1
    <3>2. g[k - 1] \in S[k - 1]
      BY <1>8, <3>1
    <3> QED
      BY <1>3, <1>8, <3>2
  <2>2. \A k \in 0 .. n : k = 0 \/ k \in 1 .. n
    BY <1>1
  <2>3. \A k \in 0 .. n : g[k] = IF k = 0 THEN base ELSE Removed(g[k - 1], k)
    BY <1>8, <2>1, <2>2
  <2> QED
    BY <1>8, <2>3
<1>11. after = [k \in 0 .. n |-> IF k = 0 THEN base ELSE Removed(after[k - 1], k)]
  BY <1>10
<1> HIDE DEF after
<1>12. \A k \in 0 .. n : after[k] \in S[k]
  <2>1. after[0] \in S[0]
    BY <1>1, <1>4, <1>11
  <2>2. \A k \in 1 .. n : after[k - 1] \in S[k - 1] => after[k] \in S[k]
    BY <1>1, <1>3, <1>11
  <2> QED
    BY <1>1, <2>1, <2>2, StepByStep
<1>13. n \in 0 .. n
  BY <1>1
<1> QED
  BY <1>4, <1>9, <1>12, <1>13

\* assign() to a fixed array, element by element.
LEMMA AssignSlotsSafe ==
    ASSUME NEW b \in Buffers, NEW vs \in Seq(Living), NEW r \in AssignSlots(b, vs)
    PROVE  r \in Outcomes
<1> DEFINE c(k) == AssignCells(b.cells, SubSeq(vs, 1, k))
           inside == Min({b.size, Len(vs)})
           last == inside - 1
<1>1. Len(vs) \in Nat /\ b.size \in Nat /\ Filled(b.cells, b.size)
  BY BufferIs, LenProperties
<1>2. inside \in 0 .. b.size /\ inside <= Len(vs)
  BY <1>1, MinOfTwo
<1>3. \/ r \in Outcome(CellsTo(b, c(inside)), "returned")
      \/ r \in Outcome(b, "broken")
      \/ \E k \in 0 .. last : r \in Outcome(CellsTo(b, c(k)), "threw")
  <2> DEFINE Assigned(k) == [b EXCEPT !.cells = AssignCells(@, SubSeq(vs, 1, k))]
  <2>1. AssignSlots(b, vs) = Returns(Assigned(inside))
          \cup (IF b.size < Len(vs) THEN Breaks(b) ELSE {})
          \cup MayThrow("copy", {[to |-> Assigned(k), how |-> "threw"] : k \in 0 .. last})
    BY DEF AssignSlots
  <2>2. \A k : Assigned(k) = CellsTo(b, c(k))
    BY DEF CellsTo
  <2> HIDE DEF Assigned, inside, last, c
  <2> QED
    BY <2>1, <2>2 DEF Returns, Breaks, Outcome, MayThrow
<1>4. inside \in 0 .. inside /\ \A k \in 0 .. last : k \in 0 .. inside
  <2> HIDE DEF inside
  <2> QED
    BY <1>1, <1>2
<1> HIDE DEF last
<1>5. ASSUME NEW k \in 0 .. inside PROVE CellsTo(b, c(k)) \in Buffers
  <2> DEFINE first == SubSeq(vs, 1, k)
  <2> HIDE DEF inside
  <2>1. k \in Nat /\ k <= b.size /\ k <= Len(vs)
    BY <1>1, <1>2
  <2>2. first \in Seq(Living) /\ Len(first) = k
    <3>1. 1 \in Int /\ k \in Int /\ \A i \in 1 .. k : vs[i] \in Living
      BY <1>1, <2>1, ElementOfSeq
    <3>2. /\ SubSeq(vs, 1, k) \in Seq(Living)
          /\ Len(SubSeq(vs, 1, k)) = IF 1 <= k THEN k - 1 + 1 ELSE 0
      BY <3>1, SubSeqProperties
    <3> QED
      BY <2>1, <3>2
  <2> HIDE DEF first
  <2>3. Filled(AssignCells(b.cells, first), b.size) /\ Len(AssignCells(b.cells, first)) = Len(b.cells)
    BY <1>1, <2>1, <2>2, AssignedFilled
  <2>4. c(k) = AssignCells(b.cells, first)
    BY DEF first
  <2> HIDE DEF c
  <2> QED
    BY <2>3, <2>4, CellsEdited
<1> HIDE DEF c, inside
<1> QED
  BY <1>3, <1>4, <1>5, OutcomeIs

\* fill() of a fixed array.
LEMMA FillSlotsSafe ==
    ASSUME NEW b \in Buffers, NEW v \in Living, NEW r \in FillSlots(b, v)
    PROVE  r \in Outcomes
<1> DEFINE vs == [i \in 1 .. InlineCapacity |-> v]
<1>1. vs \in Seq(Living)
  BY BufferAssumption, CopiesAreLiving
<1>2. PICK q \in AssignSlots(b, vs) : r = IF q.how = "threw" THEN [q EXCEPT !.how = "broken"] ELSE q
  BY DEF FillSlots
<1> HIDE DEF vs
<1>3. q \in Outcomes
  BY <1>1, AssignSlotsSafe
<1> QED
  BY <1>2, <1>3 DEF Outcomes

\* append() of a range.
LEMMA AppendRangeSafe ==
    ASSUME NEW b \in Buffers, kind # "fixed", NEW vs \in Seq(Living), NEW r \in AppendRange(b, vs)
    PROVE  r \in Outcomes
<1>1. b.size + Len(vs) \in Nat
  BY BufferIs, LenProperties
<1>2. Reserve(b, b.size + Len(vs)) \in SUBSET Outcomes
  BY <1>1, ReserveSafe
<1> QED
  BY <1>2, PushAllSafe DEF AppendRange

\* assign() of a range: what was there goes first.
LEMMA AssignRangeSafe ==
    ASSUME NEW b \in Buffers, kind # "fixed", NEW vs \in Seq(Living), NEW r \in AssignRange(b, vs)
    PROVE  r \in Outcomes
<1>1. Len(vs) \in Nat /\ Clear(b) \in Buffers
  BY ClearSafe, LenProperties
<1>2. Reserve(Clear(b), Len(vs)) \in SUBSET Outcomes
  BY <1>1, ReserveSafe
<1> QED
  BY <1>1, <1>2, PushAllSafe DEF AssignRange

\* assign() of a number of copies.
LEMMA AssignCountSafe ==
    ASSUME NEW b \in Buffers, NEW n \in Nat, NEW v \in Living, NEW r \in AssignCount(b, n, v)
    PROVE  r \in Outcomes
<1>1. Clear(b) \in Buffers
  BY ClearSafe
<1> QED
  BY <1>1, ResizedSafe DEF AssignCount

(****************************************************************************)
(* Every call keeps every buffer.                                          *)
(****************************************************************************)

\* The inductive invariant: every buffer is one of Buffers, between the calls and
\* after a call that threw.
BuffersInv ==
  /\ how \in {"returned", "threw", "broken", "freed"}
  /\ buf \in [Objects -> Buffers]

\* The arguments of the calls.
LEMMA ArgumentsAreLiving ==
  /\ Elements \subseteq Living
  /\ SeqOf(Elements, 2) \subseteq Seq(Living)
  /\ \A m : Arguments(m) \subseteq Seq(Living)
<1>1. Elements \subseteq Living
  BY DEF Living
<1>2. ASSUME NEW vs \in SeqOf(Elements, 2) PROVE vs \in Seq(Living)
  <2>1. PICK m \in 0 .. 2 : vs \in [1 .. m -> Elements]
    BY <1>2 DEF SeqOf
  <2>2. m \in Nat /\ vs \in [1 .. m -> Living]
    BY <1>1, <2>1
  <2> QED
    BY <2>2, CellsAreSeq
<1> QED
  BY <1>1, <1>2 DEF Arguments

\* A call on one object, and one on both.
LEMMA CallKeeps ==
    ASSUME BuffersInv, NEW o \in Objects, NEW outcomes \in SUBSET Outcomes, Call(o, outcomes)
    PROVE  BuffersInv'
<1>1. kind' = kind
  BY DEF Call
<1>2. Buffers' = Buffers
  BY <1>1 DEF Buffers, InlineSize
<1>3. PICK r \in Outcomes : how' = r.how /\ buf' = [buf EXCEPT ![o] = r.to]
  BY DEF Call
<1>4. r.to \in Buffers /\ r.how \in {"returned", "threw", "broken", "freed"}
  BY <1>3 DEF Outcomes
<1> QED
  BY <1>2, <1>3, <1>4 DEF BuffersInv

\* A call on two buffers.
LEMMA CallBothKeeps ==
    ASSUME BuffersInv, NEW o \in Objects, NEW other \in Objects, NEW pairs \in SUBSET Pairs,
           CallBoth(o, other, pairs)
    PROVE  BuffersInv'
<1>1. kind' = kind
  BY DEF CallBoth
<1>2. Buffers' = Buffers
  BY <1>1 DEF Buffers, InlineSize
<1>3. PICK r \in Pairs : how' = r.how /\ buf' = [buf EXCEPT ![o] = r.to, ![other] = r.from]
  BY DEF CallBoth
<1>4. r.to \in Buffers /\ r.from \in Buffers /\ r.how \in {"returned", "threw", "broken", "freed"}
  BY <1>3 DEF Pairs
<1> QED
  BY <1>2, <1>3, <1>4 DEF BuffersInv

\* The calls of the buffers themselves.
LEMMA BufferNextKeeps ==
  BuffersInv /\ BufferNext => BuffersInv'
<1> SUFFICES ASSUME BuffersInv, BufferNext
             PROVE  BuffersInv'
  OBVIOUS
<1>1. "x" \in Objects /\ \A o \in Objects : buf[o] \in Buffers /\ buf[o].size \in Nat
  BY BufferIs DEF BuffersInv, Objects
<1>2. CASE DoReserve("x")
  <2>1. PICK n \in 0 .. MaxCells : kind # "fixed" /\ Call("x", Reserve(buf["x"], n))
    BY <1>2 DEF DoReserve
  <2>2. n \in Nat
    BY <2>1, BufferAssumption
  <2>3. Reserve(buf["x"], n) \in SUBSET Outcomes
    BY <1>1, <2>1, <2>2, ReserveSafe
  <2> QED
    BY <1>1, <2>1, <2>3, CallKeeps
<1>3. CASE DoShrink("x")
  <2>1. ShrinkToFit(buf["x"]) \in SUBSET Outcomes
    BY <1>1, <1>3, ShrinkSafe DEF DoShrink
  <2> QED
    BY <1>1, <1>3, <2>1, CallKeeps DEF DoShrink
<1>4. CASE DoClear("x")
  <2>1. Returns(Clear(buf["x"])) \in SUBSET Outcomes
    BY <1>1, ClearSafe, OutcomeIs DEF Returns
  <2> QED
    BY <1>1, <1>4, <2>1, CallKeeps DEF DoClear
<1>5. CASE DoReset("x")
  <2>1. Returns(Reset(buf["x"])) \in SUBSET Outcomes
    BY <1>1, ResetSafe, OutcomeIs DEF Returns
  <2> QED
    BY <1>1, <1>5, <2>1, CallKeeps DEF DoReset
<1>6. CASE DoAppend("x")
  <2>1. PICK vs \in SeqOf(Elements, 2) : Call("x", AppendCopies(buf["x"], vs))
    BY <1>6 DEF DoAppend
  <2>2. AppendCopies(buf["x"], vs) \in SUBSET Outcomes
    BY <1>1, <2>1, ArgumentsAreLiving, AppendCopiesSafe
  <2> QED
    BY <1>1, <2>1, <2>2, CallKeeps
<1>7. CASE DoAppendMove("x")
  <2>1. PICK vs \in SeqOf(Elements, 2) : Call("x", AppendMove(buf["x"], vs))
    BY <1>7 DEF DoAppendMove
  <2>2. AppendMove(buf["x"], vs) \in SUBSET Outcomes
    BY <1>1, <2>1, ArgumentsAreLiving, AppendMoveSafe
  <2> QED
    BY <1>1, <2>1, <2>2, CallKeeps
<1>8. CASE DoAppendConstruct("x")
  <2>1. PICK v \in Elements : Call("x", AppendConstruct(buf["x"], v))
    BY <1>8 DEF DoAppendConstruct
  <2>2. AppendConstruct(buf["x"], v) \in SUBSET Outcomes
    BY <1>1, <2>1, ArgumentsAreLiving, AppendConstructSafe
  <2> QED
    BY <1>1, <2>1, <2>2, CallKeeps
<1>9. CASE DoResize("x")
  <2>1. PICK n \in 0 .. MaxCells, v \in Elements : Call("x", Resized(buf["x"], n, v))
    BY <1>9 DEF DoResize
  <2>2. n \in Nat /\ v \in Living
    BY <2>1, BufferAssumption, ArgumentsAreLiving
  <2>3. Resized(buf["x"], n, v) \in SUBSET Outcomes
    BY <1>1, <2>2, ResizedSafe
  <2> QED
    BY <1>1, <2>1, <2>3, CallKeeps
<1>10. CASE DoRemove("x")
  <2>1. PICK index \in 0 .. buf["x"].size - 1 : \E gone \in 1 .. buf["x"].size - index :
          Call("x", RemoveRange(buf["x"], index, gone))
    BY <1>10 DEF DoRemove
  <2>2. PICK gone \in 1 .. buf["x"].size - index : Call("x", RemoveRange(buf["x"], index, gone))
    BY <2>1
  <2>3. index \in Nat /\ gone \in Nat /\ index + gone <= buf["x"].size
    BY <1>1, <2>1, <2>2
  <2>4. RemoveRange(buf["x"], index, gone) \in SUBSET Outcomes
    BY <1>1, <2>3, RemoveSafe
  <2> QED
    BY <1>1, <2>2, <2>4, CallKeeps
<1>11. ASSUME NEW o \in Objects, NEW other \in Objects,
              DoCopyConstruct(o, other) \/ DoCopyAssign(o, other) \/ DoMove(o, other) \/ DoSwap(o, other)
       PROVE  BuffersInv'
  <2>1. CASE DoCopyConstruct(o, other)
    <3>1. CopyFrom(Empty, buf[other]) \in SUBSET Outcomes
      BY <1>1, CopyFromSafe
    <3> QED
      BY <2>1, <3>1, CallKeeps DEF DoCopyConstruct
  <2>2. CASE DoCopyAssign(o, other)
    <3>1. CopyAssignFrom(buf[o], buf[other]) \in SUBSET Outcomes
      BY <1>1, CopyAssignSafe
    <3> QED
      BY <2>2, <3>1, CallKeeps DEF DoCopyAssign
  <2>3. CASE DoMove(o, other)
    <3>1. Reset(buf[o]) \in Buffers /\ Reset(buf[o]).size = 0 /\ ~ Reset(buf[o]).heap
      BY <1>1, ResetSafe
    <3>2. MoveFrom(Reset(buf[o]), buf[other]) \in SUBSET Pairs
      BY <1>1, <3>1, MoveFromSafe
    <3> QED
      BY <2>3, <3>2, CallBothKeeps DEF DoMove
  <2>4. CASE DoSwap(o, other)
    <3>1. Swap(buf[o], buf[other]) \in SUBSET Pairs
      BY <1>1, SwapSafe
    <3> QED
      BY <2>4, <3>1, CallBothKeeps DEF DoSwap
  <2> QED
    BY <1>11, <2>1, <2>2, <2>3, <2>4
<1> QED
  BY <1>2, <1>3, <1>4, <1>5, <1>6, <1>7, <1>8, <1>9, <1>10, <1>11 DEF BufferNext

\* The calls of the containers over the growing buffers.
LEMMA VecNextKeeps ==
  BuffersInv /\ VecNext => BuffersInv'
<1> SUFFICES ASSUME BuffersInv, VecNext
             PROVE  BuffersInv'
  OBVIOUS
<1> DEFINE b == buf["x"]
<1>1. "x" \in Objects /\ b \in Buffers /\ b.size \in Nat /\ kind # "fixed"
  BY BufferIs DEF BuffersInv, Objects, VecNext, IsVec
<1>2. CASE DoAppendRange("x")
  <2>1. PICK vs \in Arguments(Room("x")) : Call("x", AppendRange(b, vs))
    BY <1>2 DEF DoAppendRange
  <2>2. AppendRange(b, vs) \in SUBSET Outcomes
    BY <1>1, <2>1, ArgumentsAreLiving, AppendRangeSafe
  <2> QED
    BY <1>1, <2>1, <2>2, CallKeeps
<1>3. CASE DoAssignRange("x")
  <2>1. PICK vs \in Arguments(MaxCells) : Call("x", AssignRange(b, vs))
    BY <1>3 DEF DoAssignRange
  <2>2. AssignRange(b, vs) \in SUBSET Outcomes
    BY <1>1, <2>1, ArgumentsAreLiving, AssignRangeSafe
  <2> QED
    BY <1>1, <2>1, <2>2, CallKeeps
<1>4. CASE DoAssignCount("x")
  <2>1. PICK n \in 0 .. MaxCells, v \in Elements : Call("x", AssignCount(b, n, v))
    BY <1>4 DEF DoAssignCount
  <2>2. n \in Nat /\ v \in Living
    BY <2>1, BufferAssumption, ArgumentsAreLiving
  <2>3. AssignCount(b, n, v) \in SUBSET Outcomes
    BY <1>1, <2>2, AssignCountSafe
  <2> QED
    BY <1>1, <2>1, <2>3, CallKeeps
<1>5. CASE DoInsert("x")
  <2>1. PICK index \in 0 .. b.size, vs \in Arguments(Room("x")) : Call("x", InsertRange(b, index, vs))
    BY <1>5 DEF DoInsert
  <2>2. InsertRange(b, index, vs) \in SUBSET Outcomes
    BY <1>1, <2>1, ArgumentsAreLiving, InsertRangeSafe
  <2> QED
    BY <1>1, <2>1, <2>2, CallKeeps
<1>6. CASE DoErase("x")
  <2>1. PICK first \in 0 .. b.size : \E last \in first .. b.size : Call("x", Erase(b, first, last))
    BY <1>6 DEF DoErase
  <2>2. PICK last \in first .. b.size : Call("x", Erase(b, first, last))
    BY <2>1
  <2>3. Erase(b, first, last) \in SUBSET Outcomes
    BY <1>1, <2>1, <2>2, EraseSafe DEF Returning
  <2> QED
    BY <1>1, <2>2, <2>3, CallKeeps
<1>7. CASE DoPopBack("x")
  <2>1. b.size > 0 /\ Call("x", PopBack(b))
    BY <1>7 DEF DoPopBack
  <2>2. PopBack(b) \in SUBSET Outcomes
    BY <1>1, <2>1, PopBackSafe
  <2> QED
    BY <1>1, <2>1, <2>2, CallKeeps
<1>8. CASE DoRemoveFirst("x")
  <2>1. PICK v \in Elements : Call("x", RemoveFirstOf(b, v))
    BY <1>8 DEF DoRemoveFirst
  <2>2. RemoveFirstOf(b, v) \in SUBSET Outcomes
    BY <1>1, RemoveFirstOfSafe
  <2> QED
    BY <1>1, <2>1, <2>2, CallKeeps
<1>9. CASE DoRemoveAll("x")
  <2>1. PICK v \in Elements : Call("x", RemoveAllOf(b, v))
    BY <1>9 DEF DoRemoveAll
  <2>2. RemoveAllOf(b, v) \in SUBSET Outcomes
    BY <1>1, RemoveAllOfSafe
  <2> QED
    BY <1>1, <2>1, <2>2, CallKeeps
<1> QED
  BY <1>2, <1>3, <1>4, <1>5, <1>6, <1>7, <1>8, <1>9 DEF VecNext

\* The calls of the array over the fixed buffer.
LEMMA ArrayNextKeeps ==
  BuffersInv /\ ArrayObjectNext => BuffersInv'
<1> SUFFICES ASSUME BuffersInv, ArrayObjectNext
             PROVE  BuffersInv'
  OBVIOUS
<1> DEFINE b == buf["x"]
<1>1. "x" \in Objects /\ b \in Buffers
  BY DEF BuffersInv, Objects
<1>2. CASE DoFillSlots("x")
  <2>1. PICK v \in Elements : Call("x", FillSlots(b, v))
    BY <1>2 DEF DoFillSlots
  <2>2. FillSlots(b, v) \in SUBSET Outcomes
    BY <1>1, <2>1, ArgumentsAreLiving, FillSlotsSafe
  <2> QED
    BY <1>1, <2>1, <2>2, CallKeeps
<1>3. CASE DoAssignSlots("x")
  <2>1. PICK vs \in Arguments(InlineCapacity) : Call("x", AssignSlots(b, vs))
    BY <1>3 DEF DoAssignSlots
  <2>2. AssignSlots(b, vs) \in SUBSET Outcomes
    BY <1>1, <2>1, ArgumentsAreLiving, AssignSlotsSafe
  <2> QED
    BY <1>1, <2>1, <2>2, CallKeeps
<1> QED
  BY <1>2, <1>3 DEF ArrayObjectNext

\* memory.h and buffer.h: whatever sequence of calls the containers make, whichever
\* element operation throws and wherever, what a buffer says of its objects is true.
THEOREM BuffersInvHolds == BuffersSpec => []BuffersInv
<1>1. BufferInit => BuffersInv
  BY EmptyIsBuffer DEF BufferInit, BuffersInv
<1>2. BuffersInv /\ [BuffersNext]_bufferVars => BuffersInv'
  <2> SUFFICES ASSUME BuffersInv, [BuffersNext]_bufferVars
               PROVE  BuffersInv'
    OBVIOUS
  <2>1. CASE UNCHANGED bufferVars
    <3>1. Buffers' = Buffers
      BY <2>1 DEF bufferVars, Buffers, InlineSize
    <3> QED
      BY <2>1, <3>1 DEF bufferVars, BuffersInv
  <2> QED
    BY <2>1, BufferNextKeeps, VecNextKeeps, ArrayNextKeeps DEF BuffersNext, Broken
<1> QED
  BY <1>1, <1>2, PTL DEF BuffersSpec

\* Exactly the cells below the size hold an object, after every sequence of
\* calls, those that threw included.
THEOREM LifetimesAlwaysMatchSize == BuffersSpec => []LifetimesMatchSize
<1>1. BuffersInv => LifetimesMatchSize
  <2> SUFFICES ASSUME BuffersInv
               PROVE  LifetimesMatchSize
    OBVIOUS
  <2>1. ASSUME NEW o \in Objects
        PROVE  /\ buf[o].cells \in Seq(Elements \cup {Moved, Raw, Bad})
               /\ buf[o].size \in 0 .. Capacity(buf[o])
               /\ ~ buf[o].heap => Capacity(buf[o]) = Len(InlineCells)
               /\ \A i \in DOMAIN buf[o].cells :
                    IF i <= buf[o].size THEN Alive(buf[o].cells[i]) ELSE buf[o].cells[i] = Raw
    <3> DEFINE b == buf[o]
    <3>1. b \in Buffers
      BY DEF BuffersInv
    <3> HIDE DEF b
    <3>2. /\ Filled(b.cells, b.size) /\ Capacity(b) = Len(b.cells)
          /\ Len(b.cells) \in Nat /\ b.size \in Nat /\ b.size <= Len(b.cells)
          /\ DOMAIN b.cells = 1 .. Len(b.cells)
          /\ ~ b.heap => Len(b.cells) = InlineSize
          /\ b.cells \in Seq(AnyCell)
      BY <3>1, BufferIs
    <3>3. AnyCell = Elements \cup {Moved, Raw, Bad}
      BY DEF AnyCell, Living
    <3>4. \A i \in 1 .. Len(b.cells) : IF i <= b.size THEN b.cells[i] \in Living ELSE b.cells[i] = Raw
      BY <3>2 DEF Filled
    <3>5. /\ b.cells \in Seq(Elements \cup {Moved, Raw, Bad})
          /\ b.size \in 0 .. Capacity(b)
          /\ ~ b.heap => Capacity(b) = Len(InlineCells)
          /\ \A i \in DOMAIN b.cells : IF i <= b.size THEN Alive(b.cells[i]) ELSE b.cells[i] = Raw
      BY <3>2, <3>3, <3>4, LivingIsAlive, InlineIs
    <3> QED
      BY <3>5 DEF b
  <2> QED
    BY <2>1 DEF BuffersInv, LifetimesMatchSize, BufferTypeOK
<1> QED
  BY <1>1, BuffersInvHolds, PTL

(****************************************************************************)
(* What a call that threw has left undone.                                 *)
(****************************************************************************)

\* New storage holds what the old did.
LEMMA RelocationHolds ==
    ASSUME NEW b \in Buffers, NEW room \in Nat, b.size <= room, NEW heap \in BOOLEAN,
           NEW r \in RelocateTo(b, room, heap)
    PROVE  /\ r.how = "returned" => Held(r.to) = Held(b)
           /\ "move" \notin throwing => r.how = "returned"
<1> DEFINE vs == Held(b)
           raw == RawCells(room)
           c == ConstructCells(raw, 0, vs)
           done == [b EXCEPT !.cells = c, !.heap = heap]
<1>1. b \in [cells : Seq(AnyCell), size : Nat, heap : BOOLEAN] /\ b.size \in Nat
  BY BufferIs
<1>2. vs \in Seq(Living) /\ Len(vs) = b.size
  <2>1. b.size \in 0 .. b.size
    BY <1>1
  <2> QED
    BY <2>1, FirstAreLiving DEF Held
<1>3. \/ r = [to |-> done, how |-> "returned"]
      \/ "move" \in throwing /\ r.how # "returned"
  <2> HIDE DEF c
  <2> QED
    BY DEF RelocateTo, Returns, Outcome, MayThrow, c, raw, vs
<1>4. done.cells = c /\ done.size = b.size
  BY <1>1
<1>5. Held(done) = vs
  <2>1. \A i \in 1 .. b.size : c[i] = vs[i] /\ vs[i] \in Living
    <3>1. DOMAIN vs = 1 .. b.size /\ \A i \in 1 .. b.size : vs[i] \in Living
      BY <1>1, <1>2, LenProperties, ElementOfSeq
    <3>2. \A i \in 1 .. b.size : i - 0 = i /\ i \in 1 .. room
      BY <1>1
    <3>3. DOMAIN raw = 1 .. room /\ \A i \in 1 .. room : raw[i] = Raw
      BY DEF RawCells
    <3> HIDE DEF vs, raw
    <3> QED
      BY <3>1, <3>2, <3>3, Overwrites DEF ConstructCells
  <2> HIDE DEF vs, c, done
  <2>2. /\ SubSeq(c, 1, b.size) \in Seq(Living)
        /\ Len(SubSeq(c, 1, b.size)) = IF 1 <= b.size THEN b.size - 1 + 1 ELSE 0
        /\ \A i \in 1 .. b.size - 1 + 1 : SubSeq(c, 1, b.size)[i] = c[1 + i - 1]
    <3>1. 1 \in Int /\ b.size \in Int /\ \A i \in 1 .. b.size : c[i] \in Living
      BY <1>1, <2>1
    <3> QED
      BY <3>1, SubSeqProperties
  <2>3. Len(SubSeq(c, 1, b.size)) = Len(vs)
    BY <1>1, <1>2, <2>2
  <2>4. \A i \in 1 .. Len(vs) : SubSeq(c, 1, b.size)[i] = vs[i]
    <3>1. \A i \in 1 .. b.size : 1 + i - 1 = i /\ i \in 1 .. b.size - 1 + 1
      BY <1>1
    <3> QED
      BY <1>2, <2>1, <2>2, <3>1
  <2>5. SubSeq(c, 1, b.size) = vs
    BY <1>2, <2>2, <2>3, <2>4, SeqEqual
  <2> QED
    BY <1>4, <2>5 DEF Held
<1> QED
  BY <1>3, <1>5

\* What a call that stops leaves of the elements.
Undone(b, r) == r.how = "threw" => Held(r.to) = Held(b)

\* An outcome that returns, one that stops where it is, and one that breaks.
LEMMA OutcomesUndone ==
    ASSUME NEW b, NEW c, NEW r
    PROVE  /\ r \in Outcome(c, "returned") \/ r \in Outcome(c, "broken") => Undone(b, r)
           /\ r \in Outcome(c, "threw") /\ Held(c) = Held(b) => Undone(b, r)
<1>1. \A h : r \in Outcome(c, h) => r.to = c /\ r.how = h
  BY DEF Outcome
<1> QED
  BY <1>1 DEF Undone

\* reserve() holds what it held, even when relocation throws.
LEMMA ReservationHolds ==
    ASSUME NEW b \in Buffers, "move" \notin throwing, NEW n \in Nat, NEW r \in Reserve(b, n)
    PROVE  Held(r.to) = Held(b)
<1>1. b.size \in Nat /\ Len(b.cells) \in Nat /\ b.size <= Len(b.cells) /\ Capacity(b) = Len(b.cells)
  BY BufferIs
<1>2. CASE n > Capacity(b)
  <2>1. r \in Outcome(b, "threw") \/ \E c \in n .. MaxCells : r \in RelocateTo(b, c, TRUE)
    BY <1>2 DEF Reserve, Grow, Throws
  <2>2. \A c \in n .. MaxCells : c \in Nat /\ b.size <= c
    BY <1>1, <1>2, BufferAssumption
  <2>3. ASSUME NEW c \in n .. MaxCells, r \in RelocateTo(b, c, TRUE)
        PROVE  Held(r.to) = Held(b)
    BY <2>2, <2>3, RelocationHolds
  <2>4. r \in Outcome(b, "threw") => r.to = b
    BY DEF Outcome
  <2> QED
    BY <2>1, <2>3, <2>4
<1>3. CASE ~ (n > Capacity(b))
  BY <1>3 DEF Reserve, Returns, Outcome
<1> QED
  BY <1>2, <1>3

\* Appending copies, undone when one of them throws.
LEMMA AppendUndone ==
    ASSUME NEW b \in Buffers, "move" \notin throwing, NEW vs \in Seq(Living), NEW r \in AppendCopies(b, vs)
    PROVE  Undone(b, r)
<1> DEFINE n == b.size + Len(vs)
           e(q) == Edited(q, ConstructCells(q.cells, b.size, vs), n)
<1>1. n \in Nat
  BY BufferIs, LenProperties
<1>2. CASE ~ CanFit(n)
  <2>1. r \in Outcome(b, "returned")
    BY <1>2 DEF AppendCopies, Returns
  <2> QED
    BY <2>1, OutcomesUndone
<1>3. CASE CanFit(n)
  <2>1. \/ r \in Reserve(b, n)
        \/ \E q \in Reserve(b, n) : r \in Outcome(e(q.to), "returned") \/ r \in Outcome(q.to, "threw")
    BY <1>3 DEF AppendCopies, AndThen, Returns, Throws, MayThrow, Edited
  <2> HIDE DEF e, n
  <2>2. \A q \in Reserve(b, n) : Held(q.to) = Held(b)
    BY <1>1, ReservationHolds
  <2>3. r \in Reserve(b, n) => Undone(b, r)
    BY <2>2 DEF Undone
  <2> QED
    BY <2>1, <2>2, <2>3, OutcomesUndone
<1> QED
  BY <1>2, <1>3

\* Appending by moving, undone when reserving the room throws.
LEMMA AppendMoveUndone ==
    ASSUME NEW b \in Buffers, "move" \notin throwing, NEW vs \in Seq(Living), NEW r \in AppendMove(b, vs)
    PROVE  Undone(b, r)
<1> DEFINE n == b.size + Len(vs)
           e(q) == Edited(q, ConstructCells(q.cells, b.size, vs), n)
<1>1. n \in Nat
  BY BufferIs, LenProperties
<1>2. CASE ~ CanFit(n)
  <2>1. r \in Outcome(b, "returned")
    BY <1>2 DEF AppendMove, Returns
  <2> QED
    BY <2>1, OutcomesUndone
<1>3. CASE CanFit(n)
  <2>1. \/ r \in Reserve(b, n)
        \/ \E q \in Reserve(b, n) : r \in Outcome(e(q.to), "returned")
    BY <1>3 DEF AppendMove, AndThen, Returns, Throws, MayThrow, Edited
  <2> HIDE DEF e, n
  <2> QED
    BY <1>1, <2>1, ReservationHolds, OutcomesUndone DEF Undone
<1> QED
  BY <1>2, <1>3

\* resize(), undone.
LEMMA ResizeUndone ==
    ASSUME NEW b \in Buffers, "move" \notin throwing, NEW n \in Nat, NEW v, NEW r \in Resized(b, n, v)
    PROVE  Undone(b, r)
<1> DEFINE e(q) == Edited(q, ConstructCells(q.cells, b.size, [i \in 1 .. n - b.size |-> v]), n)
           c == DestroyCells(b.cells, n + 1 .. b.size)
<1>1. CASE ~ CanFit(n)
  <2>1. r \in Outcome(b, "returned")
    BY <1>1 DEF Resized, Returns
  <2> QED
    BY <2>1, OutcomesUndone
<1>2. CASE CanFit(n) /\ n <= b.size
  <2>1. r \in Outcome(Edited(b, c, n), "returned")
    BY <1>2 DEF Resized, Returns, Edited
  <2> QED
    BY <2>1, OutcomesUndone
<1>3. CASE CanFit(n) /\ ~ (n <= b.size)
  <2>1. \/ r \in Reserve(b, n)
        \/ \E q \in Reserve(b, n) :
             \/ r \in Outcome(e(q.to), "returned") \/ r \in Outcome(q.to, "threw")
             \/ r \in Outcome(q.to, "broken")
    BY <1>3 DEF Resized, AndThen, Returns, Throws, Breaks, MayThrow, Edited
  <2> HIDE DEF e
  <2> QED
    BY <2>1, ReservationHolds, OutcomesUndone DEF Undone
<1> QED
  BY <1>1, <1>2, <1>3

\* shrink_to_fit(), undone.
LEMMA ShrinkUndone ==
    ASSUME NEW b \in Buffers, "move" \notin throwing, NEW r \in ShrinkToFit(b)
    PROVE  Undone(b, r)
<1>1. b.size \in Nat /\ b.size <= b.size /\ InlineCapacity \in Nat
  BY BufferIs, BufferAssumption
<1>2. \/ r \in Outcome(b, "returned") \/ r \in Outcome(Reset(b), "returned") \/ r \in Outcome(b, "threw")
      \/ b.size <= InlineCapacity /\ r \in RelocateTo(b, InlineCapacity, FALSE)
      \/ r \in RelocateTo(b, b.size, TRUE)
  BY DEF ShrinkToFit, Returns, Throws
<1>3. \A room \in Nat, heap \in BOOLEAN :
        b.size <= room /\ r \in RelocateTo(b, room, heap) => r.how = "returned"
  BY RelocationHolds
<1>4. r \in RelocateTo(b, InlineCapacity, FALSE) /\ b.size <= InlineCapacity => r.how = "returned"
  BY <1>1, <1>3
<1>5. r \in RelocateTo(b, b.size, TRUE) => r.how = "returned"
  BY <1>1, <1>3
<1>6. r.how = "returned" => Undone(b, r)
  BY DEF Undone
<1> QED
  BY <1>2, <1>4, <1>5, <1>6, OutcomesUndone

\* The calls that reserve, append, resize or shrink hold, when they throw, exactly
\* what they held before, as long as moving an element never throws.
THEOREM ThrowingUndoesAdditions == BuffersSpec => []StrongGuarantee
<1>1. BuffersInv => StrongGuarantee
  <2> SUFFICES ASSUME BuffersInv, "move" \notin throwing
               PROVE  StrongGuarantee
    BY DEF StrongGuarantee
  <2> DEFINE b == buf["x"]
  <2>1. b \in Buffers /\ b.size \in Nat
    BY BufferIs DEF BuffersInv, Objects
  <2>2. ASSUME NEW n \in 0 .. MaxCells, NEW r \in Reserve(b, n) PROVE Undone(b, r)
    BY <2>1, BufferAssumption, ReservationHolds DEF Undone
  <2>3. ASSUME NEW n \in b.size .. MaxCells, NEW v \in Elements, NEW r \in Resized(b, n, v)
        PROVE  Undone(b, r)
    <3>1. n \in Nat
      BY <2>1, BufferAssumption
    <3> QED
      BY <2>1, <2>3, <3>1, ResizeUndone
  <2>4. ASSUME NEW vs \in Arguments(Room("x")), NEW r \in AppendCopies(b, vs) \cup AppendMove(b, vs)
        PROVE  Undone(b, r)
    BY <2>1, ArgumentsAreLiving, AppendUndone, AppendMoveUndone
  <2>5. ASSUME NEW r \in ShrinkToFit(b) PROVE Undone(b, r)
    BY <2>1, ShrinkUndone
  <2> HIDE DEF b
  <2>6. ASSUME NEW r \in StorageCalls(b, Room("x")) PROVE Undone(b, r)
    <3>1. \/ \E n \in 0 .. MaxCells : r \in Reserve(b, n)
          \/ \E n \in b.size .. MaxCells, v \in Elements : r \in Resized(b, n, v)
          \/ \E vs \in Arguments(Room("x")) : r \in AppendCopies(b, vs) \cup AppendMove(b, vs)
          \/ r \in ShrinkToFit(b)
      BY DEF StorageCalls
    <3> QED
      BY <2>2, <2>3, <2>4, <2>5, <3>1
  <2> QED
    BY <2>6 DEF StrongGuarantee, Undone, b
<1> QED
  BY <1>1, BuffersInvHolds, PTL
=============================================================================
