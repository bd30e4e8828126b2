------------------------------- MODULE Memory --------------------------------
(***************************************************************************)
(* Raw memory: the functions of base/memory.h on bytes and addresses, the  *)
(* offsets of a Range (base/range.h), and a MemoryBlock (base/block.h)     *)
(* that is cut down by one Range after another.  Addresses and sizes wrap. *)
(***************************************************************************)
EXTENDS BitLayout

CONSTANTS
  Octets,     \* the values of bytes, in their order
  StoreSize,    \* how many bytes there are
  FarOffsets    \* starts and lengths of ranges that lie beyond them

Wrapped(n) == n % SizeLimit
Places == 0 .. StoreSize - 1
NullBlock == [data |-> 0, size |-> 0]

VARIABLES
  store,        \* the bytes, at the addresses from 0
  block,        \* a MemoryBlock
  wanted,       \* the addresses that it should cover
  wrapped       \* whether the end of a range has wrapped
MemoryVars == <<store, block, wanted, wrapped>>

-----------------------------------------------------------------------------
IsPointerInRange(begin, end, ptr) == begin <= ptr /\ ptr < end
IsOverlappingRange(begin, end, begin2) ==
  \/ IsPointerInRange(begin, end, begin2)
  \/ IsPointerInRange(begin2, begin2 + (end - begin), begin)

IsAligned(address, alignment) == address % alignment = 0
(* & ~(alignment - 1) drops the remainder. *)
AlignUp(address, alignment) ==
  LET past == Wrapped(address + alignment - 1) IN past - (past % alignment)

CopyByte(s, dest, src, i) == [s EXCEPT ![dest + i] = s[src + i]]

(* The loop of a copy that begins at the front. *)
CopyForwards(s, dest, src, count) ==
  LET after[i \in 0 .. count] ==
        IF i = 0 THEN s ELSE CopyByte(after[i - 1], dest, src, i - 1)
  IN after[count]
(* ... and of one that begins at the back. *)
CopyBackwards(s, dest, src, count) ==
  LET after[i \in 0 .. count] ==
        IF i = 0 THEN s ELSE CopyByte(after[i - 1], dest, src, count - i)
  IN after[count]

(* Mutated form: the addresses are compared the wrong way round. *)
MemmoveCrossed(s, dest, src, count) ==
  IF IsPointerInRange(dest, dest + count, src)
  THEN CopyBackwards(s, dest, src, count) ELSE CopyForwards(s, dest, src, count)

Memmove(s, dest, src, count) ==
  IF IsPointerInRange(src, src + count, dest)
  THEN CopyBackwards(s, dest, src, count) ELSE CopyForwards(s, dest, src, count)

Memset(s, dest, value, count) ==
  [p \in Places |-> IF p \in dest .. dest + count - 1 THEN value ELSE s[p]]

Memcmp(s, lhs, rhs, count) ==
  LET from[i \in 0 .. count] ==
        IF i = count THEN 0
        ELSE IF s[lhs + i] < s[rhs + i] THEN -1
        ELSE IF s[rhs + i] < s[lhs + i] THEN 1 ELSE from[i + 1]
  IN from[0]
MemcmpEqual(s, lhs, rhs, count) == \A i \in 0 .. count - 1 : s[lhs + i] = s[rhs + i]

(* Every loop gives the first place where the value is; npos for nullptr. *)
Memchr(s, first, value, count) ==
  LET from[i \in 0 .. count] ==
        IF i = count THEN npos ELSE IF s[first + i] = value THEN first + i ELSE from[i + 1]
  IN from[0]

-----------------------------------------------------------------------------
ByteRange(start, length) == [start |-> start, length |-> length]
End(r) == Wrapped(r.start + r.length)
Includes(r, value) == value >= r.start /\ value < End(r)
IncludesRange(r, other) == other.start >= r.start /\ End(other) <= End(r)
Intersects(r, other) == r.start < End(other) /\ other.start < End(r)
Intersection(r, other) ==
  LET newStart == IF r.start > other.start THEN r.start ELSE other.start
      newEnd == SmallerOf(End(r), End(other))
  IN ByteRange(newStart, IF newEnd > newStart THEN newEnd - newStart ELSE 0)

(* Mutated form: a length is cut to the block, not to what is left of it.  *)
SubBlockWide(b, r) ==
  IF b.size = 0 \/ r.length = 0 \/ r.start >= b.size THEN NullBlock
  ELSE [data |-> b.data + r.start, size |-> SmallerOf(r.length, b.size)]

SubBlock(b, r) ==
  IF b.size = 0 \/ r.length = 0 \/ r.start >= b.size THEN NullBlock
  ELSE [data |-> b.data + r.start,
        size |-> IF End(r) > b.size THEN b.size - r.start ELSE r.length]

-----------------------------------------------------------------------------
Stretches == {x \in Places \X (0 .. StoreSize) : x[1] + x[2] <= StoreSize}
Ranges == {ByteRange(s, n) : s, n \in 0 .. StoreSize \cup FarOffsets}
AddressesOf(b) == b.data .. b.data + b.size - 1
NumbersOf(r) == r.start .. r.start + r.length - 1
Wraps(r) == r.start + r.length >= SizeLimit

MemoryInit ==
  /\ store \in [Places -> Octets]
  /\ block = [data |-> 0, size |-> StoreSize] /\ wanted = Places /\ wrapped = FALSE

MoveBytes ==
  \E x, y \in Stretches :
    /\ x[2] = y[2]
    /\ store' = Memmove(store, x[1], y[1], x[2])
    /\ UNCHANGED <<block, wanted, wrapped>>
SetBytes ==
  \E x \in Stretches, value \in Octets :
    /\ store' = Memset(store, x[1], value, x[2])
    /\ UNCHANGED <<block, wanted, wrapped>>

(* A block that has grown is not looked into again. *)
CutBlock ==
  \E r \in Ranges :
    /\ AddressesOf(block) \subseteq Places
    /\ block' = SubBlock(block, r)
    /\ wanted' = {p \in wanted : p - block.data \in NumbersOf(r)}
    /\ wrapped' = (wrapped \/ (Wraps(r) /\ r.start < block.size))
    /\ UNCHANGED store

MemoryNext == MoveBytes \/ SetBytes \/ CutBlock

-----------------------------------------------------------------------------
(* Bytes that are moved arrive as they were, however the two ranges lie    *)
(* over one another, and nothing else changes; ranges that share an        *)
(* address are known to; comparing, searching and moving agree.            *)
MovesAreExact ==
  \A x, y \in Stretches : x[2] = y[2] =>
    LET dest == x[1]  src == y[1]  count == x[2]
        moved == Memmove(store, dest, src, count)
        shared == (dest .. dest + count - 1) \cap (src .. src + count - 1)
    IN /\ moved = [p \in Places |-> IF p \in dest .. dest + count - 1
                                    THEN store[src + (p - dest)] ELSE store[p]]
       /\ IsOverlappingRange(dest, dest + count, src) <=> shared # {}
       /\ shared = {} => MemcmpEqual(moved, dest, src, count)
       /\ Memcmp(store, dest, src, count) = - Memcmp(store, src, dest, count)
       /\ Memcmp(store, dest, src, count) = 0 <=> MemcmpEqual(store, dest, src, count)
       /\ \A value \in Octets :
            LET at == Memchr(store, dest, value, count)
            IN IF at = npos THEN \A i \in 0 .. count - 1 : store[dest + i] # value
               ELSE /\ at \in dest .. dest + count - 1 /\ store[at] = value
                    /\ \A p \in dest .. at - 1 : store[p] # value

(* However often it was cut, a block covers the addresses that lie in all  *)
(* of the ranges, as long as the end of none of them wraps.                *)
BlockIsCut == ~ wrapped => AddressesOf(block) = wanted

(* Ranges whose end does not wrap are sets of numbers; empty ones contain  *)
(* nothing, but may be said to intersect.                                  *)
RangesAreSets ==
  LET one == ByteRange(block.data, block.size)
  IN \A r \in Ranges : ~ Wraps(r) /\ ~ Wraps(one) =>
       /\ NumbersOf(Intersection(one, r)) = NumbersOf(one) \cap NumbersOf(r)
       /\ \A n \in 0 .. StoreSize : Includes(r, n) <=> n \in NumbersOf(r)
       /\ r.length > 0 /\ one.length > 0 =>
            /\ Intersects(one, r) <=> NumbersOf(one) \cap NumbersOf(r) # {}
            /\ IncludesRange(one, r) <=> NumbersOf(r) \subseteq NumbersOf(one)

(* An aligned address is the next one that is, unless there is none: then  *)
(* the sum wraps and the answer is 0.                                      *)
AddressesAreAligned ==
  \A address \in 0 .. npos, alignment \in {1, 2, 4, 8} :
    LET up == AlignUp(address, alignment)
    IN /\ IsAligned(up, alignment)
       /\ IF address + alignment > SizeLimit /\ ~ IsAligned(address, alignment) THEN up = 0
          ELSE up \in address .. address + alignment - 1

MemoryIsExact == MovesAreExact /\ BlockIsCut /\ RangesAreSets /\ AddressesAreAligned
=============================================================================
