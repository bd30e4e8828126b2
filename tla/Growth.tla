------------------------------- MODULE Growth -------------------------------
(***************************************************************************)
(* The growth policies of base/growth.h and the calls a DynamicBuffer      *)
(* (base/buffer.h) makes to them: the buffer asks for more than its        *)
(* capacity, Policy::grow computes the next capacity one step of its loop  *)
(* at a time, on machine words that wrap, and the buffer adopts it.        *)
(* Relocating the elements is not modelled here: only numbers move.        *)
(***************************************************************************)
EXTENDS Integers

CONSTANTS Width,       \* number of bits of usize
          Policies,    \* the Growth arguments considered
          Increment,   \* LinearGrowth's template argument
          ElementSizes,\* sizeof(value_type) of the buffers considered
          Capacities   \* capacity_ of a buffer before its first call

Modulus == 2 ^ Width
Word == 0..Modulus - 1
Looping == {"double", "onePointFive", "golden", "linear"}
Direct == {"powerOfTwo", "exact"}

ASSUME ConstantsAssumption == /\ Modulus \in Nat \ {0, 1}
                              /\ Policies \subseteq Looping \cup Direct
                              /\ Increment \in Word \ {0}
                              /\ ElementSizes \subseteq Nat \ {0}
                              /\ Capacities \subseteq Word

VARIABLES policy,      \* the buffer's growth policy: never changes
          maximum,     \* maxSize(): never changes
          capacity,    \* capacity_
          pc,          \* "idle": no call; "body", "test": in the loop; "done": grow returns
          required,    \* the parameter of the call
          newCapacity  \* the local of Policy::grow

vars == <<policy, maximum, capacity, pc, required, newCapacity>>
fixed == <<policy, maximum>>

TypeOK == /\ policy \in Policies
          /\ maximum \in Word
          /\ capacity \in Word /\ capacity <= maximum
          /\ pc \in {"idle", "body", "test", "done"}
          /\ required \in Word
          /\ newCapacity \in Word

\* usize arithmetic.
Wrap(n) == n % Modulus

\* DynamicBuffer::maxSize().
MaxSize(size) == (Modulus - 1) \div size

Init == /\ policy \in Policies
        /\ \E size \in ElementSizes : maximum = MaxSize(size)
        /\ capacity \in Capacities /\ capacity <= maximum
        /\ pc = "idle" /\ required = 0 /\ newCapacity = 0

-----------------------------------------------------------------------------
(* The loops.                                                              *)

\* Without "but at least 1".
HalfMore(n) == n + n \div 2

AtLeastHalfMore(n) == n + (IF n \div 2 > 1 THEN n \div 2 ELSE 1)

Enlarged(n) == CASE policy = "double" -> Wrap(n * 2)
                 [] policy = "onePointFive" -> Wrap(AtLeastHalfMore(n))
                 [] policy = "golden" -> Wrap(n * 13) \div 8
                 [] policy = "linear" -> Wrap(n + Increment)

\* Above it the next enlargement would overflow, so the maximum is taken.
Threshold == CASE policy = "double" -> maximum \div 2
               [] policy = "onePointFive" -> Wrap(maximum * 2) \div 3
               [] policy = "golden" -> Wrap(maximum * 8) \div 13
               [] policy = "linear" -> Wrap(maximum - Increment)

\* The body without the check against the threshold.
BodyUnchecked ==
    /\ pc = "body" /\ policy \in Looping
    /\ newCapacity' = Enlarged(newCapacity)
    /\ pc' = "test"
    /\ UNCHANGED <<fixed, capacity, required>>

\* The body of the do loop.
Body ==
    /\ pc = "body" /\ policy \in Looping
    /\ \/ /\ Enlarged(newCapacity) > Threshold
          /\ newCapacity' = maximum /\ pc' = "done"
       \/ /\ Enlarged(newCapacity) <= Threshold
          /\ newCapacity' = Enlarged(newCapacity)
          /\ pc' = "test"
    /\ UNCHANGED <<fixed, capacity, required>>

\* Its while.
Test ==
    /\ pc = "test"
    /\ pc' = IF newCapacity < required THEN "body" ELSE "done"
    /\ UNCHANGED <<fixed, capacity, required, newCapacity>>

-----------------------------------------------------------------------------
(* The policies without a loop.                                            *)

PowersOfTwo == {p \in Word : \E k \in 0..Width - 1 : p = 2 ^ k}

\* bitCeil(value): the smallest power of two from value on.  Above the largest
\* one a word can hold the shift is undefined, and any word may come out.
bitCeil(value) == LET above == {p \in PowersOfTwo : p >= value}
                  IN  IF above = {} THEN Word
                      ELSE {p \in above : \A q \in above : p <= q}

Compute ==
    /\ pc = "body" /\ policy \in Direct
    /\ \/ /\ policy = "powerOfTwo"
          /\ \E p \in bitCeil(required) : newCapacity' = IF p < maximum THEN p ELSE maximum
       \/ /\ policy = "exact"
          /\ newCapacity' = IF required > maximum THEN maximum ELSE required
    /\ pc' = "done"
    /\ UNCHANGED <<fixed, capacity, required>>

-----------------------------------------------------------------------------
(* The buffer.                                                             *)

\* reserve(n), resize(n) or an append that needs n elements of room.
Grow(n) ==
    /\ pc = "idle"
    /\ n > capacity /\ n <= maximum
    /\ required' = n
    /\ newCapacity' = capacity
    /\ pc' = "body"
    /\ UNCHANGED <<fixed, capacity>>

\* grow() adopts the result.
Adopt ==
    /\ pc = "done"
    /\ capacity' = newCapacity
    /\ pc' = "idle" /\ required' = 0 /\ newCapacity' = 0
    /\ UNCHANGED fixed

Next == Body \/ Test \/ Compute \/ Adopt \/ \E n \in Word : Grow(n)

Spec == Init /\ [][Next]_vars

\* A call that has started runs on.
FairSpec == Spec /\ WF_vars(Body \/ Test \/ Compute \/ Adopt)

-----------------------------------------------------------------------------
(* Properties.                                                             *)

\* The contract of the GrowthPolicy concept (growth.h:33-35), wrap-around
\* included: what grow returns is enough, is not more than the buffer may hold,
\* and is more than it had.
Contract == pc = "done" => /\ newCapacity >= required
                           /\ newCapacity <= maximum
                           /\ newCapacity > capacity

\* grow returns: no loop is caught at a value it cannot enlarge, or at 0 after
\* an overflow.  GoldenRatioGrowth is left out, which has both: 13/8 of 1 is
\* rounded down to 1, and 13 times a capacity may wrap.
GrowReturns == pc = "body" /\ policy # "golden" ~> pc = "done"

-----------------------------------------------------------------------------
(* What a comment of the code says and the code does not do.               *)

\* "Reserves storage for at least newCapacity elements" (buffer.h:596): a call
\* ends with at least the room asked for, also on an empty buffer.
ReservesAtLeast == \A n \in Word : (pc = "body" /\ required = n) ~> (pc = "idle" /\ capacity >= n)
=============================================================================
