---------------------------- MODULE ValueProofs ----------------------------
(***************************************************************************)
(* The proofs about the value types that work alone.                       *)
(*                                                                         *)
(* Growth: the growth policies' contract, for words of every width, every  *)
(* element size and every sequence of requests, under two hypotheses:      *)
(* LinearGrowth keeps it only if its increment is no larger than the       *)
(* maximum (else its threshold wraps around), PowerOfTwoGrowth only if     *)
(* some power of two in a word reaches the maximum (any element of two     *)
(* bytes or more will do).                                                 *)
(*                                                                         *)
(* Property: the callback is told of the value that there is, however      *)
(* deep the calls nest and whatever the validator rejects.                 *)
(*                                                                         *)
(* Str: a string reads what it should after every sequence of calls, for   *)
(* every alphabet, inline capacity, maximum and length, its own characters *)
(* given to it included.                                                   *)
(*                                                                         *)
(* RepeatPattern: a repeat pattern agrees with itself after any edits, for *)
(* weeks, bounds and defaults of every size.                               *)
(*                                                                         *)
(* Metadata: UUIDs stay apart through any copies, assignments and moves,   *)
(* whatever bits the clock and the generator give.                         *)
(*                                                                         *)
(* Geometry: an EdgeRect is the set of its points and a Rect the EdgeRect  *)
(* between its corners, on grids of every shape.                           *)
(***************************************************************************)
EXTENDS Growth, Str, Property, RepeatPattern, Metadata, Geometry, SequenceTheorems, WellFoundedInduction, TLAPS

-----------------------------------------------------------------------------
(* The growth policies *)

LEMMA DivBelow ==
    ASSUME NEW a \in Nat, NEW b \in Nat \ {0}
    PROVE  a \div b \in 0..a
  OBVIOUS

LEMMA WrapBelow ==
    ASSUME NEW n \in Nat
    PROVE  Wrap(n) \in Word /\ Wrap(n) <= n
<1>1. Modulus \in Nat \ {0}
  BY ConstantsAssumption
<1> HIDE DEF Modulus
<1>2. n % Modulus \in 0..Modulus - 1 /\ n % Modulus <= n
  BY <1>1
<1> QED
  BY <1>2 DEF Wrap, Word

\* maxSize() of a buffer is a word.
LEMMA MaxSizeIsWord ==
    ASSUME NEW size \in ElementSizes
    PROVE  MaxSize(size) \in Word
<1>1. Modulus - 1 \in Nat /\ size \in Nat \ {0}
  BY ConstantsAssumption
<1> HIDE DEF Modulus
<1>2. (Modulus - 1) \div size \in 0..Modulus - 1
  BY <1>1, DivBelow
<1> QED
  BY <1>2 DEF MaxSize, Word

-----------------------------------------------------------------------------
IncrementFits == \A size \in ElementSizes : Increment <= MaxSize(size)

PowerFits == \A size \in ElementSizes : \E p \in PowersOfTwo : MaxSize(size) <= p

\* What holds in the middle of a call: the request is more than the buffer has
\* and no more than it may have, and the local never passes the maximum.
InCall == /\ maximum \in {MaxSize(size) : size \in ElementSizes}
          /\ pc # "idle" => /\ capacity < required
                            /\ required <= maximum
                            /\ newCapacity <= maximum
          /\ pc = "done" => newCapacity >= required

GrowthInv == TypeOK /\ InCall

\* The capacity at which a loop gives up is one the buffer may have.
LEMMA ThresholdBelowMaximum ==
    ASSUME GrowthInv, IncrementFits, policy \in Looping
    PROVE  Threshold \in Int /\ Threshold <= maximum
<1>1. maximum \in Nat /\ Increment \in Nat /\ Increment <= maximum
  BY ConstantsAssumption DEF GrowthInv, InCall, TypeOK, IncrementFits, Word
<1>2. CASE policy = "double"
  <2>1. maximum \div 2 \in 0..maximum
    BY <1>1, DivBelow
  <2> QED
    BY <1>1, <1>2, <2>1 DEF Threshold
<1>3. CASE policy = "onePointFive"
  <2>1. Wrap(maximum * 2) \in Nat /\ Wrap(maximum * 2) <= maximum * 2
    BY <1>1, WrapBelow DEF Word
  <2>2. Wrap(maximum * 2) \div 3 \in Int /\ Wrap(maximum * 2) \div 3 <= maximum
    BY <1>1, <2>1
  <2> QED
    BY <1>3, <2>2 DEF Threshold
<1>4. CASE policy = "golden"
  <2>1. Wrap(maximum * 8) \in Nat /\ Wrap(maximum * 8) <= maximum * 8
    BY <1>1, WrapBelow DEF Word
  <2>2. Wrap(maximum * 8) \div 13 \in Int /\ Wrap(maximum * 8) \div 13 <= maximum
    BY <1>1, <2>1
  <2> QED
    BY <1>4, <2>2 DEF Threshold
<1>5. CASE policy = "linear"
  <2>1. maximum - Increment \in Nat /\ maximum - Increment <= maximum
    BY <1>1
  <2>2. Wrap(maximum - Increment) \in Nat /\ Wrap(maximum - Increment) <= maximum - Increment
    BY <2>1, WrapBelow DEF Word
  <2> QED
    BY <1>1, <1>5, <2>1, <2>2 DEF Threshold
<1> QED
  BY <1>2, <1>3, <1>4, <1>5 DEF Looping

LEMMA EnlargedIsNat ==
    ASSUME policy \in Looping, NEW n \in Word
    PROVE  Enlarged(n) \in Nat
<1>1. n \in Nat /\ Increment \in Nat
  BY ConstantsAssumption DEF Word
<1>2. AtLeastHalfMore(n) \in Nat
  BY <1>1 DEF AtLeastHalfMore
<1>3. Wrap(n * 2) \in Nat /\ Wrap(AtLeastHalfMore(n)) \in Nat /\ Wrap(n + Increment) \in Nat
  BY <1>1, <1>2, WrapBelow DEF Word
<1>4. Wrap(n * 13) \in Nat
  BY <1>1, WrapBelow DEF Word
<1>5. Wrap(n * 13) \div 8 \in Nat
  BY <1>4
<1> QED
  BY <1>3, <1>5 DEF Enlarged, Looping

LEMMA InitInv == Init => GrowthInv
<1> SUFFICES ASSUME Init PROVE GrowthInv
  OBVIOUS
<1>1. maximum \in Word /\ maximum \in {MaxSize(size) : size \in ElementSizes}
  BY MaxSizeIsWord DEF Init
<1>2. 0 \in Word
  BY ConstantsAssumption DEF Word
<1> QED
  BY <1>1, <1>2, ConstantsAssumption DEF Init, GrowthInv, InCall, TypeOK

\* Everything below the maximum is a word.
LEMMA BelowMaximum ==
    ASSUME TypeOK, NEW n \in Nat, n <= maximum
    PROVE  n \in Word
<1>1. Modulus \in Nat
  BY ConstantsAssumption
<1> HIDE DEF Modulus
<1> QED
  BY <1>1 DEF TypeOK, Word

LEMMA BodyInv ==
    ASSUME GrowthInv, IncrementFits, Body
    PROVE  GrowthInv'
<1>1. policy \in Looping /\ newCapacity \in Word /\ maximum \in Word
  BY DEF Body, GrowthInv, TypeOK
<1>2. UNCHANGED <<policy, maximum, capacity, required>> /\ pc = "body"
  BY DEF Body, fixed
<1>3. capacity < required /\ required <= maximum
  BY <1>2 DEF GrowthInv, InCall
<1>4. CASE newCapacity' = maximum /\ pc' = "done"
  <2>1. TypeOK'
    BY <1>1, <1>2, <1>4 DEF GrowthInv, TypeOK
  <2>2. newCapacity' >= required
    BY <1>3, <1>4 DEF GrowthInv, TypeOK, Word
  <2>3. maximum <= maximum
    BY <1>1 DEF Word
  <2> QED
    BY <1>2, <1>3, <1>4, <2>1, <2>2, <2>3 DEF GrowthInv, InCall
<1>5. CASE Enlarged(newCapacity) <= Threshold /\ newCapacity' = Enlarged(newCapacity) /\ pc' = "test"
  <2>1. newCapacity' \in Nat /\ newCapacity' <= maximum
    <3>1. Enlarged(newCapacity) \in Nat
      BY <1>1, EnlargedIsNat
    <3>2. Threshold \in Int /\ Threshold <= maximum
      BY <1>1, ThresholdBelowMaximum
    <3>3. maximum \in Int
      BY <1>1 DEF Word
    <3> QED
      BY <1>5, <3>1, <3>2, <3>3
  <2>2. newCapacity' \in Word
    BY <2>1, BelowMaximum DEF GrowthInv
  <2> QED
    BY <1>2, <1>3, <1>5, <2>1, <2>2 DEF GrowthInv, InCall, TypeOK
<1> QED
  BY <1>4, <1>5 DEF Body

LEMMA ComputeInv ==
    ASSUME GrowthInv, PowerFits, Compute
    PROVE  GrowthInv'
<1>1. UNCHANGED <<policy, maximum, capacity, required>> /\ pc = "body" /\ pc' = "done"
  BY DEF Compute, fixed
<1>2. capacity < required /\ required <= maximum /\ required \in Word /\ maximum \in Word
  BY <1>1 DEF GrowthInv, InCall, TypeOK
<1>3. newCapacity' \in Word /\ newCapacity' <= maximum /\ newCapacity' >= required
  <2>1. CASE newCapacity' = IF required > maximum THEN maximum ELSE required
    BY <1>2, <2>1 DEF Word
  <2>2. ASSUME NEW p \in bitCeil(required), newCapacity' = IF p < maximum THEN p ELSE maximum
        PROVE  newCapacity' \in Word /\ newCapacity' <= maximum /\ newCapacity' >= required
    <3>1. PICK big \in PowersOfTwo : maximum <= big
      BY DEF GrowthInv, InCall, PowerFits
    <3>2. big \in Word /\ big >= required
      BY <1>2, <3>1 DEF PowersOfTwo, Word
    <3>3. p \in PowersOfTwo /\ p >= required
      BY <2>2, <3>1, <3>2 DEF bitCeil
    <3>4. p \in Word
      BY <3>3 DEF PowersOfTwo
    <3> QED
      BY <1>2, <2>2, <3>3, <3>4 DEF Word
  <2> QED
    BY <2>1, <2>2 DEF Compute
<1> QED
  BY <1>1, <1>2, <1>3 DEF GrowthInv, InCall, TypeOK

LEMMA StepInv ==
    ASSUME GrowthInv, IncrementFits, PowerFits, [Next]_vars
    PROVE  GrowthInv'
<1>1. CASE Body
  BY <1>1, BodyInv
<1>2. CASE Compute
  BY <1>2, ComputeInv
<1>3. CASE Test
  BY <1>3 DEF Test, GrowthInv, InCall, TypeOK, fixed, Word
<1>4. CASE Adopt
  <2>1. 0 \in Word
    BY ConstantsAssumption DEF Word
  <2> QED
    BY <1>4, <2>1 DEF Adopt, GrowthInv, InCall, TypeOK, fixed
<1>5. ASSUME NEW n \in Word, Grow(n) PROVE GrowthInv'
  BY <1>5 DEF Grow, GrowthInv, InCall, TypeOK, fixed
<1>6. CASE UNCHANGED vars
  BY <1>6 DEF vars, GrowthInv, InCall, TypeOK
<1> QED
  BY <1>1, <1>2, <1>3, <1>4, <1>5, <1>6 DEF Next

\* The induction: between and during calls the numbers stay words below the
\* maximum.
THEOREM GrowthInductive ==
    ASSUME IncrementFits, PowerFits
    PROVE  Spec => []GrowthInv
<1>1. Init => GrowthInv
  BY InitInv
<1>2. GrowthInv /\ [Next]_vars => GrowthInv'
  BY StepInv
<1> QED
  BY <1>1, <1>2, PTL DEF Spec

\* A capacity never passes maxSize(), whatever wraps on the way.
THEOREM GrowthTypeCorrect ==
    ASSUME IncrementFits, PowerFits
    PROVE  Spec => []TypeOK
<1>1. GrowthInv => TypeOK
  BY DEF GrowthInv
<1> QED
  BY <1>1, GrowthInductive, PTL

\* What a policy returns meets the contract of the GrowthPolicy concept: enough,
\* not too much, and more than before, at every width and element size.
THEOREM PoliciesKeepContract ==
    ASSUME IncrementFits, PowerFits
    PROVE  Spec => []Contract
<1>1. GrowthInv => Contract
  <2> SUFFICES ASSUME GrowthInv, pc = "done" PROVE newCapacity >= required /\ newCapacity <= maximum
                                             /\ newCapacity > capacity
    BY DEF Contract
  <2>1. newCapacity >= required /\ newCapacity <= maximum /\ capacity < required
    BY DEF GrowthInv, InCall
  <2>2. newCapacity \in Int /\ required \in Int /\ capacity \in Int
    BY DEF GrowthInv, TypeOK, Word
  <2> QED
    BY <2>1, <2>2
<1> QED
  BY <1>1, GrowthInductive, PTL

-----------------------------------------------------------------------------
(* Property *)

Frame == [param : Settings \cup {Itself}, setAgain : BOOLEAN]

\* A callback runs only if there is one.
PropertyInv ==
  /\ callbacks \in Seq(Frame)
  /\ callbacks # <<>> => listening
  /\ ObserverIsCurrent

\* What set() leaves: the value, and a callback that was told of it.
LEMMA SetIsCurrent ==
    ASSUME PropertyInv, NEW reference \in Settings \cup {Itself}, NEW moves \in BOOLEAN,
           SetValue(reference, moves)
    PROVE  PropertyInv'
<1> DEFINE given == Given(reference, moves)
           frame == [param |-> given, setAgain |-> FALSE]
<1>1. setting' = Referred(reference, setting) /\ listening' = listening
  BY DEF SetValue
<1>2. given \in Settings \cup {Itself} /\ Referred(given, setting') = setting'
  BY <1>1 DEF Given, Referred
<1>3. frame \in Frame /\ frame.param = given
  BY <1>2 DEF Frame
<1> HIDE DEF given
<1>4. CASE listening
  <2>1. told' = setting' /\ callbacks' = Append(callbacks, frame)
    BY <1>1, <1>2, <1>4 DEF SetValue, given
  <2> HIDE DEF frame
  <2>2. /\ callbacks' \in Seq(Frame) /\ Len(callbacks') = Len(callbacks) + 1
        /\ callbacks'[Len(callbacks')] = frame
    BY <1>3, <2>1, AppendProperties DEF PropertyInv
  <2> QED
    BY <1>1, <1>2, <1>3, <1>4, <2>1, <2>2 DEF PropertyInv, ObserverIsCurrent
<1>5. CASE ~ listening
  <2>1. callbacks = <<>> /\ callbacks' = callbacks
    BY <1>5 DEF SetValue, PropertyInv
  <2> QED
    BY <1>1, <1>5, <2>1 DEF PropertyInv, ObserverIsCurrent
<1> QED
  BY <1>4, <1>5

\* A callback that returns leaves the ones around it, which have set the value.
LEMMA EndIsCurrent ==
    ASSUME PropertyInv, CallbackEnds
    PROVE  PropertyInv'
<1> DEFINE outer == Len(callbacks) - 1
<1>1. outer \in Nat /\ Len(callbacks) = outer + 1
  BY DEF CallbackEnds, PropertyInv
<1> HIDE DEF outer
<1>2. callbacks' = [i \in 1 .. outer |-> [callbacks[i] EXCEPT !.setAgain = TRUE]]
      /\ UNCHANGED <<setting, rejected, listening, told>>
  BY DEF CallbackEnds, outer
<1>3. ASSUME NEW i \in 1 .. outer
      PROVE  [callbacks[i] EXCEPT !.setAgain = TRUE] \in Frame
             /\ [callbacks[i] EXCEPT !.setAgain = TRUE].setAgain = TRUE
  <2>1. callbacks[i] \in Frame
    BY <1>1 DEF PropertyInv
  <2> QED
    BY <2>1 DEF Frame
<1>4. callbacks' \in [1 .. outer -> Frame] /\ \A i \in 1 .. outer : callbacks'[i].setAgain = TRUE
  BY <1>2, <1>3
<1>5. callbacks' \in Seq(Frame) /\ DOMAIN callbacks' = 1 .. outer
  BY <1>1, <1>4
<1>6. callbacks # <<>>
  BY <1>1 DEF PropertyInv
<1> QED
  BY <1>2, <1>4, <1>5, <1>6 DEF PropertyInv, ObserverIsCurrent

\* The induction, over all calls, nested and not.
THEOREM PropertyInductive == PropertySpec => []PropertyInv
<1>1. PropertyInit => PropertyInv
  BY DEF PropertyInit, PropertyInv, ObserverIsCurrent
<1>2. PropertyInv /\ [PropertyNext]_PropertyVars => PropertyInv'
  <2> SUFFICES ASSUME PropertyInv, [PropertyNext]_PropertyVars
               PROVE  PropertyInv'
    OBVIOUS
  <2>1. ASSUME NEW v \in Settings, NEW moves \in BOOLEAN, SetValue(v, moves)
        PROVE  PropertyInv'
    BY <2>1, SetIsCurrent
  <2>2. CASE SetValue(Itself, FALSE)
    BY <2>2, SetIsCurrent
  <2>3. CASE CallbackEnds
    BY <2>3, EndIsCurrent
  <2>4. CASE SetCallback
    BY <2>4 DEF SetCallback, PropertyInv, ObserverIsCurrent
  <2>5. ASSUME NEW S \in Rejections, SetValidator(S)
        PROVE  PropertyInv'
    BY <2>5 DEF SetValidator, PropertyInv, ObserverIsCurrent
  <2>6. CASE UNCHANGED PropertyVars
    BY <2>6 DEF PropertyVars, PropertyInv, ObserverIsCurrent
  <2> QED
    BY <2>1, <2>2, <2>3, <2>4, <2>5, <2>6 DEF PropertyNext, Reject
<1> QED
  BY <1>1, <1>2, PTL DEF PropertySpec

\* Property::set(), setCallback() and setValidator(): a callback that is set was
\* told of the present value last, and reads it as long as it has set no other.
THEOREM ObserverStaysCurrent == PropertySpec => []ObserverIsCurrent
<1>1. PropertyInv => ObserverIsCurrent
  BY DEF PropertyInv
<1> QED
  BY <1>1, PropertyInductive, PTL

-----------------------------------------------------------------------------
(* Strings *)

\* What a cell can hold.
CellChars == Chars \cup {Stale}

StrObject == [short : BOOLEAN, capacity : 1 .. MaxChars, size : Nat,
              cells : Seq(CellChars), heap : Nat]

\* The storage s reads t: StringIsText for one string, with its types.
Holds(s, t) ==
  /\ s \in StrObject
  /\ t \in Seq(Chars) /\ Len(t) <= MaxText
  /\ s.cells = t \o <<Nul>> /\ s.size = Len(t) /\ s.size <= s.capacity
  /\ s.short => s.capacity = InlineCapacity
  /\ s.heap = IF s.short THEN 0 ELSE 1

StrInv ==
  /\ strs \in [Strings -> StrObject] /\ texts \in [Strings -> Seq(Chars)]
  /\ \A i \in Strings : Holds(strs[i], texts[i])

\* c is the n cells from offset at.
AreCells(c, cells, at, n) ==
  /\ c \in Seq(CellChars) /\ Len(c) = n
  /\ \A k \in 1 .. n : c[k] = IF at + k <= Len(cells) THEN cells[at + k] ELSE Stale

LEMMA CellsAre ==
    ASSUME NEW cells, cells \in Seq(CellChars), NEW at \in Nat, NEW n \in Nat
    PROVE  AreCells(Cells(cells, at, n), cells, at, n)
<1>1. ASSUME NEW k \in 1 .. n
      PROVE  /\ at + k \in DOMAIN cells <=> at + k <= Len(cells)
             /\ (IF at + k \in DOMAIN cells THEN cells[at + k] ELSE Stale) \in CellChars
  BY DEF CellChars
<1>2. Cells(cells, at, n) \in [1 .. n -> CellChars]
  BY <1>1 DEF Cells
<1>3. \A k \in 1 .. n : Cells(cells, at, n)[k] = IF at + k <= Len(cells) THEN cells[at + k] ELSE Stale
  BY <1>1 DEF Cells
<1> HIDE DEF Cells
<1> QED
  BY <1>2, <1>3 DEF AreCells

\* One sequence after another.
LEMMA Concats ==
    ASSUME NEW S, NEW a \in Seq(S), NEW b \in Seq(S)
    PROVE  /\ a \o b \in Seq(S) /\ Len(a \o b) = Len(a) + Len(b)
           /\ Len(a) \in Nat /\ Len(b) \in Nat
           /\ \A k \in 1 .. Len(a) : (a \o b)[k] = a[k]
           /\ \A k \in Len(a) + 1 .. Len(a) + Len(b) : (a \o b)[k] = b[k - Len(a)]
<1>1. Len(a) \in Nat /\ Len(b) \in Nat
  OBVIOUS
<1>2. /\ a \o b \in Seq(S) /\ Len(a \o b) = Len(a) + Len(b)
      /\ \A i \in 1 .. Len(a) + Len(b) : (a \o b)[i] = IF i <= Len(a) THEN a[i] ELSE b[i - Len(a)]
  BY ConcatProperties
<1> QED
  BY <1>1, <1>2

\* A range written from an offset on: before it, in it and after it.
LEMMA WrittenIs ==
    ASSUME NEW cells \in Seq(CellChars), NEW at \in Nat, NEW source \in Seq(CellChars)
    PROVE  /\ Written(cells, at, source) \in Seq(CellChars)
           /\ Len(Written(cells, at, source))
                = IF at + Len(source) < Len(cells) THEN Len(cells) ELSE at + Len(source)
           /\ \A k \in 1 .. at :
                Written(cells, at, source)[k] = IF k <= Len(cells) THEN cells[k] ELSE Stale
           /\ \A k \in 1 .. Len(source) : Written(cells, at, source)[at + k] = source[k]
           /\ \A k \in at + Len(source) + 1 .. Len(cells) : Written(cells, at, source)[k] = cells[k]
<1> DEFINE a == Cells(cells, 0, at)
           z == SubSeq(cells, at + Len(source) + 1, Len(cells))
           w == Written(cells, at, source)
<1>1. Len(source) \in Nat /\ Len(cells) \in Nat
  OBVIOUS
<1>2. a \in Seq(CellChars) /\ Len(a) = at
      /\ \A k \in 1 .. at : a[k] = IF 0 + k <= Len(cells) THEN cells[0 + k] ELSE Stale
  <2>1. AreCells(a, cells, 0, at)
    BY CellsAre
  <2> HIDE DEF a
  <2> QED
    BY <2>1 DEF AreCells
<1>3. /\ z \in Seq(CellChars)
      /\ Len(z) = IF at + Len(source) < Len(cells) THEN Len(cells) - (at + Len(source)) ELSE 0
      /\ \A k \in 1 .. Len(cells) - (at + Len(source)) : z[k] = cells[at + Len(source) + k]
  <2>1. /\ at + Len(source) + 1 \in Int /\ Len(cells) \in Int
        /\ \A i \in at + Len(source) + 1 .. Len(cells) : cells[i] \in CellChars
    BY <1>1
  <2>2. /\ z \in Seq(CellChars)
        /\ Len(z) = IF at + Len(source) + 1 <= Len(cells) THEN Len(cells) - (at + Len(source) + 1) + 1 ELSE 0
        /\ \A k \in 1 .. Len(cells) - (at + Len(source) + 1) + 1 : z[k] = cells[at + Len(source) + 1 + k - 1]
    BY <2>1, SubSeqProperties
  <2> HIDE DEF z
  <2> QED
    BY <1>1, <2>2
<1>4. w = (a \o source) \o z
  BY DEF Written
<1> HIDE DEF a, z, w
<1> DEFINE az == a \o source
<1>5. /\ az \in Seq(CellChars) /\ Len(az) = at + Len(source)
      /\ \A k \in 1 .. at : az[k] = a[k]
      /\ \A k \in at + 1 .. at + Len(source) : az[k] = source[k - at]
  <2>1. /\ az \in Seq(CellChars) /\ Len(az) = Len(a) + Len(source)
        /\ \A k \in 1 .. Len(a) : az[k] = a[k]
        /\ \A k \in Len(a) + 1 .. Len(a) + Len(source) : az[k] = source[k - Len(a)]
    BY <1>2, Concats
  <2> HIDE DEF az
  <2> QED
    BY <1>2, <2>1
<1> HIDE DEF az
<1>6. /\ w \in Seq(CellChars) /\ Len(w) = at + Len(source) + Len(z)
      /\ \A k \in 1 .. at + Len(source) : w[k] = az[k]
      /\ \A k \in at + Len(source) + 1 .. at + Len(source) + Len(z) : w[k] = z[k - (at + Len(source))]
  <2> DEFINE y == az \o z
  <2>1. /\ y \in Seq(CellChars) /\ Len(y) = Len(az) + Len(z)
        /\ \A k \in 1 .. Len(az) : y[k] = az[k]
        /\ \A k \in Len(az) + 1 .. Len(az) + Len(z) : y[k] = z[k - Len(az)]
    <3>1. az \in Seq(CellChars) /\ z \in Seq(CellChars)
      BY <1>3, <1>5
    <3> QED
      BY <3>1, Concats
  <2>2. w = y
    BY <1>4 DEF az
  <2> HIDE DEF y
  <2>3. Len(az) = at + Len(source) /\ Len(z) \in Nat
    BY <1>1, <1>3, <1>5
  <2>4. w \in Seq(CellChars) /\ Len(w) = at + Len(source) + Len(z)
    BY <2>1, <2>2, <2>3
  <2>5. \A k \in 1 .. at + Len(source) : w[k] = az[k]
    BY <2>1, <2>2, <2>3
  <2>6. \A k \in at + Len(source) + 1 .. at + Len(source) + Len(z) : w[k] = z[k - (at + Len(source))]
    BY <2>1, <2>2, <2>3
  <2> QED
    BY <2>4, <2>5, <2>6
<1>7. Len(w) = IF at + Len(source) < Len(cells) THEN Len(cells) ELSE at + Len(source)
  <2>1. Len(z) = IF at + Len(source) < Len(cells) THEN Len(cells) - (at + Len(source)) ELSE 0
    BY <1>3
  <2>2. Len(w) = at + Len(source) + Len(z)
    BY <1>6
  <2>3. CASE at + Len(source) < Len(cells)
    <3>1. Len(z) = Len(cells) - (at + Len(source))
      BY <2>1, <2>3
    <3> QED
      BY <1>1, <2>2, <2>3, <3>1
  <2>4. CASE ~ (at + Len(source) < Len(cells))
    <3>1. Len(z) = 0
      BY <2>1, <2>4
    <3> QED
      BY <1>1, <2>2, <2>4, <3>1
  <2> QED
    BY <2>3, <2>4
<1>8. ASSUME NEW k \in 1 .. at
      PROVE  w[k] = IF k <= Len(cells) THEN cells[k] ELSE Stale
  <2>1. k \in 1 .. at + Len(source) /\ 0 + k = k
    BY <1>1
  <2>2. w[k] = az[k]
    BY <1>6, <2>1
  <2>3. az[k] = a[k]
    BY <1>5
  <2>4. a[k] = IF k <= Len(cells) THEN cells[k] ELSE Stale
    BY <1>2, <2>1
  <2> QED
    BY <2>2, <2>3, <2>4
<1>9. ASSUME NEW k \in 1 .. Len(source)
      PROVE  w[at + k] = source[k]
  <2>1. at + k \in 1 .. at + Len(source) /\ at + k \in at + 1 .. at + Len(source) /\ (at + k) - at = k
    BY <1>1
  <2>2. w[at + k] = az[at + k] /\ az[at + k] = source[(at + k) - at]
    BY <1>5, <1>6, <2>1
  <2> QED
    BY <2>1, <2>2
<1>10. ASSUME NEW k \in at + Len(source) + 1 .. Len(cells)
       PROVE  w[k] = cells[k]
  <2>1. k - (at + Len(source)) \in 1 .. Len(cells) - (at + Len(source)) /\ at + Len(source) < Len(cells)
    BY <1>1
  <2>2. k \in at + Len(source) + 1 .. at + Len(source) + Len(z)
    BY <1>1, <1>3, <2>1
  <2>3. w[k] = z[k - (at + Len(source))]
    BY <1>6, <2>2
  <2>4. z[k - (at + Len(source))] = cells[at + Len(source) + (k - (at + Len(source)))]
    BY <1>3, <2>1
  <2>5. at + Len(source) + (k - (at + Len(source))) = k
    BY <1>1
  <2> QED
    BY <2>3, <2>4, <2>5
<1> QED
  BY <1>6, <1>7, <1>8, <1>9, <1>10 DEF w

-----------------------------------------------------------------------------
\* The buffer begins with the text.
BeginsWith(cells, text) == Len(text) <= Len(cells) /\ \A k \in 1 .. Len(text) : cells[k] = text[k]

\* The storage is of the right type, and holds the allocation that it uses.
Sound(s) ==
  /\ s \in StrObject
  /\ s.short => s.capacity = InlineCapacity
  /\ s.heap = IF s.short THEN 0 ELSE 1

WithCells(s, cells) == [s EXCEPT !.cells = cells]

\* commitSize() after the characters have been written.
LEMMA Committed ==
    ASSUME NEW s, Sound(s), NEW cells \in Seq(CellChars), NEW t \in Seq(Chars),
           Len(t) <= MaxText, Len(t) <= s.capacity, BeginsWith(cells, t)
    PROVE  Holds(CommitSize(WithCells(s, cells), Len(t)), t)
<1> DEFINE c == Cells(cells, 0, Len(t))
           r == CommitSize(WithCells(s, cells), Len(t))
<1>1. Len(t) \in Nat
  OBVIOUS
<1>2. c \in Seq(CellChars) /\ Len(c) = Len(t)
      /\ \A k \in 1 .. Len(t) : c[k] = IF 0 + k <= Len(cells) THEN cells[0 + k] ELSE Stale
  <2>1. AreCells(c, cells, 0, Len(t))
    BY <1>1, CellsAre
  <2> HIDE DEF c
  <2> QED
    BY <2>1 DEF AreCells
<1>3. /\ r \in [short : BOOLEAN, capacity : 1 .. MaxChars, size : Nat, cells : {c \o <<Nul>>}, heap : Nat]
      /\ r.short = s.short /\ r.capacity = s.capacity /\ r.heap = s.heap
      /\ r.cells = c \o <<Nul>> /\ r.size = Len(t)
  BY <1>1 DEF Sound, StrObject, CommitSize, WriteTerminator, WithCells
<1> HIDE DEF c, r
<1>4. c = t
  <2>1. ASSUME NEW k \in 1 .. Len(t) PROVE c[k] = t[k]
    BY <1>1, <1>2, <2>1 DEF BeginsWith
  <2>2. t \in Seq(CellChars)
    BY DEF CellChars
  <2> QED
    BY <1>2, <2>1, <2>2, SeqEqual
<1>5. t \o <<Nul>> \in Seq(CellChars)
  <2>1. t \in Seq(CellChars) /\ <<Nul>> \in Seq(CellChars)
    BY DEF CellChars, Chars
  <2> QED
    BY <2>1
<1>6. r \in StrObject
  BY <1>3, <1>4, <1>5 DEF StrObject
<1> QED
  BY <1>3, <1>4, <1>6 DEF Holds, Sound, r

\* What Holds says of one cell after the other.
LEMMA Held ==
    ASSUME NEW s, NEW t, Holds(s, t)
    PROVE  /\ Sound(s) /\ t \in Seq(Chars) /\ Len(t) \in 0 .. MaxText
           /\ s.size = Len(t) /\ Len(t) <= s.capacity /\ s.capacity \in 1 .. MaxChars
           /\ s.cells \in Seq(CellChars) /\ Len(s.cells) = Len(t) + 1
           /\ BeginsWith(s.cells, t)
<1>1. /\ s \in StrObject /\ t \in Seq(Chars) /\ Len(t) \in 0 .. MaxText
      /\ s.size = Len(t) /\ Len(t) <= s.capacity /\ s.cells = t \o <<Nul>>
  BY StrAssumption DEF Holds
<1>2. s.capacity \in 1 .. MaxChars /\ s.cells \in Seq(CellChars) /\ Sound(s)
  BY <1>1 DEF Holds, Sound, StrObject
<1>3. <<Nul>> \in Seq(Chars) /\ Len(<<Nul>>) = 1
  BY DEF Chars
<1>4. /\ Len(t \o <<Nul>>) = Len(t) + 1
      /\ \A k \in 1 .. Len(t) : (t \o <<Nul>>)[k] = t[k]
  BY <1>1, <1>3, Concats
<1> QED
  BY <1>1, <1>2, <1>4 DEF BeginsWith

\* All the cells there are.
LEMMA CellsWhole ==
    ASSUME NEW cells \in Seq(CellChars)
    PROVE  Cells(cells, 0, Len(cells)) = cells
<1> DEFINE c == Cells(cells, 0, Len(cells))
<1>1. Len(cells) \in Nat
  OBVIOUS
<1>2. c \in Seq(CellChars) /\ Len(c) = Len(cells)
      /\ \A k \in 1 .. Len(cells) : c[k] = IF 0 + k <= Len(cells) THEN cells[0 + k] ELSE Stale
  <2>1. AreCells(c, cells, 0, Len(cells))
    BY <1>1, CellsAre
  <2> HIDE DEF c
  <2> QED
    BY <2>1 DEF AreCells
<1> HIDE DEF c
<1>3. ASSUME NEW k \in 1 .. Len(cells) PROVE c[k] = cells[k]
  BY <1>1, <1>2
<1>4. c = cells
  BY <1>2, <1>3, SeqEqual
<1> QED
  BY <1>4 DEF c

\* A string whose buffer is replaced by one with the same cells.
LEMMA SameCells ==
    ASSUME NEW s, NEW t, Holds(s, t)
    PROVE  Cells(s.cells, 0, s.size + 1) = s.cells
<1>1. s.cells \in Seq(CellChars) /\ s.size + 1 = Len(s.cells)
  BY Held
<1>2. Cells(s.cells, 0, Len(s.cells)) = s.cells
  BY <1>1, CellsWhole
<1> QED
  BY <1>1, <1>2

\* There is a least one among the natural numbers that satisfy a condition.
LEMMA LeastExists ==
    ASSUME NEW T \in SUBSET Nat, T # {}
    PROVE  \E x \in T : \A y \in T : x <= y
<1>1. PICK x \in T : \A y \in T : ~ (<<y, x>> \in OpToRel(<, Nat))
  BY NatLessThanWellFounded, WFMin
<1>2. \A y \in T : ~ (y < x)
  BY <1>1 DEF OpToRel
<1> QED
  BY <1>2

\* The new capacity is enough, and no more than there may be.
LEMMA GrowthIsEnough ==
    ASSUME NEW c \in Nat, NEW wanted \in 0 .. MaxChars
    PROVE  DoubleGrowth(c, wanted) \in wanted .. MaxChars
<1> DEFINE enough == {n \in wanted .. MaxChars \div 2 : \E k \in 1 .. n : n = c * 2 ^ k}
<1>1. MaxChars \in Nat
  BY StrAssumption
<1>2. MaxChars \div 2 \in 0 .. MaxChars
  BY <1>1
<1>3. enough \subseteq wanted .. MaxChars
  BY <1>1, <1>2
<1>4. DoubleGrowth(c, wanted)
        = IF enough = {} THEN MaxChars ELSE CHOOSE n \in enough : \A m \in enough : n <= m
  BY DEF DoubleGrowth
<1> HIDE DEF enough
<1>5. CASE enough = {}
  BY <1>1, <1>4, <1>5
<1>6. CASE enough # {}
  <2>1. enough \in SUBSET Nat
    BY <1>1, <1>3
  <2>2. \E n \in enough : \A m \in enough : n <= m
    BY <1>6, <2>1, LeastExists
  <2>3. (CHOOSE n \in enough : \A m \in enough : n <= m) \in enough
    BY <2>2
  <2> QED
    BY <1>3, <1>4, <1>6, <2>3
<1> QED
  BY <1>5, <1>6

\* The same text in another place.
Placed(s, short, room, inHeap) ==
  [s EXCEPT !.short = short, !.capacity = room, !.cells = s.cells, !.heap = inHeap]

LEMMA PlacedHolds ==
    ASSUME NEW s, NEW t, Holds(s, t), NEW short \in BOOLEAN, NEW room \in 1 .. MaxChars,
           Len(t) <= room, short => room = InlineCapacity,
           NEW inHeap \in Nat, short => inHeap = 0, ~ short => inHeap = 1
    PROVE  Holds(Placed(s, short, room, inHeap), t) /\ Placed(s, short, room, inHeap).capacity = room
<1> DEFINE r == Placed(s, short, room, inHeap)
<1>1. s \in StrObject
  BY DEF Holds
<1>2. r \in StrObject
  BY <1>1 DEF StrObject, Placed
<1>3. /\ r.short = short /\ r.capacity = room
      /\ r.size = s.size /\ r.cells = s.cells /\ r.heap = inHeap
  BY <1>1 DEF StrObject, Placed
<1> HIDE DEF r
<1>4. Holds(r, t)
  BY <1>2, <1>3 DEF Holds
<1> QED
  BY <1>3, <1>4 DEF r

\* reserve(): the text stays, and n characters have room.
LEMMA ReserveHolds ==
    ASSUME NEW s, NEW t, Holds(s, t), NEW n \in 0 .. MaxChars
    PROVE  Holds(Reserve(s, n), t) /\ n <= Reserve(s, n).capacity
<1>1. s.capacity \in 1 .. MaxChars /\ Len(t) \in Nat /\ Len(t) <= s.capacity /\ MaxChars \in Nat
  BY StrAssumption, Held
<1>2. CASE n > s.capacity
  <2> DEFINE c == DoubleGrowth(s.capacity, n)
  <2>1. c \in n .. MaxChars
    <3>1. s.capacity \in Nat
      BY <1>1
    <3> QED
      BY <3>1, GrowthIsEnough
  <2>2. c \in 1 .. MaxChars /\ n <= c /\ Len(t) <= c
    BY <1>1, <1>2, <2>1
  <2>3. Reserve(s, n) = Reallocate(s, c)
    BY <1>2 DEF Reserve
  <2> HIDE DEF c
  <2>4. Reallocate(s, c) = Placed(s, FALSE, c, 1)
    <3>1. Cells(s.cells, 0, s.size + 1) = s.cells
      BY SameCells
    <3> DEFINE h == IF s.short THEN s.heap + 1 ELSE s.heap
    <3>2. h = 1
      BY DEF Holds
    <3>3. Reallocate(s, c) = Placed(s, FALSE, c, h)
      BY <3>1 DEF Reallocate, Placed
    <3> HIDE DEF h
    <3> QED
      BY <3>2, <3>3
  <2>5. Holds(Placed(s, FALSE, c, 1), t) /\ Placed(s, FALSE, c, 1).capacity = c
    <3>1. 1 \in Nat
      OBVIOUS
    <3> QED
      BY <2>2, <3>1, PlacedHolds, Zenon
  <2> QED
    BY <2>2, <2>3, <2>4, <2>5
<1>3. CASE ~ (n > s.capacity)
  BY <1>1, <1>3 DEF Reserve
<1> QED
  BY <1>2, <1>3

\* shrinkToFit(): back into the object, or into a smaller block.
LEMMA ShrinkHolds ==
    ASSUME NEW s, NEW t, Holds(s, t)
    PROVE  Holds(ShrinkToFit(s), t)
<1>1. /\ s.size = Len(t) /\ Len(t) \in Nat /\ s.capacity \in 1 .. MaxChars /\ Len(t) <= s.capacity
      /\ MaxChars \in Nat /\ InlineCapacity \in 1 .. MaxChars
  BY StrAssumption, Held
<1>2. Cells(s.cells, 0, s.size + 1) = s.cells
  BY SameCells
<1>3. CASE s.short
  BY <1>3 DEF ShrinkToFit
<1>4. CASE ~ s.short /\ s.size <= InlineCapacity
  <2> DEFINE h == s.heap - 1
  <2>1. h = 0
    BY <1>4 DEF Holds
  <2>2. ShrinkToFit(s) = Placed(s, TRUE, InlineCapacity, h)
    BY <1>2, <1>4 DEF ShrinkToFit, MoveToShort, Placed
  <2> HIDE DEF h
  <2>3. ShrinkToFit(s) = Placed(s, TRUE, InlineCapacity, 0)
    BY <2>1, <2>2
  <2>4. Len(t) <= InlineCapacity /\ 0 \in Nat /\ InlineCapacity \in 1 .. MaxChars
    BY <1>1, <1>4
  <2>5. TRUE \in BOOLEAN /\ (TRUE => 0 = 0) /\ (~ TRUE => 0 = 1)
        /\ (TRUE => InlineCapacity = InlineCapacity)
    OBVIOUS
  <2>6. Holds(Placed(s, TRUE, InlineCapacity, 0), t)
    BY <2>4, <2>5, PlacedHolds, Zenon
  <2> QED
    BY <2>3, <2>6
<1>5. CASE ~ s.short /\ ~ (s.size <= InlineCapacity) /\ s.size < s.capacity
  <2>1. s.heap = 1
    BY <1>5 DEF Holds
  <2>2. ShrinkToFit(s) = Placed(s, FALSE, s.size, s.heap)
    BY <1>2, <1>5 DEF ShrinkToFit, Reallocate, Placed
  <2>3. ShrinkToFit(s) = Placed(s, FALSE, s.size, 1)
    BY <2>1, <2>2
  <2>4. s.size \in 1 .. MaxChars
    BY <1>1, <1>5
  <2>5. Len(t) <= s.size /\ 1 \in Nat
    BY <1>1
  <2>6. FALSE \in BOOLEAN /\ (FALSE => 1 = 0) /\ (~ FALSE => 1 = 1)
        /\ (FALSE => s.size = InlineCapacity)
    OBVIOUS
  <2>7. Holds(Placed(s, FALSE, s.size, 1), t)
    BY <2>4, <2>5, <2>6, PlacedHolds, Zenon
  <2> QED
    BY <2>3, <2>7
<1>6. CASE ~ s.short /\ ~ (s.size <= InlineCapacity) /\ ~ (s.size < s.capacity)
  BY <1>6 DEF ShrinkToFit
<1> QED
  BY <1>3, <1>4, <1>5, <1>6

-----------------------------------------------------------------------------
\* What is written is committed: the form that every operation has.
LEMMA CommitHolds ==
    ASSUME NEW r, NEW old, Holds(r, old), NEW cells \in Seq(CellChars), NEW t \in Seq(Chars),
           NEW n, n = Len(t), Len(t) <= MaxText, Len(t) <= r.capacity, BeginsWith(cells, t)
    PROVE  Holds(CommitSize([r EXCEPT !.cells = cells], n), t)
<1>1. Sound(r)
  BY Held
<1>2. Holds(CommitSize(WithCells(r, cells), Len(t)), t)
  BY <1>1, Committed
<1> QED
  BY <1>2 DEF WithCells

\* The characters are those that are there already.
LEMMA CutHolds ==
    ASSUME NEW s, NEW old, Holds(s, old), NEW n \in 0 .. Len(old)
    PROVE  Holds(CommitSize(s, n), SubSeq(old, 1, n))
<1> DEFINE t == SubSeq(old, 1, n)
<1>1. /\ s.cells \in Seq(CellChars) /\ BeginsWith(s.cells, old) /\ Len(s.cells) = Len(old) + 1
      /\ Len(old) <= s.capacity /\ old \in Seq(Chars) /\ Len(old) \in 0 .. MaxText /\ Sound(s)
      /\ s.capacity \in 1 .. MaxChars
  BY Held
<1>2. t \in Seq(Chars) /\ Len(t) = n /\ \A k \in 1 .. n : t[k] = old[k]
  <2>1. \A i \in 1 .. n : old[i] \in Chars
    BY <1>1
  <2>2. /\ t \in Seq(Chars) /\ Len(t) = IF 1 <= n THEN n - 1 + 1 ELSE 0
        /\ \A k \in 1 .. n - 1 + 1 : t[k] = old[1 + k - 1]
    BY <2>1, SubSeqProperties
  <2> HIDE DEF t
  <2> QED
    BY <2>2
<1> HIDE DEF t
<1>3. BeginsWith(s.cells, t)
  <2>1. n \in Nat /\ n <= Len(old) /\ \A k \in 1 .. n : k \in 1 .. Len(old)
    BY <1>1
  <2>2. n <= Len(s.cells) /\ \A k \in 1 .. n : s.cells[k] = old[k]
    BY <1>1, <2>1 DEF BeginsWith
  <2> QED
    BY <1>2, <2>2 DEF BeginsWith
<1>4. Len(t) <= MaxText /\ Len(t) <= s.capacity
  BY <1>1, <1>2, StrAssumption
<1>5. Holds(CommitSize(WithCells(s, s.cells), Len(t)), t)
  BY <1>1, <1>2, <1>3, <1>4, Committed
<1>6. WithCells(s, s.cells) = s
  BY <1>1 DEF Sound, StrObject, WithCells
<1> QED
  BY <1>2, <1>5, <1>6 DEF t

LEMMA EmptyHolds == Holds(EmptyShort, <<>>)
<1>1. <<Nul>> \in Seq(CellChars) /\ <<>> \in Seq(Chars) /\ <<>> \o <<Nul>> = <<Nul>> /\ Len(<<>>) = 0
  BY DEF CellChars, Chars
<1>2. EmptyShort \in StrObject
  BY <1>1, StrAssumption DEF EmptyShort, StrObject
<1> QED
  BY <1>1, <1>2, StrAssumption DEF Holds, EmptyShort

LEMMA ClearHolds ==
    ASSUME NEW s, NEW t, Holds(s, t)
    PROVE  Holds(Clear(s), <<>>)
<1>1. Len(t) \in Nat /\ SubSeq(t, 1, 0) = <<>>
  BY Held
<1>2. Holds(CommitSize(s, 0), SubSeq(t, 1, 0))
  BY <1>1, CutHolds
<1> QED
  BY <1>1, <1>2 DEF Clear

LEMMA ResetHolds ==
    ASSUME NEW s, NEW t, Holds(s, t)
    PROVE  Reset(s) = EmptyShort
<1> DEFINE h == IF s.short THEN s.heap ELSE s.heap - 1
<1>1. h = 0
  BY DEF Holds
<1>2. Reset(s) = [EmptyShort EXCEPT !.heap = h]
  BY DEF Reset
<1> HIDE DEF h
<1> QED
  BY <1>1, <1>2 DEF EmptyShort

\* Characters written after the text.
LEMMA WrittenAfter ==
    ASSUME NEW s, NEW t, Holds(s, t), NEW u \in Seq(Chars)
    PROVE  /\ Written(s.cells, s.size, u) \in Seq(CellChars)
           /\ BeginsWith(Written(s.cells, s.size, u), t \o u)
           /\ t \o u \in Seq(Chars) /\ Len(t \o u) = s.size + Len(u)
<1> DEFINE w == Written(s.cells, Len(t), u)
           tu == t \o u
<1>1. /\ s.size = Len(t) /\ s.cells \in Seq(CellChars) /\ BeginsWith(s.cells, t)
      /\ t \in Seq(Chars) /\ Len(s.cells) = Len(t) + 1 /\ Len(t) \in Nat
  BY Held
<1>2. u \in Seq(CellChars) /\ Len(u) \in Nat
  BY DEF CellChars
<1>3. /\ w \in Seq(CellChars)
      /\ Len(w) = IF Len(t) + Len(u) < Len(s.cells) THEN Len(s.cells) ELSE Len(t) + Len(u)
      /\ \A k \in 1 .. Len(t) : w[k] = IF k <= Len(s.cells) THEN s.cells[k] ELSE Stale
      /\ \A k \in 1 .. Len(u) : w[Len(t) + k] = u[k]
  <2> HIDE DEF w
  <2>1. \A cells \in Seq(CellChars), at \in Nat, c \in Seq(CellChars) :
          LET written == Written(cells, at, c)
          IN  /\ written \in Seq(CellChars)
              /\ Len(written) = IF at + Len(c) < Len(cells) THEN Len(cells) ELSE at + Len(c)
              /\ \A k \in 1 .. at : written[k] = IF k <= Len(cells) THEN cells[k] ELSE Stale
              /\ \A k \in 1 .. Len(c) : written[at + k] = c[k]
    BY WrittenIs
  <2> QED
    BY <1>1, <1>2, <2>1 DEF w
<1>4. /\ tu \in Seq(Chars) /\ Len(tu) = Len(t) + Len(u)
      /\ \A k \in 1 .. Len(t) : tu[k] = t[k]
      /\ \A k \in Len(t) + 1 .. Len(t) + Len(u) : tu[k] = u[k - Len(t)]
  BY <1>1, Concats
<1> HIDE DEF w, tu
<1>5. Len(tu) <= Len(w)
  BY <1>1, <1>2, <1>3, <1>4
<1>6. ASSUME NEW k \in 1 .. Len(tu) PROVE w[k] = tu[k]
  <2>1. CASE k <= Len(t)
    BY <1>1, <1>3, <1>4, <2>1 DEF BeginsWith
  <2>2. CASE ~ (k <= Len(t))
    <3>1. k - Len(t) \in 1 .. Len(u) /\ k \in Len(t) + 1 .. Len(t) + Len(u)
          /\ Len(t) + (k - Len(t)) = k
      BY <1>1, <1>2, <1>4, <2>2
    <3> QED
      BY <1>3, <1>4, <3>1
  <2> QED
    BY <2>1, <2>2
<1>7. BeginsWith(w, tu)
  BY <1>5, <1>6 DEF BeginsWith
<1> QED
  BY <1>1, <1>3, <1>4, <1>7 DEF w, tu

\* Room for a text that is no longer than the bound.
LEMMA RoomFor ==
    ASSUME NEW s, NEW t, Holds(s, t), NEW n \in Nat, n <= MaxText
    PROVE  Holds(Reserve(s, n), t) /\ n <= Reserve(s, n).capacity
<1>1. n \in 0 .. MaxChars
  BY StrAssumption
<1> QED
  BY <1>1, ReserveHolds

LEMMA Replicates ==
    ASSUME NEW n \in Int, NEW ch \in Chars
    PROVE  /\ Replicate(n, ch) \in Seq(Chars)
           /\ n \in Nat => Len(Replicate(n, ch)) = n
           /\ n <= 0 => Replicate(n, ch) = <<>>
<1>1. CASE n <= 0
  <2>1. 1 .. n = {}
    BY <1>1
  <2>2. Replicate(n, ch) = <<>>
    BY <2>1 DEF Replicate
  <2> QED
    BY <1>1, <2>2
<1>2. CASE ~ (n <= 0)
  BY <1>2 DEF Replicate
<1> QED
  BY <1>1, <1>2

\* resize() to more characters, and to fewer.
LEMMA ResizeGrows ==
    ASSUME NEW s, NEW t, Holds(s, t), NEW n \in Nat, n <= MaxText, n > Len(t), NEW ch \in Chars
    PROVE  Holds(Resize(s, n, ch), t \o Replicate(n - Len(t), ch))
<1> DEFINE r == Reserve(s, n)
           u == Replicate(n - Len(t), ch)
           w == Written(r.cells, r.size, u)
<1>1. Holds(r, t) /\ n <= r.capacity
  BY RoomFor
<1>2. s.size = Len(t) /\ Len(t) \in Nat
  BY Held
<1>3. u \in Seq(Chars) /\ Len(u) = n - Len(t)
  BY <1>2, Replicates
<1>4. Resize(s, n, ch) = CommitSize([r EXCEPT !.cells = Written(r.cells, s.size, Replicate(n - s.size, ch))], n)
  BY <1>2 DEF Resize
<1> HIDE DEF r
<1>5. r.size = s.size
  BY <1>1, <1>2, Held
<1>6. Resize(s, n, ch) = CommitSize([r EXCEPT !.cells = w], n)
  BY <1>2, <1>4, <1>5
<1> HIDE DEF u
<1>7. /\ w \in Seq(CellChars) /\ BeginsWith(w, t \o u)
      /\ t \o u \in Seq(Chars) /\ Len(t \o u) = r.size + Len(u)
  BY <1>1, <1>3, WrittenAfter
<1>8. n = Len(t \o u) /\ Len(t \o u) <= MaxText /\ Len(t \o u) <= r.capacity
  BY <1>1, <1>2, <1>3, <1>5, <1>7
<1> HIDE DEF w
<1>9. Holds(CommitSize([r EXCEPT !.cells = w], n), t \o u)
  BY <1>1, <1>7, <1>8, CommitHolds
<1> QED
  BY <1>6, <1>9 DEF u

LEMMA ResizeShrinks ==
    ASSUME NEW s, NEW t, Holds(s, t), NEW n \in 0 .. Len(t), NEW ch \in Chars
    PROVE  Holds(Resize(s, n, ch), SubSeq(t, 1, n))
<1>1. s.size = Len(t) /\ Len(t) \in Nat
  BY Held
<1>2. Resize(s, n, ch) = CommitSize(s, n)
  BY <1>1 DEF Resize
<1> QED
  BY <1>2, CutHolds

\* assign(n, ch) and append(n, ch)
LEMMA AssignFillHolds ==
    ASSUME NEW s, NEW t, Holds(s, t), NEW n \in Nat, n <= MaxText, NEW ch \in Chars
    PROVE  Holds(AssignFill(s, n, ch), Replicate(n, ch))
<1>1. Holds(Clear(s), <<>>) /\ Len(<<>>) = 0
  BY ClearHolds
<1>2. Replicate(n, ch) \in Seq(Chars)
  BY Replicates
<1>3. CASE n = 0
  <2>1. Holds(Resize(Clear(s), n, ch), SubSeq(<<>>, 1, n))
    BY <1>1, <1>3, ResizeShrinks
  <2>2. SubSeq(<<>>, 1, n) = <<>> /\ Replicate(n, ch) = <<>>
    BY <1>3, Replicates
  <2> QED
    BY <2>1, <2>2 DEF AssignFill
<1>4. CASE n > 0
  <2>1. Holds(Resize(Clear(s), n, ch), <<>> \o Replicate(n - Len(<<>>), ch))
    BY <1>1, <1>4, ResizeGrows
  <2>2. n - Len(<<>>) = n
    BY <1>1
  <2>3. <<>> \o Replicate(n, ch) = Replicate(n, ch)
    BY <1>2
  <2> QED
    BY <2>1, <2>2, <2>3 DEF AssignFill
<1> QED
  BY <1>3, <1>4

LEMMA AppendFillHolds ==
    ASSUME NEW s, NEW t, Holds(s, t), NEW n \in Nat, Len(t) + n <= MaxText, NEW ch \in Chars
    PROVE  Holds(AppendFill(s, n, ch), t \o Replicate(n, ch))
<1>1. s.size = Len(t) /\ Len(t) \in Nat /\ t \in Seq(Chars)
  BY Held
<1>2. AppendFill(s, n, ch) = Resize(s, Len(t) + n, ch)
  BY <1>1 DEF AppendFill
<1>3. CASE n = 0
  <2>1. Holds(Resize(s, Len(t) + n, ch), SubSeq(t, 1, Len(t) + n))
    BY <1>1, <1>3, ResizeShrinks
  <2>2. SubSeq(t, 1, Len(t) + n) = t /\ t \o Replicate(n, ch) = t
    <3>1. Replicate(n, ch) = <<>>
      BY <1>3, Replicates
    <3>2. Len(t) + n = Len(t)
      BY <1>1, <1>3
    <3>3. SubSeq(t, 1, Len(t)) = t /\ t \o <<>> = t
      BY <1>1
    <3> QED
      BY <3>1, <3>2, <3>3
  <2> QED
    BY <1>2, <2>1, <2>2
<1>4. CASE n > 0
  <2>1. Holds(Resize(s, Len(t) + n, ch), t \o Replicate(Len(t) + n - Len(t), ch))
    BY <1>1, <1>4, ResizeGrows
  <2>2. Len(t) + n - Len(t) = n
    BY <1>1
  <2> QED
    BY <1>2, <2>1, <2>2
<1> QED
  BY <1>3, <1>4

-----------------------------------------------------------------------------
\* Characters passed to a string that reads t: if they are its own, they lie
\* inside it and read what they read.
IsSource(src, t) ==
  /\ src.text \in Seq(Chars)
  /\ src.own \in BOOLEAN
  /\ src.own => /\ src.at \in Nat /\ src.at + Len(src.text) <= Len(t)
                /\ \A k \in 1 .. Len(src.text) : src.text[k] = t[src.at + k]

LEMMA ForeignIsSource ==
    ASSUME NEW text \in Seq(Chars), NEW t
    PROVE  IsSource(Foreign(text), t) /\ Foreign(text).text = text
BY DEF IsSource, Foreign

LEMMA OwnIsSource ==
    ASSUME NEW s, NEW t, Holds(s, t), NEW at \in Nat, NEW n \in Nat,
           at + Len(Own(s, at, n).text) <= Len(t)
    PROVE  IsSource(Own(s, at, n), t)
<1> DEFINE text == Cells(s.cells, at, n)
<1>1. /\ s.cells \in Seq(CellChars) /\ BeginsWith(s.cells, t) /\ t \in Seq(Chars)
      /\ Len(t) \in Nat /\ Len(s.cells) = Len(t) + 1
  BY Held
<1>2. /\ text \in Seq(CellChars) /\ Len(text) = n
      /\ \A k \in 1 .. n : text[k] = IF at + k <= Len(s.cells) THEN s.cells[at + k] ELSE Stale
  <2>1. AreCells(text, s.cells, at, n)
    BY <1>1, CellsAre
  <2> HIDE DEF text
  <2> QED
    BY <2>1 DEF AreCells
<1>3. Own(s, at, n) = [own |-> TRUE, at |-> at, text |-> text]
  BY DEF Own
<1> HIDE DEF text
<1>4. at + n <= Len(t)
  BY <1>2, <1>3
<1>5. ASSUME NEW k \in 1 .. n
      PROVE  text[k] = t[at + k] /\ text[k] \in Chars
  <2>1. at + k \in 1 .. Len(t) /\ at + k <= Len(s.cells)
    BY <1>1, <1>4
  <2>2. s.cells[at + k] = t[at + k] /\ t[at + k] \in Chars
    BY <1>1, <2>1 DEF BeginsWith
  <2>3. text[k] = s.cells[at + k]
    <3>1. text[k] = IF at + k <= Len(s.cells) THEN s.cells[at + k] ELSE Stale
      BY <1>2
    <3> QED
      BY <2>1, <3>1
  <2> QED
    BY <2>2, <2>3
<1>6. text \in Seq(Chars)
  <2>1. \A k \in 1 .. n : text[k] \in Chars
    BY <1>5
  <2>2. DOMAIN text = 1 .. n /\ text \in [1 .. n -> CellChars]
    BY <1>2
  <2>3. text \in [1 .. n -> Chars]
    BY <2>1, <2>2
  <2> QED
    BY <2>3
<1> QED
  BY <1>2, <1>3, <1>4, <1>5, <1>6 DEF IsSource

\* The source is read where it lies, before anything is written over it.
LEMMA ReadsSource ==
    ASSUME NEW s, NEW t, Holds(s, t), NEW src, IsSource(src, t)
    PROVE  ReadFrom(s.cells, src) = src.text
<1>1. /\ s.cells \in Seq(CellChars) /\ BeginsWith(s.cells, t) /\ Len(t) \in Nat
      /\ Len(s.cells) = Len(t) + 1
  BY Held
<1>2. src.text \in Seq(Chars)
  BY DEF IsSource
<1>3. CASE src.own
  <2> DEFINE c == Cells(s.cells, src.at, Len(src.text))
  <2>1. /\ src.at \in Nat /\ src.at + Len(src.text) <= Len(t) /\ Len(src.text) \in Nat
        /\ \A k \in 1 .. Len(src.text) : src.text[k] = t[src.at + k]
    BY <1>2, <1>3 DEF IsSource
  <2>2. /\ c \in Seq(CellChars) /\ Len(c) = Len(src.text)
        /\ \A k \in 1 .. Len(src.text) :
             c[k] = IF src.at + k <= Len(s.cells) THEN s.cells[src.at + k] ELSE Stale
    <3>1. AreCells(c, s.cells, src.at, Len(src.text))
      BY <1>1, <2>1, CellsAre
    <3> HIDE DEF c
    <3> QED
      BY <3>1 DEF AreCells
  <2>3. ReadFrom(s.cells, src) = c
    BY <1>3 DEF ReadFrom
  <2> HIDE DEF c
  <2>4. ASSUME NEW k \in 1 .. Len(src.text) PROVE c[k] = src.text[k]
    <3>1. src.at + k \in 1 .. Len(t) /\ src.at + k <= Len(s.cells)
      BY <1>1, <2>1
    <3>2. s.cells[src.at + k] = t[src.at + k]
      BY <1>1, <3>1 DEF BeginsWith
    <3> QED
      BY <2>1, <2>2, <3>1, <3>2
  <2>5. src.text \in Seq(CellChars)
    BY <1>2 DEF CellChars
  <2>6. c = src.text
    BY <2>2, <2>4, <2>5, SeqEqual
  <2> QED
    BY <2>3, <2>6
<1>4. CASE ~ src.own
  BY <1>4 DEF ReadFrom
<1> QED
  BY <1>3, <1>4

LEMMA AssignHolds ==
    ASSUME NEW s, NEW t, Holds(s, t), NEW src, IsSource(src, t), Len(src.text) <= MaxText
    PROVE  Holds(Assign(s, src), src.text)
<1> DEFINE n == Len(src.text)
           r == IF src.own THEN s ELSE Reserve(s, n)
           w == Written(r.cells, 0, src.text)
<1>1. src.text \in Seq(Chars) /\ n \in Nat /\ src.own \in BOOLEAN
  BY DEF IsSource
<1>2. CASE n = 0
  <2>1. Holds(Clear(s), <<>>)
    BY ClearHolds
  <2>2. Assign(s, src) = Clear(s) /\ src.text = <<>>
    BY <1>1, <1>2 DEF Assign
  <2> QED
    BY <2>1, <2>2
<1>3. CASE n # 0
  <2>1. Holds(r, t) /\ n <= r.capacity
    <3>1. CASE src.own
      <4>1. Len(t) \in Nat /\ Len(t) <= s.capacity /\ s.capacity \in 1 .. MaxChars
        BY Held
      <4>2. src.at \in Nat /\ src.at + n <= Len(t)
        BY <3>1 DEF IsSource
      <4> QED
        BY <1>1, <3>1, <4>1, <4>2, StrAssumption
    <3>2. CASE ~ src.own
      <4>1. Holds(Reserve(s, n), t) /\ n <= Reserve(s, n).capacity
        BY <1>1, RoomFor
      <4> QED
        BY <3>2, <4>1
    <3> QED
      BY <3>1, <3>2
  <2>2. Assign(s, src) = CommitSize([r EXCEPT !.cells = Written(r.cells, 0, ReadFrom(r.cells, src))], n)
    BY <1>3 DEF Assign
  <2> HIDE DEF r
  <2>3. ReadFrom(r.cells, src) = src.text
    BY <2>1, ReadsSource
  <2>4. Assign(s, src) = CommitSize([r EXCEPT !.cells = w], n)
    BY <2>2, <2>3
  <2>5. r.cells \in Seq(CellChars) /\ src.text \in Seq(CellChars)
    <3>1. r.cells \in Seq(CellChars)
      BY <2>1, Held
    <3> QED
      BY <1>1, <3>1 DEF CellChars
  <2>6. /\ w \in Seq(CellChars)
        /\ Len(w) = IF 0 + n < Len(r.cells) THEN Len(r.cells) ELSE 0 + n
        /\ \A k \in 1 .. n : w[0 + k] = src.text[k]
    BY <2>5, WrittenIs
  <2> HIDE DEF w
  <2>7. BeginsWith(w, src.text)
    <3>1. Len(r.cells) \in Nat
      BY <2>5
    <3> QED
      BY <1>1, <2>6, <3>1 DEF BeginsWith
  <2>8. Holds(CommitSize([r EXCEPT !.cells = w], n), src.text)
    BY <1>1, <2>1, <2>6, <2>7, CommitHolds
  <2> QED
    BY <2>4, <2>8
<1> QED
  BY <1>2, <1>3

LEMMA AppendHolds ==
    ASSUME NEW s, NEW t, Holds(s, t), NEW src, IsSource(src, t), Len(t \o src.text) <= MaxText
    PROVE  Holds(AppendRange(s, src), t \o src.text)
<1> DEFINE u == src.text
           n == Len(u)
           r == Reserve(s, s.size + n)
           w == Written(r.cells, r.size, u)
<1>1. u \in Seq(Chars) /\ n \in Nat
  BY DEF IsSource
<1>2. s.size = Len(t) /\ Len(t) \in Nat /\ t \in Seq(Chars)
  BY Held
<1>3. Len(t \o u) = s.size + n
  BY <1>1, <1>2, Concats
<1>4. CASE n = 0
  <2>1. u = <<>> /\ AppendRange(s, src) = s
    BY <1>1, <1>4 DEF AppendRange
  <2>2. t \o u = t
    BY <1>2, <2>1
  <2> QED
    BY <2>1, <2>2
<1>5. CASE n # 0
  <2>1. Holds(r, t) /\ s.size + n <= r.capacity
    BY <1>1, <1>2, <1>3, RoomFor
  <2>2. AppendRange(s, src)
          = CommitSize([r EXCEPT !.cells = Written(r.cells, s.size, ReadFrom(r.cells, src))], s.size + n)
    BY <1>5 DEF AppendRange
  <2> HIDE DEF r
  <2>3. ReadFrom(r.cells, src) = u
    BY <2>1, ReadsSource
  <2>4. r.size = s.size
    BY <1>2, <2>1, Held
  <2>5. AppendRange(s, src) = CommitSize([r EXCEPT !.cells = w], s.size + n)
    BY <2>2, <2>3, <2>4
  <2> HIDE DEF u
  <2>6. w \in Seq(CellChars) /\ BeginsWith(w, t \o u) /\ t \o u \in Seq(Chars)
    BY <1>1, <2>1, WrittenAfter
  <2> HIDE DEF w
  <2>7. Len(t \o u) <= MaxText /\ Len(t \o u) <= r.capacity
    BY <1>3, <2>1 DEF u
  <2>8. Holds(CommitSize([r EXCEPT !.cells = w], s.size + n), t \o u)
    BY <1>3, <2>1, <2>6, <2>7, CommitHolds
  <2> QED
    BY <2>5, <2>8 DEF u
<1> QED
  BY <1>4, <1>5

\* append(ch), pushBack()
LEMMA AppendOneHolds ==
    ASSUME NEW s, NEW t, Holds(s, t), NEW ch \in Chars, Len(t \o <<ch>>) <= MaxText
    PROVE  Holds(AppendOne(s, ch), t \o <<ch>>)
<1> DEFINE u == <<ch>>
           r == Reserve(s, s.size + 1)
           w == Written(r.cells, r.size, u)
<1>1. u \in Seq(Chars) /\ Len(u) = 1
  OBVIOUS
<1>2. s.size = Len(t) /\ Len(t) \in Nat /\ t \in Seq(Chars)
  BY Held
<1>3. Len(t \o u) = s.size + 1
  BY <1>1, <1>2, Concats
<1>4. Holds(r, t) /\ s.size + 1 <= r.capacity
  BY <1>1, <1>2, <1>3, RoomFor
<1>5. AppendOne(s, ch) = CommitSize([r EXCEPT !.cells = Written(r.cells, s.size, <<ch>>)], s.size + 1)
  BY DEF AppendOne
<1> HIDE DEF r
<1>6. r.size = s.size
  BY <1>2, <1>4, Held
<1>7. AppendOne(s, ch) = CommitSize([r EXCEPT !.cells = w], s.size + 1)
  BY <1>5, <1>6
<1>8. Len(t \o u) <= MaxText /\ Len(t \o u) <= r.capacity
  BY <1>3, <1>4
<1> HIDE DEF u
<1>9. w \in Seq(CellChars) /\ BeginsWith(w, t \o u) /\ t \o u \in Seq(Chars)
  BY <1>1, <1>4, WrittenAfter
<1> HIDE DEF w
<1>10. Holds(CommitSize([r EXCEPT !.cells = w], s.size + 1), t \o u)
  BY <1>3, <1>4, <1>8, <1>9, CommitHolds
<1> QED
  BY <1>7, <1>10 DEF u

-----------------------------------------------------------------------------
\* t with d characters from offset p on replaced by u.
Onwards(t, first) == SubSeq(t, first, Len(t))
Replaced(t, p, d, u) == SubSeq(t, 1, p) \o u \o Onwards(t, p + d + 1)

IsReplaced(v, t, p, d, u) ==
  /\ v \in Seq(Chars) /\ Len(v) = Len(t) - d + Len(u)
  /\ \A k \in 1 .. p : v[k] = t[k]
  /\ \A k \in 1 .. Len(u) : v[p + k] = u[k]
  /\ \A k \in 1 .. Len(t) - (p + d) : v[p + Len(u) + k] = t[p + d + k]

LEMMA ReplacedIs ==
    ASSUME NEW t \in Seq(Chars), NEW u \in Seq(Chars), NEW p \in Nat, NEW d \in Nat, p + d <= Len(t)
    PROVE  IsReplaced(Replaced(t, p, d, u), t, p, d, u)
<1> DEFINE a == SubSeq(t, 1, p)
           z == SubSeq(t, p + d + 1, Len(t))
           au == a \o u
           v == au \o z
<1>1. Len(t) \in Nat /\ Len(u) \in Nat
  OBVIOUS
<1>2. a \in Seq(Chars) /\ Len(a) = p /\ \A k \in 1 .. p : a[k] = t[k]
  <2>1. \A i \in 1 .. p : t[i] \in Chars
    BY <1>1
  <2>2. /\ a \in Seq(Chars) /\ Len(a) = IF 1 <= p THEN p - 1 + 1 ELSE 0
        /\ \A k \in 1 .. p - 1 + 1 : a[k] = t[1 + k - 1]
    BY <2>1, SubSeqProperties
  <2> HIDE DEF a
  <2> QED
    BY <2>2
<1>3. /\ z \in Seq(Chars) /\ Len(z) = Len(t) - (p + d)
      /\ \A k \in 1 .. Len(t) - (p + d) : z[k] = t[p + d + k]
  <2>1. /\ p + d + 1 \in Int
        /\ \A i \in p + d + 1 .. Len(t) : t[i] \in Chars
    BY <1>1
  <2>2. /\ z \in Seq(Chars)
        /\ Len(z) = IF p + d + 1 <= Len(t) THEN Len(t) - (p + d + 1) + 1 ELSE 0
        /\ \A k \in 1 .. Len(t) - (p + d + 1) + 1 : z[k] = t[p + d + 1 + k - 1]
    BY <1>1, <2>1, SubSeqProperties
  <2> HIDE DEF z
  <2>3. Len(z) = Len(t) - (p + d)
    BY <1>1, <2>2
  <2>4. ASSUME NEW k \in 1 .. Len(t) - (p + d) PROVE z[k] = t[p + d + k]
    BY <1>1, <2>2
  <2> QED
    BY <2>2, <2>3, <2>4
<1>4. v = Replaced(t, p, d, u)
  BY DEF Replaced, Onwards
<1> HIDE DEF a, z
<1>5. /\ au \in Seq(Chars) /\ Len(au) = p + Len(u)
      /\ \A k \in 1 .. p : au[k] = a[k]
      /\ \A k \in p + 1 .. p + Len(u) : au[k] = u[k - p]
  <2>1. /\ au \in Seq(Chars) /\ Len(au) = Len(a) + Len(u)
        /\ \A k \in 1 .. Len(a) : au[k] = a[k]
        /\ \A k \in Len(a) + 1 .. Len(a) + Len(u) : au[k] = u[k - Len(a)]
    <3>1. a \in Seq(Chars)
      BY <1>2
    <3> QED
      BY <3>1, Concats
  <2> HIDE DEF au
  <2> QED
    BY <1>2, <2>1
<1> HIDE DEF au
<1>6. /\ v \in Seq(Chars) /\ Len(v) = Len(au) + Len(z)
      /\ \A k \in 1 .. Len(au) : v[k] = au[k]
      /\ \A k \in Len(au) + 1 .. Len(au) + Len(z) : v[k] = z[k - Len(au)]
  <2>1. au \in Seq(Chars) /\ z \in Seq(Chars)
    BY <1>3, <1>5
  <2> QED
    BY <2>1, Concats
<1> HIDE DEF v
<1>7. Len(v) = Len(t) - d + Len(u)
  <2>1. Len(au) = p + Len(u) /\ Len(z) = Len(t) - (p + d) /\ Len(v) = Len(au) + Len(z)
    BY <1>3, <1>5, <1>6
  <2> QED
    BY <1>1, <2>1
<1>8. ASSUME NEW k \in 1 .. p PROVE v[k] = t[k]
  BY <1>1, <1>2, <1>5, <1>6
<1>9. ASSUME NEW k \in 1 .. Len(u) PROVE v[p + k] = u[k]
  <2>1. p + k \in 1 .. p + Len(u) /\ p + k \in p + 1 .. p + Len(u) /\ (p + k) - p = k
    BY <1>1
  <2>2. v[p + k] = au[p + k] /\ au[p + k] = u[(p + k) - p]
    BY <1>5, <1>6, <2>1
  <2> QED
    BY <2>1, <2>2
<1>10. ASSUME NEW k \in 1 .. Len(t) - (p + d) PROVE v[p + Len(u) + k] = t[p + d + k]
  <2> DEFINE j == p + Len(u) + k
  <2>1. Len(au) = p + Len(u) /\ Len(z) = Len(t) - (p + d)
    BY <1>3, <1>5
  <2>2. j \in Len(au) + 1 .. Len(au) + Len(z) /\ j - Len(au) = k
    BY <1>1, <2>1
  <2> HIDE DEF j
  <2>3. v[j] = z[k]
    BY <1>6, <2>2
  <2>4. z[k] = t[p + d + k]
    BY <1>3
  <2> QED
    BY <2>3, <2>4 DEF j
<1>11. IsReplaced(v, t, p, d, u)
  BY <1>6, <1>7, <1>8, <1>9, <1>10 DEF IsReplaced
<1> QED
  BY <1>4, <1>11

\* The cells: the tail is shifted first, then the source is written over.
Spliced(cells, size, p, d, u) ==
  Written(Written(cells, p + Len(u), Cells(cells, p + d, size - p - d + 1)), p, u)

LEMMA SplicedIs ==
    ASSUME NEW t, NEW u, t \in Seq(Chars), u \in Seq(Chars),
           NEW p \in Nat, NEW d \in Nat, p + d <= Len(t),
           NEW cells \in Seq(CellChars), BeginsWith(cells, t), Len(cells) = Len(t) + 1
    PROVE  /\ Spliced(cells, Len(t), p, d, u) \in Seq(CellChars)
           /\ BeginsWith(Spliced(cells, Len(t), p, d, u), Replaced(t, p, d, u))
<1> DEFINE v == Replaced(t, p, d, u)
           n == Len(t) - d + Len(u)
           tail == Cells(cells, p + d, Len(t) - p - d + 1)
           shifted == Written(cells, p + Len(u), tail)
           w == Written(shifted, p, u)
<1>1. Len(t) \in Nat /\ Len(u) \in Nat /\ u \in Seq(CellChars) /\ n \in Nat
  <2>1. Len(t) \in Nat /\ Len(u) \in Nat /\ u \in Seq(CellChars)
    BY DEF CellChars
  <2> QED
    BY <2>1
<1>2. /\ v \in Seq(Chars) /\ Len(v) = n
      /\ \A k \in 1 .. p : v[k] = t[k]
      /\ \A k \in 1 .. Len(u) : v[p + k] = u[k]
      /\ \A k \in 1 .. Len(t) - (p + d) : v[p + Len(u) + k] = t[p + d + k]
  <2>1. IsReplaced(v, t, p, d, u)
    BY ReplacedIs
  <2> HIDE DEF v
  <2> QED
    BY <2>1 DEF IsReplaced
<1> HIDE DEF v
<1>3. \A k \in 1 .. Len(t) : cells[k] = t[k]
  BY DEF BeginsWith
<1>4. /\ tail \in Seq(CellChars) /\ Len(tail) = Len(t) - p - d + 1
      /\ \A k \in 1 .. Len(t) - (p + d) : tail[k] = t[p + d + k]
  <2>1. p + d \in Nat /\ Len(t) - p - d + 1 \in Nat
    BY <1>1
  <2>2. /\ tail \in Seq(CellChars) /\ Len(tail) = Len(t) - p - d + 1
        /\ \A k \in 1 .. Len(t) - p - d + 1 :
             tail[k] = IF p + d + k <= Len(cells) THEN cells[p + d + k] ELSE Stale
    <3>1. AreCells(tail, cells, p + d, Len(t) - p - d + 1)
      BY <2>1, CellsAre
    <3> HIDE DEF tail
    <3> QED
      BY <3>1 DEF AreCells
  <2> HIDE DEF tail
  <2>3. ASSUME NEW k \in 1 .. Len(t) - (p + d) PROVE tail[k] = t[p + d + k]
    <3>1. k \in 1 .. Len(t) - p - d + 1 /\ p + d + k \in 1 .. Len(t) /\ p + d + k <= Len(cells)
      BY <1>1
    <3> QED
      BY <1>3, <2>2, <3>1
  <2> QED
    BY <2>2, <2>3
<1> HIDE DEF tail
<1>5. /\ shifted \in Seq(CellChars) /\ n + 1 <= Len(shifted) /\ Len(shifted) \in Nat
      /\ \A k \in 1 .. p : shifted[k] = t[k]
      /\ \A k \in 1 .. Len(t) - (p + d) : shifted[p + Len(u) + k] = t[p + d + k]
  <2>1. p + Len(u) \in Nat /\ tail \in Seq(CellChars)
    BY <1>1, <1>4
  <2>2. /\ shifted \in Seq(CellChars)
        /\ Len(shifted) = IF p + Len(u) + Len(tail) < Len(cells) THEN Len(cells) ELSE p + Len(u) + Len(tail)
        /\ \A k \in 1 .. p + Len(u) : shifted[k] = IF k <= Len(cells) THEN cells[k] ELSE Stale
        /\ \A k \in 1 .. Len(tail) : shifted[p + Len(u) + k] = tail[k]
    BY <2>1, WrittenIs
  <2> HIDE DEF shifted
  <2>3. n + 1 <= Len(shifted) /\ Len(shifted) \in Nat
    <3>1. Len(tail) = Len(t) - p - d + 1
      BY <1>4
    <3>2. p + Len(u) + Len(tail) = n + 1
      BY <1>1, <3>1
    <3>3. Len(shifted) = IF n + 1 < Len(t) + 1 THEN Len(t) + 1 ELSE n + 1
      BY <2>2, <3>2
    <3> HIDE DEF n
    <3> QED
      BY <1>1, <3>3
  <2>4. ASSUME NEW k \in 1 .. p PROVE shifted[k] = t[k]
    <3>1. k \in 1 .. p + Len(u) /\ k <= Len(cells) /\ k \in 1 .. Len(t)
      BY <1>1
    <3> QED
      BY <1>3, <2>2, <3>1
  <2>5. ASSUME NEW k \in 1 .. Len(t) - (p + d) PROVE shifted[p + Len(u) + k] = t[p + d + k]
    <3>1. Len(tail) = Len(t) - p - d + 1
      BY <1>4
    <3>2. k \in 1 .. Len(tail)
      BY <1>1, <3>1
    <3> QED
      BY <1>4, <2>2, <3>2
  <2> QED
    BY <2>2, <2>3, <2>4, <2>5
<1> HIDE DEF shifted
<1>6. /\ w \in Seq(CellChars) /\ n <= Len(w)
      /\ \A k \in 1 .. p : w[k] = t[k]
      /\ \A k \in 1 .. Len(u) : w[p + k] = u[k]
      /\ \A k \in 1 .. Len(t) - (p + d) : w[p + Len(u) + k] = t[p + d + k]
  <2>1. shifted \in Seq(CellChars) /\ u \in Seq(CellChars)
    BY <1>1, <1>5
  <2>2. /\ w \in Seq(CellChars)
        /\ Len(w) = IF p + Len(u) < Len(shifted) THEN Len(shifted) ELSE p + Len(u)
        /\ \A k \in 1 .. p : w[k] = IF k <= Len(shifted) THEN shifted[k] ELSE Stale
        /\ \A k \in 1 .. Len(u) : w[p + k] = u[k]
        /\ \A k \in p + Len(u) + 1 .. Len(shifted) : w[k] = shifted[k]
    BY <2>1, WrittenIs
  <2> HIDE DEF w
  <2>3. Len(shifted) \in Nat /\ n + 1 <= Len(shifted)
    BY <1>5
  <2>4. p + Len(u) <= n
    BY <1>1
  <2>5. n <= Len(w)
    <3>1. Len(w) = IF p + Len(u) < Len(shifted) THEN Len(shifted) ELSE p + Len(u)
      BY <2>2
    <3> HIDE DEF n
    <3> QED
      BY <1>1, <2>3, <2>4, <3>1
  <2>6. ASSUME NEW k \in 1 .. p PROVE w[k] = t[k]
    <3>1. k <= Len(shifted)
      BY <1>1, <2>3, <2>4
    <3> QED
      BY <1>5, <2>2, <3>1
  <2>7. ASSUME NEW k \in 1 .. Len(t) - (p + d) PROVE w[p + Len(u) + k] = t[p + d + k]
    <3>1. p + Len(u) + k \in p + Len(u) + 1 .. Len(shifted)
      BY <1>1, <2>3
    <3> QED
      BY <1>5, <2>2, <3>1
  <2> QED
    BY <2>2, <2>5, <2>6, <2>7
<1> HIDE DEF w
<1>7. ASSUME NEW k \in 1 .. n PROVE w[k] = v[k]
  <2>1. CASE k <= p
    BY <1>2, <1>6, <2>1
  <2>2. CASE p < k /\ k <= p + Len(u)
    <3>1. k - p \in 1 .. Len(u) /\ p + (k - p) = k
      BY <1>1, <2>2
    <3>2. w[p + (k - p)] = v[p + (k - p)]
      BY <1>2, <1>6, <3>1
    <3> QED
      BY <3>1, <3>2
  <2>3. CASE p + Len(u) < k
    <3> DEFINE i == k - (p + Len(u))
    <3>1. i \in 1 .. Len(t) - (p + d) /\ p + Len(u) + i = k
      BY <1>1, <2>3
    <3> HIDE DEF i
    <3>2. w[p + Len(u) + i] = v[p + Len(u) + i]
      BY <1>2, <1>6, <3>1
    <3> QED
      BY <3>1, <3>2
  <2> QED
    BY <1>1, <2>1, <2>2, <2>3
<1>8. BeginsWith(w, v)
  BY <1>2, <1>6, <1>7 DEF BeginsWith
<1> QED
  BY <1>6, <1>8 DEF Spliced, w, shifted, tail, v

LEMMA ReplaceHolds ==
    ASSUME NEW s, NEW t, Holds(s, t), NEW src, IsSource(src, t),
           NEW position \in 0 .. Len(t), NEW count \in Nat,
           NEW d \in Nat, d = Lesser(count, Len(t) - position),
           Len(Replaced(t, position, d, src.text)) <= MaxText
    PROVE  Holds(Replace(s, position, count, src), Replaced(t, position, d, src.text))
<1>1. PICK u : u \in Seq(Chars) /\ u = src.text
  BY DEF IsSource
<1>2. s.size = Len(t) /\ Len(t) \in Nat /\ t \in Seq(Chars)
  BY Held
<1>3. position \in Nat /\ position + d <= Len(t) /\ Len(u) \in Nat
  BY <1>2 DEF Lesser
<1> DEFINE v == Replaced(t, position, d, u)
           n == Len(t) - d + Len(u)
           r == Reserve(s, n)
           w == Spliced(r.cells, Len(t), position, d, u)
<1>4. v \in Seq(Chars) /\ Len(v) = n /\ Len(v) <= MaxText
  <2>1. v \in Seq(Chars) /\ Len(v) = n
    <3>1. IsReplaced(v, t, position, d, u)
      BY <1>1, <1>2, <1>3, ReplacedIs
    <3> HIDE DEF v
    <3> QED
      BY <3>1 DEF IsReplaced
  <2> QED
    BY <1>1, <2>1
<1>5. Replace(s, position, count, src) = CommitSize([r EXCEPT !.cells = w], n)
  BY <1>1, <1>2 DEF Replace, Spliced
<1> HIDE DEF v
<1>6. n \in Nat /\ n <= MaxText
  BY <1>2, <1>3, <1>4
<1>7. Holds(r, t) /\ n <= r.capacity
  BY <1>6, RoomFor
<1> HIDE DEF r
<1>8. r.cells \in Seq(CellChars) /\ Len(r.cells) = Len(t) + 1 /\ BeginsWith(r.cells, t)
  BY <1>7, Held
<1>9. w \in Seq(CellChars) /\ BeginsWith(w, v)
  BY <1>1, <1>2, <1>3, <1>8, SplicedIs DEF v
<1> HIDE DEF w
<1>10. n = Len(v) /\ Len(v) <= MaxText /\ Len(v) <= r.capacity
  BY <1>4, <1>7
<1>11. Holds(CommitSize([r EXCEPT !.cells = w], n), v)
  BY <1>4, <1>7, <1>9, <1>10, CommitHolds
<1> QED
  BY <1>1, <1>5, <1>11 DEF v

-----------------------------------------------------------------------------
LEMMA ContentIs ==
    ASSUME NEW s, NEW t, Holds(s, t)
    PROVE  Content(s) = t
<1> DEFINE c == Cells(s.cells, 0, s.size)
<1>1. /\ s.cells \in Seq(CellChars) /\ BeginsWith(s.cells, t) /\ Len(s.cells) = Len(t) + 1
      /\ s.size = Len(t) /\ Len(t) \in Nat /\ t \in Seq(Chars)
  BY Held
<1>2. /\ c \in Seq(CellChars) /\ Len(c) = Len(t)
      /\ \A k \in 1 .. Len(t) : c[k] = IF 0 + k <= Len(s.cells) THEN s.cells[0 + k] ELSE Stale
  <2>1. AreCells(c, s.cells, 0, s.size)
    BY <1>1, CellsAre
  <2>2. s.size = Len(t)
    BY <1>1
  <2> HIDE DEF c
  <2> QED
    BY <2>1, <2>2 DEF AreCells
<1>3. Content(s) = c
  BY DEF Content
<1> HIDE DEF c
<1>4. ASSUME NEW k \in 1 .. Len(t) PROVE c[k] = t[k]
  BY <1>1, <1>2 DEF BeginsWith
<1>5. t \in Seq(CellChars)
  BY <1>1 DEF CellChars
<1>6. c = t
  BY <1>2, <1>4, <1>5, SeqEqual
<1> QED
  BY <1>3, <1>6

\* The same text in another object: its capacity, the other's characters.
LEMMA TakenHolds ==
    ASSUME NEW r, NEW old, Holds(r, old), NEW other, NEW t, Holds(other, t), Len(t) <= r.capacity
    PROVE  Holds([r EXCEPT !.cells = Cells(other.cells, 0, other.size + 1), !.size = other.size], t)
<1> DEFINE cells == Cells(other.cells, 0, other.size + 1)
           size == other.size
           q == [r EXCEPT !.cells = cells, !.size = size]
<1>1. cells = other.cells
  BY SameCells
<1>2. other.cells \in Seq(CellChars) /\ size \in Nat /\ size = Len(t) /\ size <= r.capacity
  BY Held
<1>3. cells \in Seq(CellChars) /\ cells = t \o <<Nul>> /\ t \in Seq(Chars) /\ Len(t) <= MaxText
  BY <1>1, <1>2 DEF Holds
<1> HIDE DEF cells, size
<1>4. r \in StrObject
  BY DEF Holds
<1>5. q \in StrObject
  BY <1>2, <1>3, <1>4 DEF StrObject
<1>6. /\ q.short = r.short /\ q.capacity = r.capacity /\ q.heap = r.heap
      /\ q.cells = cells /\ q.size = size
  BY <1>4 DEF StrObject
<1>7. (r.short => r.capacity = InlineCapacity) /\ r.heap = IF r.short THEN 0 ELSE 1
  BY DEF Holds
<1>8. Holds(q, t)
  <2> HIDE DEF q
  <2> QED
    BY <1>2, <1>3, <1>5, <1>6, <1>7 DEF Holds
<1> QED
  BY <1>8 DEF q, cells, size

\* The copy constructor.
LEMMA CopyHolds ==
    ASSUME NEW other, NEW t, Holds(other, t)
    PROVE  Holds(CopyFrom(other), t)
<1> DEFINE r == Reserve(EmptyShort, other.size)
<1>1. other.size = Len(t) /\ other.size \in Nat /\ other.size <= MaxText
  BY Held
<1>2. Holds(r, <<>>) /\ Len(t) <= r.capacity
  BY <1>1, EmptyHolds, RoomFor
<1>3. CopyFrom(other) = [r EXCEPT !.cells = Cells(other.cells, 0, other.size + 1), !.size = other.size]
  BY DEF CopyFrom
<1> HIDE DEF r
<1> QED
  BY <1>2, <1>3, TakenHolds

\* The move, into an object that has just been emptied: its characters are
\* copied from an object, and the block is taken over from the heap.
LEMMA MoveHolds ==
    ASSUME NEW other, NEW t, Holds(other, t)
    PROVE  Holds(MoveFrom(EmptyShort, other)[1], t) /\ Holds(MoveFrom(EmptyShort, other)[2], <<>>)
<1>1. CASE other.short
  <2> DEFINE q == [EmptyShort EXCEPT !.cells = Cells(other.cells, 0, other.size + 1), !.size = other.size]
  <2>1. MoveFrom(EmptyShort, other) = <<q, Clear(other)>>
    BY <1>1 DEF MoveFrom
  <2>2. Len(t) <= EmptyShort.capacity
    <3>1. EmptyShort.capacity = InlineCapacity
      BY DEF EmptyShort
    <3>2. Len(t) <= other.capacity
      BY Held
    <3>3. other.capacity = InlineCapacity
      BY <1>1 DEF Holds
    <3> QED
      BY <3>1, <3>2, <3>3
  <2>3. Holds(q, t)
    BY <2>2, EmptyHolds, TakenHolds
  <2>4. Holds(Clear(other), <<>>)
    BY ClearHolds
  <2> HIDE DEF q
  <2> QED
    BY <2>1, <2>3, <2>4
<1>2. CASE ~ other.short
  <2> DEFINE h == EmptyShort.heap + other.heap
             q == [other EXCEPT !.heap = h]
  <2>1. MoveFrom(EmptyShort, other) = <<q, EmptyShort>>
    BY <1>2 DEF MoveFrom
  <2>2. h = other.heap
    BY <1>2 DEF Holds, EmptyShort
  <2>3. other \in StrObject
    BY DEF Holds
  <2> HIDE DEF h
  <2>4. q = other
    BY <2>2, <2>3 DEF StrObject
  <2> HIDE DEF q
  <2> QED
    BY <2>1, <2>4, EmptyHolds
<1> QED
  BY <1>1, <1>2

LEMMA MoveAssignHolds ==
    ASSUME NEW s, NEW old, Holds(s, old), NEW other, NEW t, Holds(other, t)
    PROVE  Holds(MoveAssign(s, other)[1], t) /\ Holds(MoveAssign(s, other)[2], <<>>)
<1>1. MoveAssign(s, other) = MoveFrom(EmptyShort, other)
  BY ResetHolds DEF MoveAssign
<1> QED
  BY <1>1, MoveHolds

LEMMA SwapHolds ==
    ASSUME NEW s, NEW t, Holds(s, t), NEW other, NEW u, Holds(other, u)
    PROVE  Holds(Swap(s, other)[1], u) /\ Holds(Swap(s, other)[2], t)
<1> DEFINE temporary == MoveFrom(EmptyShort, s)
           taken == MoveAssign(temporary[2], other)
           given == MoveAssign(taken[2], temporary[1])
<1>1. Swap(s, other) = <<taken[1], given[1]>>
  BY DEF Swap
<1>2. Holds(temporary[1], t) /\ Holds(temporary[2], <<>>)
  BY MoveHolds
<1> HIDE DEF temporary
<1>3. Holds(taken[1], u) /\ Holds(taken[2], <<>>)
  BY <1>2, MoveAssignHolds
<1> HIDE DEF taken
<1>4. Holds(given[1], t)
  BY <1>2, <1>3, MoveAssignHolds
<1> HIDE DEF given
<1> QED
  BY <1>1, <1>3, <1>4

\* substring()
LEMMA SubstringHolds ==
    ASSUME NEW s, NEW t, Holds(s, t), NEW position \in 0 .. Len(t), NEW count \in Nat
    PROVE  Holds(Substring(s, position, count), SubSeq(t, position + 1, Lesser(position + count, Len(t))))
<1> DEFINE n == Lesser(count, s.size - position)
           c == Cells(s.cells, position, n)
           last == Lesser(position + count, Len(t))
           v == SubSeq(t, position + 1, last)
<1>1. /\ s.cells \in Seq(CellChars) /\ BeginsWith(s.cells, t) /\ Len(s.cells) = Len(t) + 1
      /\ s.size = Len(t) /\ Len(t) \in Nat /\ t \in Seq(Chars) /\ Len(t) <= MaxText
  BY Held
<1>2. n \in Nat /\ last = position + n /\ last <= Len(t) /\ position \in Nat
  BY <1>1 DEF Lesser
<1>3. Substring(s, position, count) = Assign(EmptyShort, Foreign(c))
  BY DEF Substring
<1> HIDE DEF n, last
<1>4. /\ c \in Seq(CellChars) /\ Len(c) = n
      /\ \A k \in 1 .. n : c[k] = IF position + k <= Len(s.cells) THEN s.cells[position + k] ELSE Stale
  <2>1. AreCells(c, s.cells, position, n)
    BY <1>1, <1>2, CellsAre
  <2> HIDE DEF c
  <2> QED
    BY <2>1 DEF AreCells
<1>5. /\ v \in Seq(Chars) /\ Len(v) = n
      /\ \A k \in 1 .. n : v[k] = t[position + k]
  <2>1. \A i \in position + 1 .. last : t[i] \in Chars
    BY <1>1, <1>2
  <2>2. /\ v \in Seq(Chars)
        /\ Len(v) = IF position + 1 <= last THEN last - (position + 1) + 1 ELSE 0
        /\ \A k \in 1 .. last - (position + 1) + 1 : v[k] = t[position + 1 + k - 1]
    <3>1. position + 1 \in Int /\ last \in Int
      BY <1>2
    <3> QED
      BY <2>1, <3>1, SubSeqProperties
  <2> HIDE DEF v
  <2>3. Len(v) = n
    BY <1>2, <2>2
  <2>4. ASSUME NEW k \in 1 .. n PROVE v[k] = t[position + k]
    <3>1. k \in 1 .. last - (position + 1) + 1 /\ position + 1 + k - 1 = position + k
      BY <1>2
    <3> QED
      BY <2>2, <3>1
  <2> QED
    BY <2>2, <2>3, <2>4
<1> HIDE DEF c, v
<1>6. ASSUME NEW k \in 1 .. n PROVE c[k] = v[k]
  <2>1. position + k \in 1 .. Len(t) /\ position + k <= Len(s.cells)
    BY <1>1, <1>2
  <2>2. s.cells[position + k] = t[position + k]
    BY <1>1, <2>1 DEF BeginsWith
  <2> QED
    BY <1>4, <1>5, <2>1, <2>2
<1>7. v \in Seq(CellChars)
  BY <1>5 DEF CellChars
<1>8. c = v
  BY <1>4, <1>5, <1>6, <1>7, SeqEqual
<1>9. IsSource(Foreign(v), <<>>) /\ Foreign(v).text = v
  BY <1>5, ForeignIsSource
<1>10. Len(v) <= MaxText
  BY <1>1, <1>2, <1>5, StrAssumption
<1>11. Holds(Assign(EmptyShort, Foreign(v)), v)
  BY <1>9, <1>10, EmptyHolds, AssignHolds
<1> QED
  BY <1>3, <1>8, <1>11 DEF v, last

\* operator+
LEMMA ConcatHolds ==
    ASSUME NEW s, NEW t, Holds(s, t), NEW u \in Seq(Chars), Len(t \o u) <= MaxText
    PROVE  Holds(Concat(s, Foreign(u)), t \o u)
<1> DEFINE r == Assign(EmptyShort, Foreign(t))
<1>1. t \in Seq(Chars) /\ Len(t) <= MaxText
  BY Held, StrAssumption
<1>2. IsSource(Foreign(t), <<>>) /\ Foreign(t).text = t
  BY <1>1, ForeignIsSource
<1>3. Holds(r, t)
  BY <1>1, <1>2, EmptyHolds, AssignHolds
<1>4. Concat(s, Foreign(u)) = AppendRange(r, Foreign(u))
  BY ContentIs DEF Concat
<1> HIDE DEF r
<1>5. IsSource(Foreign(u), t) /\ Foreign(u).text = u
  BY ForeignIsSource
<1> QED
  BY <1>3, <1>4, <1>5, AppendHolds

-----------------------------------------------------------------------------
\* A string that holds the text it should leaves both what they should be.
LEMMA BecomesHolds ==
    ASSUME StrInv, NEW i \in Strings, NEW s, NEW t, Becomes(i, s, t), Len(t) <= MaxText => Holds(s, t)
    PROVE  StrInv'
<1>1. strs' = [strs EXCEPT ![i] = s] /\ texts' = [texts EXCEPT ![i] = t] /\ Holds(s, t)
  BY DEF Becomes
<1>2. s \in StrObject /\ t \in Seq(Chars)
  BY <1>1 DEF Holds
<1>3. strs' \in [Strings -> StrObject] /\ texts' \in [Strings -> Seq(Chars)]
  BY <1>1, <1>2 DEF StrInv
<1>4. ASSUME NEW j \in Strings PROVE Holds(strs'[j], texts'[j])
  <2>1. CASE j = i
    BY <1>1, <2>1 DEF StrInv
  <2>2. CASE j # i
    <3>1. strs'[j] = strs[j] /\ texts'[j] = texts[j]
      BY <1>1, <2>2 DEF StrInv
    <3> QED
      BY <3>1 DEF StrInv
  <2> QED
    BY <2>1, <2>2
<1> QED
  BY <1>3, <1>4 DEF StrInv

\* Every source that a call is given.
LEMMA SourceOf ==
    ASSUME StrInv, NEW i \in Strings, NEW src \in Sources(i), ValidSource(i, src)
    PROVE  IsSource(src, texts[i])
<1>1. CASE src \in {Foreign(t) : t \in Literals}
  <2>1. PICK t \in Literals : src = Foreign(t)
    BY <1>1
  <2>2. t \in Seq(Chars)
    <3>1. PICK n \in 0 .. 2 : t \in [1 .. n -> Chars]
      BY <2>1 DEF Literals
    <3> QED
      BY <3>1
  <2> QED
    BY <2>1, <2>2, ForeignIsSource
<1>2. CASE src \in {Foreign(texts[j]) : j \in Strings \ {i}}
  <2>1. PICK j \in Strings : src = Foreign(texts[j])
    BY <1>2
  <2>2. texts[j] \in Seq(Chars)
    BY DEF StrInv
  <2> QED
    BY <2>1, <2>2, ForeignIsSource
<1>3. CASE src \in {Own(strs[i], at, n) : at \in 0 .. Len(texts[i]), n \in 0 .. MaxText}
  <2>1. PICK at \in 0 .. Len(texts[i]), n \in 0 .. MaxText : src = Own(strs[i], at, n)
    BY <1>3
  <2>2. Holds(strs[i], texts[i])
    BY DEF StrInv
  <2>3. src.own = TRUE /\ src.at = at
    BY <2>1 DEF Own
  <2>4. at + Len(src.text) <= Len(texts[i])
    BY <2>3 DEF ValidSource
  <2>5. at \in Nat /\ n \in Nat
    <3>1. Len(texts[i]) \in Nat
      BY <2>2, Held
    <3> QED
      BY <3>1, StrAssumption
  <2>6. at + Len(Own(strs[i], at, n).text) <= Len(texts[i])
    BY <2>1, <2>4
  <2>7. IsSource(Own(strs[i], at, n), texts[i])
    BY <2>2, <2>5, <2>6, OwnIsSource
  <2> QED
    BY <2>1, <2>7
<1> QED
  BY <1>1, <1>2, <1>3 DEF Sources

LEMMA AssignKeeps ==
    ASSUME StrInv, NEW i \in Strings, StrAssign(i)
    PROVE  StrInv'
<1>1. Holds(strs[i], texts[i])
  BY DEF StrInv
<1>2. ASSUME NEW src \in Sources(i), ValidSource(i, src), Becomes(i, Assign(strs[i], src), src.text)
      PROVE  StrInv'
  <2>1. IsSource(src, texts[i])
    BY <1>2, SourceOf
  <2>2. Len(src.text) <= MaxText => Holds(Assign(strs[i], src), src.text)
    BY <1>1, <2>1, AssignHolds
  <2> QED
    BY <1>2, <2>2, BecomesHolds
<1>3. ASSUME NEW n \in 0 .. MaxText, NEW ch \in Chars,
             Becomes(i, AssignFill(strs[i], n, ch), Replicate(n, ch))
      PROVE  StrInv'
  <2>1. n \in Nat /\ n <= MaxText
    BY StrAssumption
  <2>2. Holds(AssignFill(strs[i], n, ch), Replicate(n, ch))
    BY <1>1, <2>1, AssignFillHolds
  <2> QED
    BY <1>3, <2>2, BecomesHolds
<1> QED
  BY <1>2, <1>3 DEF StrAssign

LEMMA AppendKeeps ==
    ASSUME StrInv, NEW i \in Strings, StrAppend(i)
    PROVE  StrInv'
<1>1. Holds(strs[i], texts[i]) /\ texts[i] \in Seq(Chars)
  BY DEF StrInv
<1>2. ASSUME NEW src \in Sources(i), ValidSource(i, src),
             Becomes(i, AppendRange(strs[i], src), texts[i] \o src.text)
      PROVE  StrInv'
  <2>1. IsSource(src, texts[i])
    BY <1>2, SourceOf
  <2>2. Len(texts[i] \o src.text) <= MaxText => Holds(AppendRange(strs[i], src), texts[i] \o src.text)
    BY <1>1, <2>1, AppendHolds
  <2> QED
    BY <1>2, <2>2, BecomesHolds
<1>3. ASSUME NEW n \in 0 .. MaxText, NEW ch \in Chars,
             Becomes(i, AppendFill(strs[i], n, ch), texts[i] \o Replicate(n, ch))
      PROVE  StrInv'
  <2>1. n \in Nat
    BY StrAssumption
  <2>2. Len(texts[i] \o Replicate(n, ch)) = Len(texts[i]) + n
    <3> DEFINE t == texts[i]
               u == Replicate(n, ch)
    <3>1. t \in Seq(Chars) /\ u \in Seq(Chars) /\ Len(u) = n
      BY <1>1, <2>1, Replicates
    <3> HIDE DEF t, u
    <3>2. Len(t \o u) = Len(t) + Len(u)
      BY <3>1, Concats
    <3>3. Len(t \o u) = Len(t) + n
      BY <3>1, <3>2
    <3> QED
      BY <3>3 DEF t, u
  <2>3. Len(texts[i] \o Replicate(n, ch)) <= MaxText
          => Holds(AppendFill(strs[i], n, ch), texts[i] \o Replicate(n, ch))
    BY <1>1, <2>1, <2>2, AppendFillHolds
  <2> QED
    BY <1>3, <2>3, BecomesHolds
<1>4. ASSUME NEW ch \in Chars, Becomes(i, AppendOne(strs[i], ch), texts[i] \o <<ch>>)
      PROVE  StrInv'
  <2>1. Len(texts[i] \o <<ch>>) <= MaxText => Holds(AppendOne(strs[i], ch), texts[i] \o <<ch>>)
    BY <1>1, AppendOneHolds
  <2> QED
    BY <1>4, <2>1, BecomesHolds
<1> QED
  BY <1>2, <1>3, <1>4 DEF StrAppend

LEMMA PopBackKeeps ==
    ASSUME StrInv, NEW i \in Strings, StrPopBack(i)
    PROVE  StrInv'
<1>1. Holds(strs[i], texts[i]) /\ texts[i] \in Seq(Chars)
  BY DEF StrInv
<1> DEFINE n == strs[i].size - 1
<1>2. strs[i].size = Len(texts[i]) /\ Len(texts[i]) \in Nat
  BY <1>1, Held
<1>3. n \in 0 .. Len(texts[i]) /\ n = Len(texts[i]) - 1
  BY <1>1, <1>2 DEF StrPopBack
<1>4. Becomes(i, CommitSize(strs[i], n), SubSeq(texts[i], 1, n))
  BY <1>3 DEF StrPopBack
<1> HIDE DEF n
<1>5. Holds(CommitSize(strs[i], n), SubSeq(texts[i], 1, n))
  BY <1>1, <1>3, CutHolds
<1> QED
  BY <1>4, <1>5, BecomesHolds

\* A count that is too large takes what there is.
LEMMA AfterCount ==
    ASSUME NEW t, t \in Seq(Chars), NEW position \in 0 .. Len(t), NEW count \in Nat,
           NEW d, d = Lesser(count, Len(t) - position)
    PROVE  Onwards(t, position + count + 1) = Onwards(t, position + d + 1)
<1>1. Len(t) \in Nat
  OBVIOUS
<1>2. CASE count <= Len(t) - position
  <2>1. d = count
    BY <1>2 DEF Lesser
  <2> QED
    BY <2>1
<1>3. CASE ~ (count <= Len(t) - position)
  <2>1. d = Len(t) - position
    BY <1>3 DEF Lesser
  <2>2. ASSUME NEW first \in Nat, first > Len(t)
        PROVE  Onwards(t, first) = <<>>
    <3>1. \A k \in first .. Len(t) : t[k] \in Chars
      BY <1>1, <2>2
    <3>2. Onwards(t, first) \in Seq(Chars) /\ Len(Onwards(t, first)) = 0
      <4>1. /\ SubSeq(t, first, Len(t)) \in Seq(Chars)
            /\ Len(SubSeq(t, first, Len(t))) = IF first <= Len(t) THEN Len(t) - first + 1 ELSE 0
        BY <1>1, <3>1, SubSeqProperties
      <4> QED
        BY <1>1, <2>2, <4>1 DEF Onwards
    <3> QED
      BY <3>2
  <2>3. /\ position + count + 1 \in Nat /\ position + count + 1 > Len(t)
        /\ position + d + 1 \in Nat /\ position + d + 1 > Len(t)
    BY <1>1, <1>3, <2>1
  <2>4. Onwards(t, position + count + 1) = <<>> /\ Onwards(t, position + d + 1) = <<>>
    BY <2>2, <2>3
  <2> QED
    BY <2>4
<1> QED
  BY <1>2, <1>3

LEMMA ReplaceKeeps ==
    ASSUME StrInv, NEW i \in Strings, StrReplace(i)
    PROVE  StrInv'
<1> DEFINE t == texts[i]
           s == strs[i]
           before(position) == SubSeq(t, 1, position)
<1>1. Holds(s, t) /\ t \in Seq(Chars) /\ Len(t) \in Nat
  BY Held DEF StrInv
<1>2. PICK position \in 0 .. Len(t), count \in 0 .. MaxText, src \in Sources(i) :
        /\ ValidSource(i, src)
        /\ \/ Becomes(i, Replace(s, position, count, src),
                      before(position) \o src.text \o Onwards(t, position + count + 1))
           \/ Becomes(i, Insert(s, position, src),
                      before(position) \o src.text \o Onwards(t, position + 1))
           \/ Becomes(i, Erase(s, position, count),
                      before(position) \o Onwards(t, position + count + 1))
  BY DEF StrReplace, Onwards
<1>3. IsSource(src, t)
  BY <1>2, SourceOf
<1> HIDE DEF s
<1>4. count \in Nat /\ position \in Nat /\ before(position) \in Seq(Chars)
  <2>1. count \in Nat /\ position \in Nat
    BY <1>1, StrAssumption
  <2>2. \A k \in 1 .. position : t[k] \in Chars
    BY <1>1, <2>1
  <2>3. before(position) \in Seq(Chars)
    BY <2>1, <2>2, SubSeqProperties
  <2> QED
    BY <2>1, <2>3
<1> HIDE DEF t
\* What replace() does with any source and any count.
<1>5. ASSUME NEW n \in Nat, NEW source, IsSource(source, t),
             NEW text, text = before(position) \o source.text \o Onwards(t, position + n + 1)
      PROVE  Len(text) <= MaxText => Holds(Replace(s, position, n, source), text)
  <2> DEFINE d == Lesser(n, Len(t) - position)
  <2>1. d \in Nat /\ d = Lesser(n, Len(t) - position)
    BY <1>1 DEF Lesser
  <2>2. Onwards(t, position + n + 1) = Onwards(t, position + d + 1)
    BY <1>1, AfterCount
  <2> HIDE DEF d
  <2>3. text = Replaced(t, position, d, source.text)
    BY <1>5, <2>2 DEF Replaced
  <2>4. Len(Replaced(t, position, d, source.text)) <= MaxText
          => Holds(Replace(s, position, n, source), Replaced(t, position, d, source.text))
    BY <1>1, <1>5, <2>1, ReplaceHolds
  <2> QED
    BY <2>3, <2>4
<1>6. CASE Becomes(i, Replace(s, position, count, src),
                   before(position) \o src.text \o Onwards(t, position + count + 1))
  <2> DEFINE text == before(position) \o src.text \o Onwards(t, position + count + 1)
  <2>1. Len(text) <= MaxText => Holds(Replace(s, position, count, src), text)
    BY <1>3, <1>4, <1>5
  <2> QED
    BY <1>6, <2>1, BecomesHolds
<1>7. CASE Becomes(i, Insert(s, position, src), before(position) \o src.text \o Onwards(t, position + 1))
  <2> DEFINE text == before(position) \o src.text \o Onwards(t, position + 1)
  <2>1. position + 0 + 1 = position + 1
    BY <1>4
  <2>2. text = before(position) \o src.text \o Onwards(t, position + 0 + 1)
    BY <2>1
  <2> HIDE DEF text
  <2>3. Len(text) <= MaxText => Holds(Replace(s, position, 0, src), text)
    BY <1>3, <1>5, <2>2
  <2>4. Becomes(i, Replace(s, position, 0, src), text)
    BY <1>7 DEF Insert, text
  <2> QED
    BY <2>3, <2>4, BecomesHolds
<1>8. CASE Becomes(i, Erase(s, position, count), before(position) \o Onwards(t, position + count + 1))
  <2> DEFINE source == Foreign(<<>>)
             text == before(position) \o Onwards(t, position + count + 1)
  <2>1. IsSource(source, t) /\ source.text = <<>>
    <3>1. <<>> \in Seq(Chars)
      OBVIOUS
    <3> QED
      BY <3>1, ForeignIsSource
  <2>2. text = before(position) \o source.text \o Onwards(t, position + count + 1)
    <3>1. before(position) \o <<>> = before(position)
      BY <1>4
    <3> QED
      BY <2>1, <3>1
  <2> HIDE DEF source, text
  <2>3. Len(text) <= MaxText => Holds(Replace(s, position, count, source), text)
    BY <1>4, <1>5, <2>1, <2>2
  <2>4. Becomes(i, Replace(s, position, count, source), text)
    BY <1>8 DEF Erase, text, source
  <2> QED
    BY <2>3, <2>4, BecomesHolds
<1> QED
  BY <1>2, <1>6, <1>7, <1>8

LEMMA ResizeKeeps ==
    ASSUME StrInv, NEW i \in Strings, StrResize(i)
    PROVE  StrInv'
<1> DEFINE t == texts[i]
           s == strs[i]
<1>1. Holds(s, t) /\ t \in Seq(Chars) /\ Len(t) \in Nat
  BY Held DEF StrInv
<1>2. PICK n \in 0 .. MaxText, ch \in Chars :
        Becomes(i, Resize(s, n, ch), SubSeq(t, 1, Lesser(n, Len(t))) \o Replicate(n - Len(t), ch))
  BY DEF StrResize
<1> HIDE DEF s, t
<1>3. n \in Nat /\ n <= MaxText
  BY StrAssumption
<1> DEFINE text == SubSeq(t, 1, Lesser(n, Len(t))) \o Replicate(n - Len(t), ch)
<1>4. CASE n > Len(t)
  <2>1. Lesser(n, Len(t)) = Len(t)
    BY <1>1, <1>3, <1>4 DEF Lesser
  <2>2. SubSeq(t, 1, Lesser(n, Len(t))) = t
    <3>1. SubSeq(t, 1, Len(t)) = t
      BY <1>1
    <3> QED
      BY <2>1, <3>1
  <2>3. text = t \o Replicate(n - Len(t), ch)
    BY <2>2
  <2> HIDE DEF text
  <2>4. Holds(Resize(s, n, ch), text)
    BY <1>1, <1>3, <1>4, <2>3, ResizeGrows
  <2>5. Becomes(i, Resize(s, n, ch), text)
    BY <1>2 DEF text
  <2> QED
    BY <2>4, <2>5, BecomesHolds
<1>5. CASE ~ (n > Len(t))
  <2> DEFINE first == SubSeq(t, 1, n)
  <2>1. n \in 0 .. Len(t) /\ Lesser(n, Len(t)) = n
    BY <1>1, <1>3, <1>5 DEF Lesser
  <2>2. Holds(Resize(s, n, ch), first)
    BY <1>1, <2>1, ResizeShrinks
  <2>3. Replicate(n - Len(t), ch) = <<>>
    <3>1. n - Len(t) \in Int /\ n - Len(t) <= 0
      BY <1>1, <2>1
    <3> QED
      BY <3>1, Replicates
  <2>4. SubSeq(t, 1, Lesser(n, Len(t))) = first
    BY <2>1
  <2>5. text = first \o <<>>
    BY <2>3, <2>4
  <2> HIDE DEF first, text
  <2>6. first \in Seq(Chars)
    BY <2>2, Held
  <2>7. text = first
    BY <2>5, <2>6
  <2>8. Becomes(i, Resize(s, n, ch), text)
    BY <1>2 DEF text
  <2> QED
    BY <2>2, <2>7, <2>8, BecomesHolds
<1> QED
  BY <1>4, <1>5

LEMMA ReserveKeeps ==
    ASSUME StrInv, NEW i \in Strings, StrReserve(i)
    PROVE  StrInv'
<1>1. Holds(strs[i], texts[i])
  BY DEF StrInv
<1>2. ASSUME NEW n \in 0 .. MaxText, Becomes(i, Reserve(strs[i], n), texts[i])
      PROVE  StrInv'
  <2>1. n \in Nat /\ n <= MaxText
    BY StrAssumption
  <2>2. Holds(Reserve(strs[i], n), texts[i])
    BY <1>1, <2>1, RoomFor
  <2> QED
    BY <1>2, <2>2, BecomesHolds
<1>3. CASE Becomes(i, ShrinkToFit(strs[i]), texts[i])
  <2>1. Holds(ShrinkToFit(strs[i]), texts[i])
    BY <1>1, ShrinkHolds
  <2> QED
    BY <1>3, <2>1, BecomesHolds
<1> QED
  BY <1>2, <1>3 DEF StrReserve

LEMMA EmptyKeeps ==
    ASSUME StrInv, NEW i \in Strings, StrEmpty(i)
    PROVE  StrInv'
<1>1. Holds(strs[i], texts[i])
  BY DEF StrInv
<1>2. Holds(Clear(strs[i]), <<>>)
  BY <1>1, ClearHolds
<1>3. Holds(Reset(strs[i]), <<>>)
  <2>1. Reset(strs[i]) = EmptyShort
    BY <1>1, ResetHolds
  <2> QED
    BY <2>1, EmptyHolds
<1>4. CASE Becomes(i, Clear(strs[i]), <<>>)
  BY <1>2, <1>4, BecomesHolds
<1>5. CASE Becomes(i, Reset(strs[i]), <<>>)
  BY <1>3, <1>5, BecomesHolds
<1> QED
  BY <1>4, <1>5 DEF StrEmpty

LEMMA BuildKeeps ==
    ASSUME StrInv, NEW i \in Strings, StrBuild(i)
    PROVE  StrInv'
<1>1. \A j \in Strings : Holds(strs[j], texts[j])
  BY DEF StrInv
<1>2. ASSUME NEW j \in Strings, NEW position \in 0 .. MaxText, NEW count \in 0 .. MaxText \cup {NPos},
             position <= Len(texts[j]),
             Becomes(i, MoveAssign(strs[i], Substring(strs[j], position, count))[1],
                     SubSeq(texts[j], position + 1, Lesser(position + count, Len(texts[j]))))
      PROVE  StrInv'
  <2> DEFINE t == texts[j]
             s == strs[j]
             text == SubSeq(t, position + 1, Lesser(position + count, Len(t)))
             result == MoveAssign(strs[i], Substring(s, position, count))[1]
  <2>1. Becomes(i, result, text)
    BY <1>2
  <2>2. Holds(s, t) /\ position <= Len(t)
    BY <1>1, <1>2
  <2> HIDE DEF s, t
  <2>3. count \in Nat /\ position \in 0 .. Len(t)
    <3>1. Len(t) \in Nat
      BY <2>2, Held
    <3> QED
      BY <2>2, <3>1, StrAssumption DEF NPos
  <2>4. Holds(Substring(s, position, count), text)
    BY <2>2, <2>3, SubstringHolds
  <2> HIDE DEF text
  <2>5. Holds(result, text)
    BY <1>1, <2>4, MoveAssignHolds
  <2> HIDE DEF result
  <2> QED
    BY <2>1, <2>5, BecomesHolds
<1>3. ASSUME NEW j \in Strings, NEW k \in Strings,
             Becomes(i, MoveAssign(strs[i], Concat(strs[j], Foreign(texts[k])))[1], texts[j] \o texts[k])
      PROVE  StrInv'
  <2> DEFINE text == texts[j] \o texts[k]
             result == MoveAssign(strs[i], Concat(strs[j], Foreign(texts[k])))[1]
  <2>1. Becomes(i, result, text)
    BY <1>3
  <2>2. texts[k] \in Seq(Chars)
    BY DEF StrInv
  <2>3. Len(text) <= MaxText
    BY <2>1 DEF Becomes
  <2>4. Holds(Concat(strs[j], Foreign(texts[k])), text)
    BY <1>1, <2>2, <2>3, ConcatHolds
  <2> HIDE DEF text
  <2>5. Holds(result, text)
    BY <1>1, <2>4, MoveAssignHolds
  <2> HIDE DEF result
  <2> QED
    BY <2>1, <2>5, BecomesHolds
<1> QED
  BY <1>2, <1>3 DEF StrBuild

LEMMA CopyKeeps ==
    ASSUME StrInv, NEW i \in Strings, NEW j \in Strings, StrCopy(i, j)
    PROVE  StrInv'
<1>1. Holds(strs[i], texts[i]) /\ Holds(strs[j], texts[j]) /\ texts[j] \in Seq(Chars)
  BY DEF StrInv
<1>2. CASE Becomes(i, Assign(strs[i], Foreign(Content(strs[j]))), texts[j])
  <2>1. Content(strs[j]) = texts[j]
    BY <1>1, ContentIs
  <2>2. IsSource(Foreign(texts[j]), texts[i]) /\ Foreign(texts[j]).text = texts[j]
    BY <1>1, ForeignIsSource
  <2>3. Len(texts[j]) <= MaxText => Holds(Assign(strs[i], Foreign(texts[j])), texts[j])
    BY <1>1, <2>2, AssignHolds
  <2> QED
    BY <1>2, <2>1, <2>3, BecomesHolds
<1>3. CASE Becomes(i, [CopyFrom(strs[j]) EXCEPT !.heap = @ + Reset(strs[i]).heap], texts[j])
  <2> DEFINE r == CopyFrom(strs[j])
             h == r.heap + Reset(strs[i]).heap
  <2>1. Holds(r, texts[j])
    BY <1>1, CopyHolds
  <2>2. Reset(strs[i]).heap = 0
    BY <1>1, ResetHolds DEF EmptyShort
  <2>3. Becomes(i, [r EXCEPT !.heap = h], texts[j])
    BY <1>3
  <2> HIDE DEF r
  <2>4. r \in StrObject
    BY <2>1 DEF Holds
  <2>5. h = r.heap
    BY <2>2, <2>4 DEF StrObject
  <2> HIDE DEF h
  <2>6. [r EXCEPT !.heap = h] = r
    BY <2>4, <2>5 DEF StrObject
  <2> QED
    BY <2>1, <2>3, <2>6, BecomesHolds
<1> QED
  BY <1>2, <1>3 DEF StrCopy

\* Two strings at once.
LEMMA PairHolds ==
    ASSUME StrInv, NEW i \in Strings, NEW j \in Strings, i # j,
           NEW s, NEW t, NEW r, NEW u, Holds(s, t), Holds(r, u),
           strs' = [strs EXCEPT ![i] = s, ![j] = r],
           texts' = [texts EXCEPT ![i] = t, ![j] = u]
    PROVE  StrInv'
<1>1. s \in StrObject /\ t \in Seq(Chars) /\ r \in StrObject /\ u \in Seq(Chars)
  BY DEF Holds
<1>2. strs' \in [Strings -> StrObject] /\ texts' \in [Strings -> Seq(Chars)]
  BY <1>1 DEF StrInv
<1>3. ASSUME NEW k \in Strings PROVE Holds(strs'[k], texts'[k])
  <2>1. CASE k = j
    BY <2>1 DEF StrInv
  <2>2. CASE k = i
    BY <2>2 DEF StrInv
  <2>3. CASE k # i /\ k # j
    <3>1. strs'[k] = strs[k] /\ texts'[k] = texts[k]
      BY <2>3 DEF StrInv
    <3> QED
      BY <3>1 DEF StrInv
  <2> QED
    BY <2>1, <2>2, <2>3
<1> QED
  BY <1>2, <1>3 DEF StrInv

LEMMA MoveKeeps ==
    ASSUME StrInv, NEW i \in Strings, NEW j \in Strings, i # j, StrMove(i, j)
    PROVE  StrInv'
<1> DEFINE moved == MoveAssign(strs[i], strs[j])
           s == moved[1]
           r == moved[2]
<1>1. /\ strs' = [strs EXCEPT ![i] = s, ![j] = r]
      /\ texts' = [texts EXCEPT ![i] = texts[j], ![j] = <<>>]
  BY DEF StrMove
<1>2. Holds(strs[i], texts[i]) /\ Holds(strs[j], texts[j])
  BY DEF StrInv
<1>3. Holds(s, texts[j]) /\ Holds(r, <<>>)
  BY <1>2, MoveAssignHolds
<1> HIDE DEF s, r
<1> QED
  BY <1>1, <1>3, PairHolds

LEMMA SwapKeeps ==
    ASSUME StrInv, NEW i \in Strings, NEW j \in Strings, i # j, StrSwap(i, j)
    PROVE  StrInv'
<1> DEFINE swapped == Swap(strs[i], strs[j])
           s == swapped[1]
           r == swapped[2]
<1>1. /\ strs' = [strs EXCEPT ![i] = s, ![j] = r]
      /\ texts' = [texts EXCEPT ![i] = texts[j], ![j] = texts[i]]
  BY DEF StrSwap
<1>2. Holds(strs[i], texts[i]) /\ Holds(strs[j], texts[j])
  BY DEF StrInv
<1>3. Holds(s, texts[j]) /\ Holds(r, texts[i])
  BY <1>2, SwapHolds
<1> HIDE DEF s, r
<1> QED
  BY <1>1, <1>3, PairHolds

\* The induction: each string holds its text.
THEOREM StrInductive == StrSpec => []StrInv
<1>1. StrInit => StrInv
  <2> SUFFICES ASSUME StrInit PROVE StrInv
    OBVIOUS
  <2>1. ASSUME NEW i \in Strings
        PROVE  strs[i] = EmptyShort /\ texts[i] = <<>>
    BY DEF StrInit
  <2>2. EmptyShort \in StrObject /\ <<>> \in Seq(Chars)
    BY EmptyHolds DEF Holds
  <2>3. strs \in [Strings -> StrObject] /\ texts \in [Strings -> Seq(Chars)]
    BY <2>2 DEF StrInit
  <2> QED
    BY <2>1, <2>3, EmptyHolds DEF StrInv
<1>2. StrInv /\ [StrNext]_StrVars => StrInv'
  <2> SUFFICES ASSUME StrInv, [StrNext]_StrVars
               PROVE  StrInv'
    OBVIOUS
  <2>1. ASSUME NEW i \in Strings,
               \/ StrAssign(i) \/ StrAppend(i) \/ StrPopBack(i) \/ StrReplace(i)
               \/ StrResize(i) \/ StrReserve(i) \/ StrEmpty(i) \/ StrBuild(i)
        PROVE  StrInv'
    BY <2>1, AssignKeeps, AppendKeeps, PopBackKeeps, ReplaceKeeps, ResizeKeeps, ReserveKeeps,
       EmptyKeeps, BuildKeeps
  <2>2. ASSUME NEW i \in Strings, NEW j \in Strings, i # j,
               StrCopy(i, j) \/ StrMove(i, j) \/ StrSwap(i, j)
        PROVE  StrInv'
    BY <2>2, CopyKeeps, MoveKeeps, SwapKeeps
  <2>3. CASE UNCHANGED StrVars
    BY <2>3 DEF StrVars, StrInv
  <2> QED
    BY <2>1, <2>2, <2>3 DEF StrNext
<1> QED
  BY <1>1, <1>2, PTL DEF StrSpec

\* BasicString: after every sequence of calls the storage reads what the text
\* should be, ends in a NUL, fits its capacity, and owns the one block it uses,
\* ranges of the string itself and reallocation in the middle of a call included.
THEOREM StringsReadAsText == StrSpec => []StringIsText
<1>1. StrInv => StringIsText
  BY DEF StrInv, Holds, StringIsText
<1> QED
  BY <1>1, StrInductive, PTL

-----------------------------------------------------------------------------
(* Repeat patterns *)

\* The fields of a pattern: the interval and the count are checked on the way
\* in, not by their types.
PatternRecord ==
  [enabled : BOOLEAN, activeDays : SUBSET AllDays, frequency : Frequencies,
   allowsSnooze : BOOLEAN, snooze : MinSnooze .. MaxSnooze, interval : Int, count : Int,
   endDate : {"a day", NoEnd}]

\* A pattern on which the edits can go on: what its fields say of each other.
Coherent(p) ==
  /\ p \in PatternRecord
  /\ p.enabled <=> p.frequency # "None"
  /\ p.frequency = "Daily" => p.activeDays = AllDays
  /\ p.interval >= 1 /\ p.count >= 0

PatternInv == Coherent(pattern)

\* Setting the days of a pattern changes the days, and the frequency when it
\* follows from the days.
LEMMA DaysAreSet ==
    ASSUME NEW p, Coherent(p), NEW days \in SUBSET AllDays
    PROVE  LET q == WithActiveDays(p, days)
           IN /\ Coherent(q)
              /\ q = [p EXCEPT !.activeDays = days, !.frequency = q.frequency]
              /\ q.activeDays = days /\ q.enabled = p.enabled
              /\ q.frequency = IF p.enabled /\ p.frequency \in DayBased
                               THEN IF days = AllDays THEN "Daily" ELSE "Weekly"
                               ELSE p.frequency
<1> DEFINE r == [p EXCEPT !.activeDays = days]
           f == IF p.enabled /\ p.frequency \in DayBased
                THEN IF days = AllDays THEN "Daily" ELSE "Weekly" ELSE p.frequency
           q == WithActiveDays(p, days)
<1>1. p \in PatternRecord
  BY DEF Coherent
<1>2. /\ r \in PatternRecord /\ r.activeDays = days /\ r.enabled = p.enabled
      /\ r.frequency = p.frequency
  BY <1>1 DEF PatternRecord
<1>3. q = IF p.enabled /\ p.frequency \in DayBased
          THEN [r EXCEPT !.frequency = IF days = AllDays THEN "Daily" ELSE "Weekly"] ELSE r
  BY <1>2 DEF WithActiveDays, Rederived, DeriveFrequency
<1>4. q = [p EXCEPT !.activeDays = days, !.frequency = f]
  BY <1>1, <1>3 DEF PatternRecord
<1> HIDE DEF q
<1>5. f \in Frequencies
  BY <1>1 DEF PatternRecord, Frequencies
<1>6. /\ q \in PatternRecord /\ q.activeDays = days /\ q.enabled = p.enabled /\ q.frequency = f
      /\ q.interval = p.interval /\ q.count = p.count
  <2> HIDE DEF f
  <2> QED
    BY <1>1, <1>4, <1>5 DEF PatternRecord
<1>7. Coherent(q)
  BY <1>6 DEF Coherent, DayBased
<1>8. q = [p EXCEPT !.activeDays = days, !.frequency = q.frequency]
  BY <1>4, <1>6
<1> QED
  BY <1>6, <1>7, <1>8 DEF q

\* Switching one day is setting the days.
LEMMA DayIsSet ==
    ASSUME NEW p, Coherent(p), NEW d \in AllDays, NEW on \in BOOLEAN
    PROVE  LET days == IF on THEN p.activeDays \cup {d} ELSE p.activeDays \ {d}
           IN /\ days \in SUBSET AllDays
              /\ WithDayActive(p, d, on) = WithActiveDays(p, days)
<1>1. p.activeDays \in SUBSET AllDays
  BY DEF Coherent, PatternRecord
<1> QED
  BY <1>1 DEF WithDayActive

\* Setting the days twice is setting them once, the second time.
LEMMA LastDaysStay ==
    ASSUME NEW p, Coherent(p), NEW S \in SUBSET AllDays, NEW T \in SUBSET AllDays
    PROVE  WithActiveDays(WithActiveDays(p, S), T) = WithActiveDays(p, T)
<1> DEFINE q == WithActiveDays(p, S)
           r == WithActiveDays(q, T)
           u == WithActiveDays(p, T)
<1>1. /\ Coherent(q) /\ q = [p EXCEPT !.activeDays = S, !.frequency = q.frequency]
      /\ q.enabled = p.enabled
      /\ q.frequency = IF p.enabled /\ p.frequency \in DayBased
                       THEN IF S = AllDays THEN "Daily" ELSE "Weekly" ELSE p.frequency
  BY DaysAreSet
<1>2. /\ u = [p EXCEPT !.activeDays = T, !.frequency = u.frequency]
      /\ u.frequency = IF p.enabled /\ p.frequency \in DayBased
                       THEN IF T = AllDays THEN "Daily" ELSE "Weekly" ELSE p.frequency
  BY DaysAreSet
<1> HIDE DEF q
<1>3. /\ r = [q EXCEPT !.activeDays = T, !.frequency = r.frequency]
      /\ r.frequency = IF q.enabled /\ q.frequency \in DayBased
                       THEN IF T = AllDays THEN "Daily" ELSE "Weekly" ELSE q.frequency
  BY <1>1, DaysAreSet
<1>4. r.frequency = u.frequency
  BY <1>1, <1>2, <1>3 DEF DayBased
<1> HIDE DEF r, u
<1>5. p \in PatternRecord
  BY DEF Coherent
<1>6. r = [p EXCEPT !.activeDays = T, !.frequency = r.frequency]
  BY <1>1, <1>3, <1>5 DEF PatternRecord
<1>7. r = u
  BY <1>2, <1>4, <1>6
<1> QED
  BY <1>7 DEF q, r, u

\* Every edit leaves a pattern on which the next one can go on.
THEOREM PatternInvHolds == PatternSpec => []PatternInv
<1>1. PatternInit => PatternInv
  <2> SUFFICES ASSUME NEW enabled \in BOOLEAN, NEW days \in SUBSET AllDays,
                      pattern = Pattern(enabled, days)
               PROVE  PatternInv
    BY DEF PatternInit
  <2> QED
    BY PatternAssumption
       DEF PatternInv, Coherent, PatternRecord, Pattern, DeriveFrequency, Frequencies, NoEnd
<1>2. PatternInv /\ [PatternNext]_pattern => PatternInv'
  <2> SUFFICES ASSUME Coherent(pattern), PatternNext
               PROVE  Coherent(pattern')
    BY DEF PatternInv
  <2> DEFINE p == pattern
             q == pattern'
  <2>0. p \in PatternRecord
    BY DEF Coherent
  <2>1. ASSUME NEW days \in SUBSET AllDays, q = WithActiveDays(p, days)
        PROVE  Coherent(q)
    BY <2>1, DaysAreSet
  <2>2. ASSUME NEW day \in 0 .. DaysPerWeek, NEW active \in BOOLEAN, q = WithDayActive(p, day, active)
        PROVE  Coherent(q)
    <3>1. CASE day \in AllDays
      <4> DEFINE days == IF active THEN p.activeDays \cup {day} ELSE p.activeDays \ {day}
      <4>1. days \in SUBSET AllDays /\ q = WithActiveDays(p, days)
        BY <2>2, <3>1, DayIsSet
      <4> HIDE DEF days
      <4> QED
        BY <4>1, <2>1
    <3>2. CASE day \notin AllDays
      BY <2>2, <3>2 DEF WithDayActive
    <3> QED
      BY <3>1, <3>2
  <2>3. ASSUME NEW frequency \in Frequencies, q = WithFrequency(p, frequency)
        PROVE  Coherent(q)
    BY <2>0, <2>3 DEF Coherent, PatternRecord, WithFrequency
  <2>4. ASSUME NEW n \in Numbers, NEW allowed \in BOOLEAN, q = WithSnooze(p, allowed, n)
        PROVE  Coherent(q)
    <3>1. SnoozeClamped(n) \in MinSnooze .. MaxSnooze
      BY PatternAssumption DEF SnoozeClamped
    <3> QED
      BY <2>0, <2>4, <3>1 DEF Coherent, PatternRecord, WithSnooze
  <2>5. ASSUME NEW n \in Numbers, q = WithInterval(p, n)
        PROVE  Coherent(q)
    <3> DEFINE m == IF n < 1 THEN 1 ELSE n
    <3>1. m \in Int /\ m >= 1
      BY PatternAssumption
    <3>2. q = [p EXCEPT !.interval = m]
      BY <2>5 DEF WithInterval
    <3> HIDE DEF m
    <3> QED
      BY <2>0, <3>1, <3>2 DEF Coherent, PatternRecord
  <2>6. ASSUME NEW n \in Numbers, q = WithCount(p, n)
        PROVE  Coherent(q)
    <3> DEFINE m == IF n < 0 THEN 0 ELSE n
    <3>1. m \in Int /\ m >= 0
      BY PatternAssumption
    <3>2. q = [p EXCEPT !.count = m]
      BY <2>6 DEF WithCount
    <3> HIDE DEF m
    <3> QED
      BY <2>0, <3>1, <3>2 DEF Coherent, PatternRecord
  <2>7. ASSUME NEW date \in Dates, q = WithEndDate(p, date)
        PROVE  Coherent(q)
    BY <2>0, <2>7 DEF Coherent, PatternRecord, WithEndDate, NoEnd
  <2>8. ASSUME q = WithoutEndDate(p)
        PROVE  Coherent(q)
    BY <2>0, <2>8 DEF Coherent, PatternRecord, WithoutEndDate
  <2> QED
    BY <2>1, <2>2, <2>3, <2>4, <2>5, <2>6, <2>7, <2>8 DEF PatternNext
<1> QED
  BY <1>1, <1>2, PTL DEF PatternSpec

\* Editing days: in either order, at once, answered by isActiveOnDay(), undone.
LEMMA DayEdits ==
    ASSUME NEW p, Coherent(p), NEW d \in AllDays, NEW e \in AllDays, NEW on \in BOOLEAN, NEW off \in BOOLEAN
    PROVE  LET first == WithDayActive(p, d, on)
               both == WithDayActive(first, e, off)
           IN /\ d # e => both = WithDayActive(WithDayActive(p, e, off), d, on)
              /\ both = WithActiveDays(p, both.activeDays)
              /\ IsActiveOnDay(both, e) <=> p.enabled /\ off
              /\ WithDayActive(first, d, d \in p.activeDays) = WithActiveDays(p, p.activeDays)
<1> DEFINE With(S, x, b) == IF b THEN S \cup {x} ELSE S \ {x}
           days == p.activeDays
           S == With(days, d, on)
           T == With(S, e, off)
           U == With(days, e, off)
           first == WithDayActive(p, d, on)
           both == WithDayActive(first, e, off)
<1>1. days \in SUBSET AllDays
  BY DEF Coherent, PatternRecord
<1>2. \A X \in SUBSET AllDays, x \in AllDays, b \in BOOLEAN : With(X, x, b) \in SUBSET AllDays
  OBVIOUS
<1>3. \A X \in SUBSET AllDays, x \in AllDays, b \in BOOLEAN :
        LET q == WithActiveDays(p, X)
        IN /\ Coherent(q) /\ q.activeDays = X /\ q.enabled = p.enabled
           /\ WithDayActive(q, x, b) = WithActiveDays(p, With(X, x, b))
  <2> TAKE X \in SUBSET AllDays, x \in AllDays, b \in BOOLEAN
  <2> DEFINE q == WithActiveDays(p, X)
  <2>1. Coherent(q) /\ q.activeDays = X /\ q.enabled = p.enabled
    BY DaysAreSet
  <2>2. WithDayActive(q, x, b) = WithActiveDays(q, With(X, x, b))
    <3> HIDE DEF q
    <3> QED
      BY <2>1 DEF WithDayActive
  <2>3. With(X, x, b) \in SUBSET AllDays
    BY <1>2
  <2> HIDE DEF With
  <2>4. WithActiveDays(q, With(X, x, b)) = WithActiveDays(p, With(X, x, b))
    BY <2>3, LastDaysStay
  <2> QED
    BY <2>1, <2>2, <2>4
<1>4. \A x \in AllDays, b \in BOOLEAN : WithDayActive(p, x, b) = WithActiveDays(p, With(days, x, b))
  BY DEF WithDayActive
<1>5. d # e => T = With(U, d, on)
  OBVIOUS
<1>6. With(S, d, d \in days) = days
  OBVIOUS
<1>7. e \in T <=> off
  OBVIOUS
<1>8. S \in SUBSET AllDays /\ U \in SUBSET AllDays /\ T \in SUBSET AllDays
  BY <1>1, <1>2
<1> HIDE DEF With, days
<1>9. first = WithActiveDays(p, S) /\ WithDayActive(p, e, off) = WithActiveDays(p, U)
  BY <1>4
<1> HIDE DEF S, U
<1>10. both = WithActiveDays(p, T) /\ both.activeDays = T /\ both.enabled = p.enabled
  BY <1>3, <1>8, <1>9
<1>11. d # e => both = WithDayActive(WithDayActive(p, e, off), d, on)
  <2> HIDE DEF T
  <2>1. WithDayActive(WithActiveDays(p, U), d, on) = WithActiveDays(p, With(U, d, on))
    BY <1>3, <1>8
  <2> HIDE DEF both
  <2> QED
    BY <1>5, <1>9, <1>10, <2>1
<1>12. IsActiveOnDay(both, e) <=> p.enabled /\ off
  <2> HIDE DEF both, T
  <2> QED
    BY <1>7, <1>10 DEF IsActiveOnDay
<1>13. WithDayActive(first, d, d \in days) = WithActiveDays(p, days)
  <2> HIDE DEF first
  <2>1. WithDayActive(WithActiveDays(p, S), d, d \in days) = WithActiveDays(p, With(S, d, d \in days))
    <3>1. \A b \in BOOLEAN : WithDayActive(WithActiveDays(p, S), d, b) = WithActiveDays(p, With(S, d, b))
      BY <1>3, <1>8
    <3>2. (d \in days) \in BOOLEAN
      OBVIOUS
    <3> QED
      BY <3>1, <3>2, Zenon
  <2> QED
    BY <1>6, <1>9, <2>1
<1> QED
  BY <1>10, <1>11, <1>12, <1>13 DEF days

\* After any edits in any order, a pattern agrees with itself.
THEOREM PatternAlwaysAgrees == PatternSpec => []PatternAgrees
<1>1. PatternInv => PatternAgrees
  <2> SUFFICES ASSUME Coherent(pattern)
               PROVE  PatternAgrees
    BY DEF PatternInv
  <2>1. pattern \in PatternRecord
    BY DEF Coherent
  <2>2. /\ pattern.enabled <=> pattern.frequency # "None"
        /\ pattern.frequency = "Daily" => pattern.activeDays = AllDays
        /\ pattern.snooze \in MinSnooze .. MaxSnooze /\ pattern.interval >= 1 /\ pattern.count >= 0
        /\ pattern.endDate # "no such day"
    BY <2>1 DEF Coherent, PatternRecord, NoEnd
  <2>3. pattern.frequency # "Weekly" \/ pattern.activeDays # AllDays =>
          WithActiveDays(pattern, pattern.activeDays) = pattern
    <3> DEFINE q == WithActiveDays(pattern, pattern.activeDays)
    <3>1. pattern.activeDays \in SUBSET AllDays
      BY <2>1 DEF PatternRecord
    <3>2. /\ q = [pattern EXCEPT !.activeDays = pattern.activeDays, !.frequency = q.frequency]
          /\ q.frequency = IF pattern.enabled /\ pattern.frequency \in DayBased
                           THEN IF pattern.activeDays = AllDays THEN "Daily" ELSE "Weekly"
                           ELSE pattern.frequency
      BY <3>1, DaysAreSet
    <3> HIDE DEF q
    <3> SUFFICES ASSUME pattern.frequency # "Weekly" \/ pattern.activeDays # AllDays
                 PROVE  q = pattern
      BY DEF q
    <3>3. q.frequency = pattern.frequency
      BY <2>2, <3>2 DEF DayBased
    <3> QED
      BY <2>1, <3>2, <3>3 DEF PatternRecord
  <2> QED
    BY <2>2, <2>3, DayEdits DEF PatternAgrees
<1> QED
  BY <1>1, PatternInvHolds, PTL

-----------------------------------------------------------------------------
(* Uuid *)

\* The bits of a time-ordered UUID.
IsTimeOrdered(uuid) ==
  /\ VersionOf(uuid) = {0, 1, 2} /\ Timestamp(uuid) \subseteq TimeBits /\ 7 \in uuid[8]

\* A bit of a byte is the bit of its word.
LEMMA ByteOfWord ==
    ASSUME NEW high, NEW low, NEW i \in 0 .. 7, NEW b,
           \A c \in high : c \in Nat, \A c \in low : c \in Nat
    PROVE  /\ b \in Data(high, low)[i] <=> b \in 0 .. 7 /\ b + (56 - 8 * i) \in high
           /\ b \in Data(high, low)[i + 8] <=> b \in 0 .. 7 /\ b + (56 - 8 * i) \in low
<1>1. i \in 0 .. 15 /\ i + 8 \in 0 .. 15 /\ i < 8 /\ ~ (i + 8 < 8) /\ (i % 8) = i /\ ((i + 8) % 8) = i
  OBVIOUS
<1>2. /\ Data(high, low)[i] = ShiftRight(high, 56 - 8 * (i % 8)) \cap 0 .. 7
      /\ Data(high, low)[i + 8] = ShiftRight(low, 56 - 8 * ((i + 8) % 8)) \cap 0 .. 7
  BY <1>1 DEF Data
<1>3. /\ Data(high, low)[i] = ShiftRight(high, 56 - 8 * i) \cap 0 .. 7
      /\ Data(high, low)[i + 8] = ShiftRight(low, 56 - 8 * i) \cap 0 .. 7
  BY <1>1, <1>2
<1> DEFINE n == 56 - 8 * i
<1>4. n \in Nat
  OBVIOUS
<1>5. ASSUME NEW word, \A c \in word : c \in Nat
      PROVE  b \in ShiftRight(word, n) \cap 0 .. 7 <=> b \in 0 .. 7 /\ b + n \in word
  <2> HIDE DEF n
  <2>1. \A c \in Nat : c >= n /\ b = c - n => b + n = c
    BY <1>4
  <2>2. b \in 0 .. 7 => b + n >= n /\ b = (b + n) - n
    BY <1>4
  <2> QED
    BY <1>5, <2>1, <2>2 DEF ShiftRight
<1> HIDE DEF n
<1>6. n = 56 - 8 * i
  BY DEF n
<1> QED
  BY <1>3, <1>5, <1>6

\* The version, the time and the first bit of the variant are where they belong.
LEMMA SevenIsTimeOrdered ==
    ASSUME NEW uuid \in V7
    PROVE  IsTimeOrdered(uuid)
<1>1. PICK t \in SUBSET TimeBits, h \in SUBSET HighBits, l \in SUBSET LowBits : uuid = GenerateV7(t, h, l)
  BY DEF V7
<1>2. /\ \A c \in t : c \in Nat
      /\ \A c \in h : c \in Nat
      /\ \A c \in l : c \in Nat
  BY UuidAssumption
<1> DEFINE r == h \cap 0 .. 59
           time == ShiftLeft(t, 16)
           top == ShiftRight(r, 48)
           high == time \cup VersionBits \cup top
           low == ShiftLeft(r \cap 0 .. 47, 16) \cup VariantBits \cup ShiftRight(l, 2)
<1>3. \A c \in time : c \in Nat /\ c >= 16 /\ c <= 63 /\ c - 16 \in t
  BY <1>2 DEF ShiftLeft
<1>4. \A c \in top : c \in Nat /\ c <= 11
  BY DEF ShiftRight
<1>5. \A c \in low : c \in Nat
  BY <1>2 DEF ShiftLeft, ShiftRight, VariantBits
<1>6. uuid = Data(high, low)
  BY <1>1 DEF GenerateV7
<1>7. 63 \in low /\ {12, 13, 14} \subseteq high
  BY DEF VariantBits, VersionBits
<1> HIDE DEF time, top, low
<1>8. \A c \in high : c \in Nat /\ (c >= 16 => c \in time) /\ (c \in 12 .. 15 => c \in {12, 13, 14})
  BY <1>3, <1>4 DEF VersionBits
<1> HIDE DEF high
<1>9. \A i \in 0 .. 7 : \A b : b \in uuid[i] <=> b \in 0 .. 7 /\ b + (56 - 8 * i) \in high
  BY <1>5, <1>6, <1>8, ByteOfWord
<1>10. 7 \in uuid[8]
  <2>1. 0 \in 0 .. 7 /\ 0 + 8 = 8 /\ 7 \in 0 .. 7 /\ 7 + (56 - 8 * 0) = 63
    OBVIOUS
  <2>2. 7 \in Data(high, low)[0 + 8] <=> 7 \in 0 .. 7 /\ 7 + (56 - 8 * 0) \in low
    BY <1>5, <1>8, <2>1, ByteOfWord
  <2> QED
    BY <1>6, <1>7, <2>1, <2>2
<1>11. VersionOf(uuid) = {0, 1, 2}
  <2>1. \A b : b \in uuid[6] <=> b \in 0 .. 7 /\ b + 8 \in high
    <3>1. 6 \in 0 .. 7 /\ 56 - 8 * 6 = 8
      OBVIOUS
    <3> QED
      BY <1>9, <3>1
  <2>2. \A b : b \in uuid[6] /\ b >= 4 <=> b \in {4, 5, 6}
    BY <1>7, <1>8, <2>1
  <2>3. VersionOf(uuid) = {b - 4 : b \in {4, 5, 6}}
    BY <2>2 DEF VersionOf, ShiftRight
  <2> QED
    BY <2>3
<1>12. Timestamp(uuid) \subseteq TimeBits
  <2> SUFFICES ASSUME NEW i \in 0 .. 5, NEW c \in ShiftLeft(uuid[i], 40 - 8 * i)
               PROVE  c \in TimeBits
    BY DEF Timestamp
  <2>1. PICK b \in uuid[i] : c = b + (40 - 8 * i)
    BY DEF ShiftLeft
  <2>2. b \in 0 .. 7 /\ b + (56 - 8 * i) \in high
    BY <1>9
  <2>3. b + (56 - 8 * i) >= 16 /\ (b + (56 - 8 * i)) - 16 = c
    BY <2>1, <2>2
  <2> QED
    BY <1>3, <1>8, <2>2, <2>3
<1> QED
  BY <1>10, <1>11, <1>12 DEF IsTimeOrdered

\* What an Impl may hold.
Contents == {Nil, V4} \cup V7

LEMMA ContentsAreNotFree == \A uuid \in Contents : uuid # Free
<1>1. ASSUME NEW high, NEW low PROVE Data(high, low) # Free
  <2>1. DOMAIN Data(high, low) = 0 .. 15 /\ 5 \in 0 .. 15 /\ DOMAIN Free = {}
    BY DEF Data, Free
  <2> QED
    BY <2>1
<1>2. Nil # Free /\ V4 # Free
  BY <1>1 DEF Nil, V4
<1>3. \A t, h, l : GenerateV7(t, h, l) # Free
  BY <1>1 DEF GenerateV7
<1>4. \A uuid \in V7 : \E t, h, l : uuid = GenerateV7(t, h, l)
  BY DEF V7
<1>5. \A uuid \in V7 : uuid # Free
  BY <1>3, <1>4
<1> QED
  BY <1>2, <1>5 DEF Contents

\* Objects and Impls: one owner for each Impl in use, and none for the others.
UuidInv ==
  /\ impl \in [Uuids -> Impls \cup {Null}] /\ heap \in [Impls -> Contents \cup {Free}]
  /\ \A i, j \in Uuids : impl[i] # Null /\ impl[i] = impl[j] => i = j
  /\ \A p \in Impls : heap[p] # Free <=> \E i \in Uuids : impl[i] = p

\* uuid.cpp: whatever objects are made, copied, assigned and moved, in any order.
THEOREM UuidInvHolds == UuidsSpec => []UuidInv
<1>1. UuidInit => UuidInv
  BY UuidAssumption DEF UuidInit, UuidInv, Null
<1>2. UuidInv /\ [UuidNext]_UuidVars => UuidInv'
  <2> SUFFICES ASSUME UuidInv, [UuidNext]_UuidVars
               PROVE  UuidInv'
    OBVIOUS
  <2>0. Null \notin Impls
    BY UuidAssumption DEF Null
  <2>1. ASSUME NEW i \in Uuids, NEW uuid \in Contents, Make(i, uuid)
        PROVE  UuidInv'
    <3>1. PICK new \in Impls : /\ heap[new] = Free
                               /\ impl' = [impl EXCEPT ![i] = new]
                               /\ heap' = [Freed(i) EXCEPT ![new] = uuid]
      BY <2>1 DEF Make
    <3>2. uuid # Free
      BY ContentsAreNotFree
    <3>3. \A j \in Uuids : impl[j] # new
      BY <3>1 DEF UuidInv
    <3>4. /\ Freed(i) \in [Impls -> Contents \cup {Free}]
          /\ \A p \in Impls : Freed(i)[p] = IF p = impl[i] THEN Free ELSE heap[p]
      BY <2>0 DEF Freed, Released, UuidInv
    <3> HIDE DEF Freed
    <3>5. /\ impl' \in [Uuids -> Impls \cup {Null}] /\ heap' \in [Impls -> Contents \cup {Free}]
          /\ \A j \in Uuids : impl'[j] = IF j = i THEN new ELSE impl[j]
          /\ \A p \in Impls : heap'[p] = IF p = new THEN uuid ELSE IF p = impl[i] THEN Free ELSE heap[p]
      BY <3>1, <3>4 DEF UuidInv
    <3>6. \A j, k \in Uuids : impl'[j] # Null /\ impl'[j] = impl'[k] => j = k
      BY <3>3, <3>5 DEF UuidInv
    <3>7. ASSUME NEW p \in Impls PROVE heap'[p] # Free <=> \E j \in Uuids : impl'[j] = p
      <4>1. CASE p = new
        BY <3>2, <3>5, <4>1
      <4>2. CASE p # new /\ p = impl[i]
        BY <2>0, <3>5, <4>2 DEF UuidInv
      <4>3. CASE p # new /\ p # impl[i]
        BY <3>5, <4>3 DEF UuidInv
      <4> QED
        BY <4>1, <4>2, <4>3
    <3> QED
      BY <3>5, <3>6, <3>7 DEF UuidInv
  <2>2. ASSUME NEW i \in Uuids, NEW j \in Uuids, impl[j] # Null
        PROVE  impl[j] \in Impls /\ heap[impl[j]] \in Contents
    BY <2>2 DEF UuidInv
  <2>3. ASSUME NEW i \in Uuids, NEW j \in Uuids, CopyConstruct(i, j)
        PROVE  UuidInv'
    BY <2>1, <2>2, <2>3 DEF CopyConstruct
  <2>4. ASSUME NEW i \in Uuids, NEW j \in Uuids, CopyAssign(i, j)
        PROVE  UuidInv'
    <3>1. impl[i] \in Impls /\ heap[impl[j]] \in Contents /\ heap[impl[j]] # Free /\ heap[impl[i]] # Free
      BY <2>2, <2>4, ContentsAreNotFree DEF CopyAssign
    <3>2. /\ heap' \in [Impls -> Contents \cup {Free}] /\ impl' = impl
          /\ \A p \in Impls : heap'[p] = IF p = impl[i] THEN heap[impl[j]] ELSE heap[p]
      BY <2>4, <3>1 DEF CopyAssign, UuidInv
    <3>3. \A p \in Impls : heap'[p] # Free <=> heap[p] # Free
      BY <3>1, <3>2
    <3> QED
      BY <3>2, <3>3 DEF UuidInv
  <2>5. ASSUME NEW i \in Uuids, NEW j \in Uuids, MoveUuid(i, j)
        PROVE  UuidInv'
    <3>1. i # j /\ impl' = [impl EXCEPT ![i] = impl[j], ![j] = Null] /\ heap' = Freed(i)
      BY <2>5 DEF MoveUuid
    <3>2. /\ Freed(i) \in [Impls -> Contents \cup {Free}]
          /\ \A p \in Impls : Freed(i)[p] = IF p = impl[i] THEN Free ELSE heap[p]
      BY <2>0 DEF Freed, Released, UuidInv
    <3> HIDE DEF Freed
    <3>3. /\ impl' \in [Uuids -> Impls \cup {Null}]
          /\ \A k \in Uuids : impl'[k] = IF k = j THEN Null ELSE IF k = i THEN impl[j] ELSE impl[k]
      BY <3>1 DEF UuidInv
    <3>4. \A k, m \in Uuids : impl'[k] # Null /\ impl'[k] = impl'[m] => k = m
      BY <3>1, <3>3 DEF UuidInv
    <3>5. ASSUME NEW p \in Impls PROVE heap'[p] # Free <=> \E k \in Uuids : impl'[k] = p
      <4>1. CASE p = impl[i]
        BY <2>0, <3>1, <3>2, <3>3, <4>1 DEF UuidInv
      <4>2. CASE p # impl[i]
        <5>1. heap'[p] # Free <=> \E k \in Uuids : impl[k] = p
          BY <3>1, <3>2, <4>2 DEF UuidInv
        <5>2. (\E k \in Uuids : impl[k] = p) <=> \E k \in Uuids : impl'[k] = p
          BY <2>0, <3>1, <3>3, <4>2 DEF UuidInv
        <5> QED
          BY <5>1, <5>2
      <4> QED
        BY <4>1, <4>2
    <3> QED
      BY <3>1, <3>2, <3>3, <3>4, <3>5 DEF UuidInv
  <2>6. CASE UNCHANGED UuidVars
    BY <2>6 DEF UuidVars, UuidInv
  <2> QED
    BY <2>1, <2>3, <2>4, <2>5, <2>6 DEF UuidNext, Contents
<1> QED
  BY <1>1, <1>2, PTL DEF UuidsSpec

\* Each object owns its Impl or has none, no Impl is lost, and a time-ordered
\* UUID has its version, its time and the first bit of its variant in their places.
THEOREM UuidsAreAlwaysApart == UuidsSpec => []UuidsAreApart
<1>1. UuidInv => UuidsAreApart
  <2> SUFFICES ASSUME UuidInv
               PROVE  UuidsAreApart
    OBVIOUS
  <2>1. ASSUME NEW p \in Impls, heap[p] \notin {Free, Nil, V4}
        PROVE  IsTimeOrdered(heap[p])
    BY <2>1, SevenIsTimeOrdered DEF UuidInv, Contents
  <2> QED
    BY <2>1 DEF UuidInv, UuidsAreApart, Equal, IsTimeOrdered
<1> QED
  BY <1>1, UuidInvHolds, PTL

-----------------------------------------------------------------------------
(* EdgeRect *)

EdgeRects == [left : Int, top : Int, right : Int, bottom : Int]
OnTheGrid(e) == e \in [left : Grid, top : Grid, right : Grid, bottom : Grid]
Parts(e) == e = Edges(e.left, e.top, e.right, e.bottom)

LEMMA EdgesAre ==
    ASSUME NEW l, NEW t, NEW r, NEW b
    PROVE  LET e == Edges(l, t, r, b)
           IN /\ e.left = l /\ e.top = t /\ e.right = r /\ e.bottom = b /\ Parts(e)
              /\ (l \in Int /\ t \in Int /\ r \in Int /\ b \in Int => e \in EdgeRects)
  BY DEF Edges, Parts, EdgeRects

LEMMA EdgeRectIs ==
    ASSUME NEW e \in EdgeRects
    PROVE  e.left \in Int /\ e.top \in Int /\ e.right \in Int /\ e.bottom \in Int /\ Parts(e)
  BY DEF EdgeRects, Parts, Edges

LEMMA SameEdges ==
    ASSUME NEW e, NEW f, Parts(e), Parts(f),
           e.left = f.left, e.top = f.top, e.right = f.right, e.bottom = f.bottom
    PROVE  e = f
  BY DEF Parts

LEMMA GridIsInt ==
    ASSUME NEW e, OnTheGrid(e)
    PROVE  /\ e \in EdgeRects
           /\ e.left \in Grid /\ e.top \in Grid /\ e.right \in Grid /\ e.bottom \in Grid
  BY GeometryAssumption DEF OnTheGrid, EdgeRects

LEMMA SmallerAndLarger ==
    ASSUME NEW m \in Int, NEW n \in Int
    PROVE  /\ Smaller(m, n) \in Int /\ Larger(m, n) \in Int
           /\ Smaller(m, n) <= m /\ Smaller(m, n) <= n /\ Larger(m, n) >= m /\ Larger(m, n) >= n
           /\ Smaller(m, n) \in {m, n} /\ Larger(m, n) \in {m, n}
           /\ Smaller(m, n) <= Larger(m, n)
  BY DEF Smaller, Larger

\* The least and the greatest of two.
LEMMA EndsOfPair ==
    ASSUME NEW m \in Int, NEW n \in Int
    PROVE  Min({m, n}) = Smaller(m, n) /\ Max({m, n}) = Larger(m, n)
<1>1. \E x \in {m, n} : \A y \in {m, n} : x <= y
  OBVIOUS
<1>2. \E x \in {m, n} : \A y \in {m, n} : x >= y
  OBVIOUS
<1>3. Min({m, n}) \in {m, n} /\ Min({m, n}) <= m /\ Min({m, n}) <= n
  BY <1>1 DEF Min
<1>4. Max({m, n}) \in {m, n} /\ Max({m, n}) >= m /\ Max({m, n}) >= n
  BY <1>2 DEF Max
<1> QED
  BY <1>3, <1>4 DEF Smaller, Larger

\* A rectangle between two abscissas and two ordinates.
LEMMA BoxMade ==
    ASSUME NEW x1 \in Int, NEW x2 \in Int, NEW y1 \in Int, NEW y2 \in Int, NEW box,
           box = Edges(Smaller(x1, x2), Smaller(y1, y2), Larger(x1, x2), Larger(y1, y2))
    PROVE  /\ box \in EdgeRects
           /\ box.left = Smaller(x1, x2) /\ box.right = Larger(x1, x2)
           /\ box.top = Smaller(y1, y2) /\ box.bottom = Larger(y1, y2)
           /\ box.left \in {x1, x2} /\ box.right \in {x1, x2} /\ box.left <= box.right
           /\ box.top \in {y1, y2} /\ box.bottom \in {y1, y2} /\ box.top <= box.bottom
<1>1. \A m, n \in Int : Smaller(m, n) \in {m, n} /\ Larger(m, n) \in {m, n} /\ Smaller(m, n) <= Larger(m, n)
  BY SmallerAndLarger
<1>2. Smaller(x1, x2) \in Int /\ Larger(x1, x2) \in Int /\ Smaller(y1, y2) \in Int /\ Larger(y1, y2) \in Int
  BY SmallerAndLarger
<1> QED
  BY <1>1, <1>2, EdgesAre

\* An inverted rectangle has its box inverted.
AsBefore(e, box) ==
  LET wide == IF e.left > e.right THEN FlipH(box) ELSE box
  IN IF e.top > e.bottom THEN FlipV(wide) ELSE wide

\* The coordinates of the turned corners.
Abscissas(e, turns, X, Y) == {Turned(turns, X, Y, px, py)[1] : px \in {e.left, e.right}, py \in {e.top, e.bottom}}
Ordinates(e, turns, X, Y) == {Turned(turns, X, Y, px, py)[2] : px \in {e.left, e.right}, py \in {e.top, e.bottom}}

\* The box around the turned corners, from the coordinates these have.
LEMMA BoxIs ==
    ASSUME NEW e, NEW turns, NEW X, NEW Y, NEW x1 \in Int, NEW x2 \in Int, NEW y1 \in Int, NEW y2 \in Int,
           Abscissas(e, turns, X, Y) = {x1, x2}, Ordinates(e, turns, X, Y) = {y1, y2}
    PROVE  BoxAround(e, turns, X, Y)
             = AsBefore(e, Edges(Smaller(x1, x2), Smaller(y1, y2), Larger(x1, x2), Larger(y1, y2)))
<1> DEFINE corners == {Turned(turns, X, Y, px, py) : px \in {e.left, e.right}, py \in {e.top, e.bottom}}
<1>1. {c[1] : c \in corners} = {x1, x2}
  BY DEF Abscissas
<1>2. {c[2] : c \in corners} = {y1, y2}
  BY DEF Ordinates
<1> HIDE DEF corners
<1>3. /\ Min({c[1] : c \in corners}) = Smaller(x1, x2) /\ Max({c[1] : c \in corners}) = Larger(x1, x2)
      /\ Min({c[2] : c \in corners}) = Smaller(y1, y2) /\ Max({c[2] : c \in corners}) = Larger(y1, y2)
  BY <1>1, <1>2, EndsOfPair
<1> QED
  BY <1>3 DEF BoxAround, AsBefore, corners

LEMMA AsBeforeIs ==
    ASSUME NEW e \in EdgeRects, NEW box \in EdgeRects
    PROVE  /\ AsBefore(e, box) \in EdgeRects
           /\ AsBefore(e, box).left = IF e.left > e.right THEN box.right ELSE box.left
           /\ AsBefore(e, box).right = IF e.left > e.right THEN box.left ELSE box.right
           /\ AsBefore(e, box).top = IF e.top > e.bottom THEN box.bottom ELSE box.top
           /\ AsBefore(e, box).bottom = IF e.top > e.bottom THEN box.top ELSE box.bottom
           /\ AsBefore(e, box).left + AsBefore(e, box).right = box.left + box.right
           /\ AsBefore(e, box).top + AsBefore(e, box).bottom = box.top + box.bottom
  BY DEF AsBefore, FlipH, FlipV, Edges, EdgeRects

\* A turn by 180 degrees.
LEMMA HalfTurn ==
    ASSUME NEW e \in EdgeRects, NEW X \in Int, NEW Y \in Int
    PROVE  BoxAround(e, 2, X, Y)
             = AsBefore(e, Edges(Smaller(X - e.left, X - e.right), Smaller(Y - e.top, Y - e.bottom),
                                 Larger(X - e.left, X - e.right), Larger(Y - e.top, Y - e.bottom)))
<1>1. e.left \in Int /\ e.top \in Int /\ e.right \in Int /\ e.bottom \in Int
  BY EdgeRectIs
<1>2. \A px, py : Turned(2, X, Y, px, py)[1] = X - px /\ Turned(2, X, Y, px, py)[2] = Y - py
  BY DEF Turned
<1>3. Abscissas(e, 2, X, Y) = {X - e.left, X - e.right}
  BY <1>2 DEF Abscissas
<1>4. Ordinates(e, 2, X, Y) = {Y - e.top, Y - e.bottom}
  BY <1>2 DEF Ordinates
<1>5. X - e.left \in Int /\ X - e.right \in Int /\ Y - e.top \in Int /\ Y - e.bottom \in Int
  BY <1>1
<1> QED
  BY <1>3, <1>4, <1>5, BoxIs

\* Turns by 90 degrees, one way and the other.
LEMMA QuarterTurns ==
    ASSUME NEW e \in EdgeRects, NEW X \in Int, NEW Y \in Int
    PROVE  LET h == (X + Y) \div 2
               d == (Y - X) \div 2
               g == (X - Y) \div 2
           IN /\ BoxAround(e, 1, X, Y)
                   = AsBefore(e, Edges(Smaller(h - e.top, h - e.bottom), Smaller(d + e.left, d + e.right),
                                       Larger(h - e.top, h - e.bottom), Larger(d + e.left, d + e.right)))
              /\ BoxAround(e, 3, X, Y)
                   = AsBefore(e, Edges(Smaller(g + e.top, g + e.bottom), Smaller(h - e.left, h - e.right),
                                       Larger(g + e.top, g + e.bottom), Larger(h - e.left, h - e.right)))
<1> DEFINE h == (X + Y) \div 2
           d == (Y - X) \div 2
           g == (X - Y) \div 2
<1>1. /\ e.left \in Int /\ e.top \in Int /\ e.right \in Int /\ e.bottom \in Int
      /\ h \in Int /\ d \in Int /\ g \in Int
  BY EdgeRectIs
<1>2. \A px, py : /\ Turned(1, X, Y, px, py)[1] = h - py /\ Turned(1, X, Y, px, py)[2] = d + px
                  /\ Turned(3, X, Y, px, py)[1] = g + py /\ Turned(3, X, Y, px, py)[2] = h - px
  BY DEF Turned
<1> HIDE DEF h, d, g
<1>3. Abscissas(e, 1, X, Y) = {h - e.top, h - e.bottom}
  BY <1>2 DEF Abscissas
<1>4. Ordinates(e, 1, X, Y) = {d + e.left, d + e.right}
  BY <1>2 DEF Ordinates
<1>5. Abscissas(e, 3, X, Y) = {g + e.top, g + e.bottom}
  BY <1>2 DEF Abscissas
<1>6. Ordinates(e, 3, X, Y) = {h - e.left, h - e.right}
  BY <1>2 DEF Ordinates
<1>7. /\ h - e.top \in Int /\ h - e.bottom \in Int /\ d + e.left \in Int /\ d + e.right \in Int
      /\ g + e.top \in Int /\ g + e.bottom \in Int /\ h - e.left \in Int /\ h - e.right \in Int
  BY <1>1
<1>8. BoxAround(e, 1, X, Y)
        = AsBefore(e, Edges(Smaller(h - e.top, h - e.bottom), Smaller(d + e.left, d + e.right),
                            Larger(h - e.top, h - e.bottom), Larger(d + e.left, d + e.right)))
  BY <1>3, <1>4, <1>7, BoxIs
<1>9. BoxAround(e, 3, X, Y)
        = AsBefore(e, Edges(Smaller(g + e.top, g + e.bottom), Smaller(h - e.left, h - e.right),
                            Larger(g + e.top, g + e.bottom), Larger(h - e.left, h - e.right)))
  BY <1>5, <1>6, <1>7, BoxIs
<1> QED
  BY <1>8, <1>9 DEF h, d, g

LEMMA BoxIsEdges ==
    ASSUME NEW e \in EdgeRects, NEW turns \in 1 .. 3, NEW X \in Int, NEW Y \in Int
    PROVE  BoxAround(e, turns, X, Y) \in EdgeRects
<1>1. ASSUME NEW x1 \in Int, NEW x2 \in Int, NEW y1 \in Int, NEW y2 \in Int
      PROVE  AsBefore(e, Edges(Smaller(x1, x2), Smaller(y1, y2), Larger(x1, x2), Larger(y1, y2))) \in EdgeRects
  BY AsBeforeIs, EdgesAre, SmallerAndLarger
<1>2. e.left \in Int /\ e.top \in Int /\ e.right \in Int /\ e.bottom \in Int
  BY EdgeRectIs
<1> DEFINE h == (X + Y) \div 2
           d == (Y - X) \div 2
           g == (X - Y) \div 2
<1>3. h \in Int /\ d \in Int /\ g \in Int
  OBVIOUS
<1>4. /\ BoxAround(e, 1, X, Y)
           = AsBefore(e, Edges(Smaller(h - e.top, h - e.bottom), Smaller(d + e.left, d + e.right),
                               Larger(h - e.top, h - e.bottom), Larger(d + e.left, d + e.right)))
      /\ BoxAround(e, 3, X, Y)
           = AsBefore(e, Edges(Smaller(g + e.top, g + e.bottom), Smaller(h - e.left, h - e.right),
                               Larger(g + e.top, g + e.bottom), Larger(h - e.left, h - e.right)))
  BY QuarterTurns
<1> HIDE DEF h, d, g
<1>5. turns = 1 \/ turns = 2 \/ turns = 3
  OBVIOUS
<1>6. CASE turns = 1
  <2>1. h - e.top \in Int /\ h - e.bottom \in Int /\ d + e.left \in Int /\ d + e.right \in Int
    BY <1>2, <1>3
  <2> QED
    BY <1>1, <1>4, <1>6, <2>1
<1>7. CASE turns = 3
  <2>1. g + e.top \in Int /\ g + e.bottom \in Int /\ h - e.left \in Int /\ h - e.right \in Int
    BY <1>2, <1>3
  <2> QED
    BY <1>1, <1>4, <1>7, <2>1
<1>8. CASE turns = 2
  <2>1. X - e.left \in Int /\ X - e.right \in Int /\ Y - e.top \in Int /\ Y - e.bottom \in Int
    BY <1>2
  <2> QED
    BY <1>1, <1>8, <2>1, HalfTurn
<1> QED
  BY <1>5, <1>6, <1>7, <1>8

\* A half turn is none.
LEMMA HalfTurnIsNone ==
    ASSUME NEW e \in EdgeRects
    PROVE  Rotate(e, 2) = e
<1> DEFINE X == e.left + e.right
           Y == e.top + e.bottom
           x1 == X - e.left
           x2 == X - e.right
           y1 == Y - e.top
           y2 == Y - e.bottom
           box == Edges(Smaller(x1, x2), Smaller(y1, y2), Larger(x1, x2), Larger(y1, y2))
<1>1. /\ e.left \in Int /\ e.top \in Int /\ e.right \in Int /\ e.bottom \in Int
      /\ X \in Int /\ Y \in Int
  BY EdgeRectIs
<1>2. Rotate(e, 2) = AsBefore(e, box)
  BY <1>1, HalfTurn DEF Rotate
<1>3. x1 = e.right /\ x2 = e.left /\ y1 = e.bottom /\ y2 = e.top
  BY <1>1
<1>3a. x1 \in Int /\ x2 \in Int /\ y1 \in Int /\ y2 \in Int
  BY <1>1
<1> HIDE DEF x1, x2, y1, y2
<1>4. /\ box \in EdgeRects /\ box.left = Smaller(x1, x2) /\ box.right = Larger(x1, x2)
      /\ box.top = Smaller(y1, y2) /\ box.bottom = Larger(y1, y2)
  BY <1>3a, BoxMade
<1> HIDE DEF box
<1> DEFINE f == AsBefore(e, box)
<1>5. /\ f \in EdgeRects /\ f.left = e.left /\ f.right = e.right /\ f.top = e.top /\ f.bottom = e.bottom
  BY <1>1, <1>3, <1>4, AsBeforeIs DEF Smaller, Larger
<1> HIDE DEF f
<1>6. f = e
  BY <1>5, EdgeRectIs, SameEdges
<1> QED
  BY <1>2, <1>6 DEF f

\* What the canonical form of a rectangle is.
LEMMA CanonicalIs ==
    ASSUME NEW e \in EdgeRects
    PROVE  /\ Canonical(e) \in EdgeRects
           /\ Canonical(e).left = Smaller(e.left, e.right) /\ Canonical(e).right = Larger(e.left, e.right)
           /\ Canonical(e).top = Smaller(e.top, e.bottom) /\ Canonical(e).bottom = Larger(e.top, e.bottom)
           /\ Canonical(e).left <= Canonical(e).right /\ Canonical(e).top <= Canonical(e).bottom
<1>1. e.left \in Int /\ e.top \in Int /\ e.right \in Int /\ e.bottom \in Int
  BY EdgeRectIs
<1> DEFINE x1 == e.left
           x2 == e.right
           y1 == e.top
           y2 == e.bottom
           c == Canonical(e)
<1>2. x1 \in Int /\ x2 \in Int /\ y1 \in Int /\ y2 \in Int
  BY <1>1
<1>3. c = Edges(Smaller(x1, x2), Smaller(y1, y2), Larger(x1, x2), Larger(y1, y2))
  BY DEF Canonical
<1> HIDE DEF x1, x2, y1, y2, c
<1>4. /\ c \in EdgeRects /\ c.left = Smaller(x1, x2) /\ c.right = Larger(x1, x2)
      /\ c.top = Smaller(y1, y2) /\ c.bottom = Larger(y1, y2)
      /\ c.left <= c.right /\ c.top <= c.bottom
  BY <1>2, <1>3, BoxMade
<1> QED
  BY <1>4 DEF x1, x2, y1, y2, c

\* Inverting changes nothing of the canonical form.
LEMMA CanonicalOfInverted ==
    ASSUME NEW e \in EdgeRects, NEW box \in EdgeRects
    PROVE  Canonical(AsBefore(e, box)) = Canonical(box)
<1> DEFINE f == AsBefore(e, box)
<1>1. f \in EdgeRects
  BY AsBeforeIs
<1>2. /\ box.left \in Int /\ box.top \in Int /\ box.right \in Int /\ box.bottom \in Int
  BY EdgeRectIs
<1>3. /\ f.left = IF e.left > e.right THEN box.right ELSE box.left
      /\ f.right = IF e.left > e.right THEN box.left ELSE box.right
      /\ f.top = IF e.top > e.bottom THEN box.bottom ELSE box.top
      /\ f.bottom = IF e.top > e.bottom THEN box.top ELSE box.bottom
  BY AsBeforeIs
<1> HIDE DEF f
<1>4. /\ Smaller(f.left, f.right) = Smaller(box.left, box.right)
      /\ Larger(f.left, f.right) = Larger(box.left, box.right)
      /\ Smaller(f.top, f.bottom) = Smaller(box.top, box.bottom)
      /\ Larger(f.top, f.bottom) = Larger(box.top, box.bottom)
  BY <1>2, <1>3 DEF Smaller, Larger
<1>5. Canonical(f) = Canonical(box)
  BY <1>4 DEF Canonical
<1> QED
  BY <1>5 DEF f

\* Half the sum and half the difference of two numbers of one parity.
LEMMA Halves ==
    ASSUME NEW X \in Int, NEW Y \in Int, (X + Y) % 2 = 0
    PROVE  /\ (X + Y) \div 2 \in Int /\ 2 * ((X + Y) \div 2) = X + Y
           /\ (X - Y) \div 2 = (X + Y) \div 2 - Y
           /\ (Y - X) \div 2 = (X + Y) \div 2 - X
<1> DEFINE h == (X + Y) \div 2
<1>1. h \in Int /\ 2 * h = X + Y
  OBVIOUS
<1>2. X - Y = 2 * (h - Y) /\ Y - X = 2 * (h - X)
  BY <1>1
<1>3. \A k \in Int : (2 * k) \div 2 = k
  OBVIOUS
<1>4. h - Y \in Int /\ h - X \in Int
  BY <1>1
<1> QED
  BY <1>1, <1>2, <1>3, <1>4

\* Three quarter turns and a fourth are none, but for an inversion that may be lost.
LEMMA FourTurnsAreNone ==
    ASSUME NEW e \in EdgeRects, OnGrid(1, e.left + e.right, e.top + e.bottom)
    PROVE  Canonical(Rotate(Rotate(e, 3), 1)) = Canonical(e)
<1> DEFINE X == e.left + e.right
           Y == e.top + e.bottom
           h == (X + Y) \div 2
           d == (Y - X) \div 2
           g == (X - Y) \div 2
<1>1. /\ e.left \in Int /\ e.top \in Int /\ e.right \in Int /\ e.bottom \in Int
      /\ X \in Int /\ Y \in Int /\ (X + Y) % 2 = 0
  BY EdgeRectIs DEF OnGrid
<1>2. h \in Int /\ g = h - Y /\ d = h - X /\ 2 * h = X + Y
  BY <1>1, Halves
<1> DEFINE x1 == g + e.top
           x2 == g + e.bottom
           y1 == h - e.left
           y2 == h - e.right
           box == Edges(Smaller(x1, x2), Smaller(y1, y2), Larger(x1, x2), Larger(y1, y2))
           f == Rotate(e, 3)
<1>3. f = AsBefore(e, box)
  BY <1>1, QuarterTurns DEF Rotate
<1>4. \A p \in EdgeRects : p.left + p.right = X /\ p.top + p.bottom = Y =>
        Rotate(p, 1)
          = AsBefore(p, Edges(Smaller(h - p.top, h - p.bottom), Smaller(d + p.left, d + p.right),
                              Larger(h - p.top, h - p.bottom), Larger(d + p.left, d + p.right)))
  BY <1>1, QuarterTurns DEF Rotate
<1> HIDE DEF h, d, g
<1>5. x1 \in Int /\ x2 \in Int /\ y1 \in Int /\ y2 \in Int
  BY <1>1, <1>2
<1> HIDE DEF X, Y
<1>6. X = e.left + e.right /\ Y = e.top + e.bottom
  BY DEF X, Y
<1>7. x1 + x2 = (g + g) + Y /\ y1 + y2 = (h + h) - X /\ g \in Int
  <2>1. g \in Int
    BY <1>1, <1>2
  <2>2. \A p, q, r \in Int : (p + q) + (p + r) = (p + p) + (q + r) /\ (p - q) + (p - r) = (p + p) - (q + r)
    OBVIOUS
  <2>3. x1 + x2 = (g + g) + (e.top + e.bottom) /\ y1 + y2 = (h + h) - (e.left + e.right)
    BY <1>1, <1>2, <2>1, <2>2
  <2> QED
    BY <1>6, <2>1, <2>3
<1>8. x1 + x2 = X /\ y1 + y2 = Y
  BY <1>1, <1>2, <1>7
<1> HIDE DEF x1, x2, y1, y2
<1>9. /\ box \in EdgeRects /\ box.left = Smaller(x1, x2) /\ box.right = Larger(x1, x2)
      /\ box.top = Smaller(y1, y2) /\ box.bottom = Larger(y1, y2)
  BY <1>5, BoxMade
<1> HIDE DEF box
<1>10. box.left + box.right = X /\ box.top + box.bottom = Y
  BY <1>5, <1>8, <1>9 DEF Smaller, Larger
<1>11. /\ f \in EdgeRects /\ f.left + f.right = X /\ f.top + f.bottom = Y
       /\ {f.left, f.right} = {x1, x2} /\ {f.top, f.bottom} = {y1, y2}
  <2>1. /\ f \in EdgeRects /\ f.left + f.right = box.left + box.right /\ f.top + f.bottom = box.top + box.bottom
        /\ {f.left, f.right} = {box.left, box.right} /\ {f.top, f.bottom} = {box.top, box.bottom}
    <3> HIDE DEF f
    <3> QED
      BY <1>3, <1>9, AsBeforeIs
  <2>2. {box.left, box.right} = {x1, x2} /\ {box.top, box.bottom} = {y1, y2}
    BY <1>9 DEF Smaller, Larger
  <2> HIDE DEF f
  <2> QED
    BY <1>10, <2>1, <2>2
<1> HIDE DEF f
<1> DEFINE u1 == h - f.top
           u2 == h - f.bottom
           v1 == d + f.left
           v2 == d + f.right
           back == Edges(Smaller(u1, u2), Smaller(v1, v2), Larger(u1, u2), Larger(v1, v2))
<1>12. Rotate(f, 1) = AsBefore(f, back)
  BY <1>4, <1>11
<1>13. {u1, u2} = {e.left, e.right} /\ {v1, v2} = {e.top, e.bottom}
  <2>1. /\ (f.left = x1 /\ f.right = x2) \/ (f.left = x2 /\ f.right = x1)
        /\ (f.top = y1 /\ f.bottom = y2) \/ (f.top = y2 /\ f.bottom = y1)
    BY <1>11
  <2>2. h - y1 = e.left /\ h - y2 = e.right
    BY <1>1, <1>2 DEF y1, y2
  <2>3. d + x1 = e.top /\ d + x2 = e.bottom
    <3>1. d + g = 0
      BY <1>1, <1>2, <1>7
    <3> QED
      <4>1. d \in Int
        BY <1>1, <1>2
      <4>2. \A p, q, r \in Int : p + q = 0 => p + (q + r) = r
        OBVIOUS
      <4> QED
        BY <1>1, <1>7, <3>1, <4>1, <4>2 DEF x1, x2
  <2> QED
    BY <2>1, <2>2, <2>3
<1> HIDE DEF u1, u2, v1, v2
<1>14. /\ Smaller(u1, u2) = Smaller(e.left, e.right) /\ Larger(u1, u2) = Larger(e.left, e.right)
       /\ Smaller(v1, v2) = Smaller(e.top, e.bottom) /\ Larger(v1, v2) = Larger(e.top, e.bottom)
  <2>1. /\ (u1 = e.left /\ u2 = e.right) \/ (u1 = e.right /\ u2 = e.left)
        /\ (v1 = e.top /\ v2 = e.bottom) \/ (v1 = e.bottom /\ v2 = e.top)
    BY <1>13
  <2> QED
    BY <1>1, <2>1 DEF Smaller, Larger
<1>15. back = Canonical(e)
  BY <1>14 DEF Canonical
<1> HIDE DEF back
<1>16. /\ Canonical(e) \in EdgeRects
       /\ Canonical(AsBefore(f, Canonical(e))) = Canonical(Canonical(e))
  BY <1>11, CanonicalIs, CanonicalOfInverted
<1>17. Canonical(Canonical(e)) = Canonical(e)
  <2> DEFINE c == Canonical(e)
  <2>1. /\ c \in EdgeRects /\ c.left = Smaller(e.left, e.right) /\ c.right = Larger(e.left, e.right)
        /\ c.top = Smaller(e.top, e.bottom) /\ c.bottom = Larger(e.top, e.bottom)
    BY CanonicalIs
  <2>2. c.left <= c.right /\ c.top <= c.bottom
    BY CanonicalIs
  <2> HIDE DEF c
  <2>3. Canonical(c) = Edges(c.left, c.top, c.right, c.bottom)
    BY <2>1, <2>2, EdgeRectIs DEF Canonical, Smaller, Larger
  <2>4. Canonical(c) = c
    BY <2>1, <2>3, EdgeRectIs DEF Parts
  <2> QED
    BY <2>4 DEF c
<1> QED
  BY <1>12, <1>15, <1>16, <1>17 DEF f

\* A point of the grid is in a rectangle when it is between the edges.
LEMMA PointsAre ==
    ASSUME NEW e \in EdgeRects, NEW p \in Grid \X Grid
    PROVE  LET c == Canonical(e)
           IN p \in Points(e) <=> c.left <= p[1] /\ p[1] <= c.right /\ c.top <= p[2] /\ p[2] <= c.bottom
<1>1. p[1] \in Grid /\ p[2] \in Grid /\ p[1] \in Int /\ p[2] \in Int
  BY GeometryAssumption
<1>2. LET c == Canonical(e) IN c.left \in Int /\ c.right \in Int /\ c.top \in Int /\ c.bottom \in Int
  BY CanonicalIs, EdgeRectIs
<1> QED
  BY <1>1, <1>2 DEF Points, ContainsPoint

\* Between the edges of e and between those of f is between the edges of both.
LEMMA BothContain ==
    ASSUME NEW m \in Int, NEW n \in Int, NEW k \in Int
    PROVE  /\ m <= k /\ n <= k <=> Larger(m, n) <= k
           /\ k <= m /\ k <= n <=> k <= Smaller(m, n)
           /\ k <= m \/ k <= n <=> k <= Larger(m, n)
           /\ m <= k \/ n <= k <=> Smaller(m, n) <= k
  BY DEF Smaller, Larger

\* The corners of a canonical rectangle, and of two that intersect, are points of the grid.
LEMMA CanonicalOnGrid ==
    ASSUME NEW e, OnTheGrid(e)
    PROVE  LET c == Canonical(e)
           IN /\ e \in EdgeRects /\ c \in EdgeRects
              /\ c.left \in Grid /\ c.top \in Grid /\ c.right \in Grid /\ c.bottom \in Grid
              /\ c.left <= c.right /\ c.top <= c.bottom
<1>1. e \in EdgeRects /\ e.left \in Grid /\ e.top \in Grid /\ e.right \in Grid /\ e.bottom \in Grid
  BY GridIsInt
<1>2. \A m, n \in Grid : Smaller(m, n) \in Grid /\ Larger(m, n) \in Grid
  BY DEF Smaller, Larger
<1> QED
  BY <1>1, <1>2, CanonicalIs

\* Two rectangles, their common points and the points of their union.
LEMMA TwoRectangles ==
    ASSUME NEW e, OnTheGrid(e), NEW f, OnTheGrid(f)
    PROVE  LET common == Points(e) \cap Points(f)
           IN /\ Intersects(e, f) <=> common # {}
              /\ common # {} => Points(Intersection(e, f)) = common
              /\ Points(e) \cup Points(f) \subseteq Points(Unite(e, f))
              /\ \A g : OnTheGrid(g) /\ Points(e) \cup Points(f) \subseteq Points(g)
                          => Points(Unite(e, f)) \subseteq Points(g)
<1> DEFINE c == Canonical(e)
           d == Canonical(f)
           common == Points(e) \cap Points(f)
           i == Edges(Larger(c.left, d.left), Larger(c.top, d.top), Smaller(c.right, d.right), Smaller(c.bottom, d.bottom))
           u == Unite(e, f)
<1>1. /\ e \in EdgeRects /\ f \in EdgeRects
      /\ c.left \in Grid /\ c.top \in Grid /\ c.right \in Grid /\ c.bottom \in Grid
      /\ d.left \in Grid /\ d.top \in Grid /\ d.right \in Grid /\ d.bottom \in Grid
      /\ c.left <= c.right /\ c.top <= c.bottom /\ d.left <= d.right /\ d.top <= d.bottom
  BY CanonicalOnGrid
<1>2. /\ c.left \in Int /\ c.top \in Int /\ c.right \in Int /\ c.bottom \in Int
      /\ d.left \in Int /\ d.top \in Int /\ d.right \in Int /\ d.bottom \in Int
  BY <1>1, GeometryAssumption
<1>3. \A p \in Grid \X Grid :
        /\ p \in Points(e) <=> c.left <= p[1] /\ p[1] <= c.right /\ c.top <= p[2] /\ p[2] <= c.bottom
        /\ p \in Points(f) <=> d.left <= p[1] /\ p[1] <= d.right /\ d.top <= p[2] /\ p[2] <= d.bottom
  BY <1>1, PointsAre
<1>4. /\ Points(e) \subseteq Grid \X Grid /\ Points(f) \subseteq Grid \X Grid
      /\ \A p \in Grid \X Grid : p[1] \in Int /\ p[2] \in Int /\ p[1] \in Grid /\ p[2] \in Grid
  BY GeometryAssumption DEF Points
<1>5. Intersects(e, f) <=> /\ d.left <= c.right /\ c.left <= d.right
                           /\ d.top <= c.bottom /\ c.top <= d.bottom
  BY <1>2 DEF Intersects
<1>6. Intersects(e, f) => Intersection(e, f) = i
  BY DEF Intersection
<1>7. u = Edges(Smaller(c.left, d.left), Smaller(c.top, d.top), Larger(c.right, d.right), Larger(c.bottom, d.bottom))
  BY DEF Unite
<1> HIDE DEF c, d, u
<1>8. Intersects(e, f) <=> common # {}
  <2>1. ASSUME Intersects(e, f) PROVE common # {}
    <3> DEFINE x == Larger(c.left, d.left)
               y == Larger(c.top, d.top)
               p == <<x, y>>
    <3>1. x \in Grid /\ y \in Grid /\ x \in {c.left, d.left} /\ y \in {c.top, d.top}
          /\ c.left <= x /\ d.left <= x /\ c.top <= y /\ d.top <= y
      BY <1>1, <1>2, SmallerAndLarger
    <3>2. x <= c.right /\ x <= d.right /\ y <= c.bottom /\ y <= d.bottom
      BY <1>1, <1>2, <1>5, <2>1, <3>1
    <3> HIDE DEF x, y
    <3>3. p \in Grid \X Grid /\ p[1] = x /\ p[2] = y
      BY <3>1
    <3> HIDE DEF p
    <3>4. p \in Points(e) /\ p \in Points(f)
      BY <1>3, <3>1, <3>2, <3>3
    <3> QED
      BY <3>4
  <2>2. ASSUME common # {} PROVE Intersects(e, f)
    <3>1. PICK p \in Grid \X Grid : p \in Points(e) /\ p \in Points(f)
      BY <1>4, <2>2
    <3>2. p[1] \in Int /\ p[2] \in Int
      BY <1>4
    <3>3. /\ c.left <= p[1] /\ p[1] <= c.right /\ c.top <= p[2] /\ p[2] <= c.bottom
          /\ d.left <= p[1] /\ p[1] <= d.right /\ d.top <= p[2] /\ p[2] <= d.bottom
      BY <1>3, <3>1
    <3> QED
      BY <1>2, <1>5, <3>2, <3>3
  <2> QED
    BY <2>1, <2>2
<1> DEFINE il == Larger(c.left, d.left)
           it == Larger(c.top, d.top)
           ir == Smaller(c.right, d.right)
           ib == Smaller(c.bottom, d.bottom)
           ul == Smaller(c.left, d.left)
           ut == Smaller(c.top, d.top)
           ur == Larger(c.right, d.right)
           ub == Larger(c.bottom, d.bottom)
<1>9. /\ il \in Int /\ it \in Int /\ ir \in Int /\ ib \in Int
      /\ ul \in Int /\ ut \in Int /\ ur \in Int /\ ub \in Int
      /\ ul <= ur /\ ut <= ub
  BY <1>1, <1>2 DEF Smaller, Larger
<1>10. \A k \in Int : /\ il <= k <=> c.left <= k /\ d.left <= k
                      /\ it <= k <=> c.top <= k /\ d.top <= k
                      /\ k <= ir <=> k <= c.right /\ k <= d.right
                      /\ k <= ib <=> k <= c.bottom /\ k <= d.bottom
                      /\ ul <= k <=> c.left <= k \/ d.left <= k
                      /\ ut <= k <=> c.top <= k \/ d.top <= k
                      /\ k <= ur <=> k <= c.right \/ k <= d.right
                      /\ k <= ub <=> k <= c.bottom \/ k <= d.bottom
  BY <1>2, BothContain
<1>11. i = Edges(il, it, ir, ib) /\ u = Edges(ul, ut, ur, ub)
  BY <1>7
<1> HIDE DEF i
<1> USE DEF c, d
<1> HIDE DEF il, it, ir, ib, ul, ut, ur, ub, c, d
<1>12. ASSUME NEW l \in Int, NEW t \in Int, NEW r \in Int, NEW b \in Int, l <= r, t <= b,
              NEW e2, e2 = Edges(l, t, r, b)
       PROVE  /\ e2 \in EdgeRects
              /\ \A p \in Grid \X Grid :
                   p \in Points(e2) <=> l <= p[1] /\ p[1] <= r /\ t <= p[2] /\ p[2] <= b
  <2>1. /\ e2 \in EdgeRects /\ e2.left = l /\ e2.top = t /\ e2.right = r /\ e2.bottom = b
    BY <1>12, EdgesAre
  <2>2. /\ Canonical(e2).left = l /\ Canonical(e2).top = t
        /\ Canonical(e2).right = r /\ Canonical(e2).bottom = b
    BY <1>12, <2>1, CanonicalIs DEF Smaller, Larger
  <2> QED
    BY <2>1, <2>2, PointsAre
<1>13. ASSUME common # {} PROVE Points(Intersection(e, f)) = common
  <2>1. Intersection(e, f) = i
    BY <1>6, <1>8, <1>13
  <2>2. il <= ir /\ it <= ib
    <3>1. PICK p \in Grid \X Grid : p \in Points(e) /\ p \in Points(f)
      BY <1>4, <1>13
    <3>2. p[1] \in Int /\ p[2] \in Int
      BY <1>4
    <3>3. il <= p[1] /\ p[1] <= ir /\ it <= p[2] /\ p[2] <= ib
      BY <1>3, <1>10, <3>1, <3>2
    <3> QED
      BY <1>9, <3>2, <3>3
  <2>3. \A p \in Grid \X Grid : p \in Points(i) <=> il <= p[1] /\ p[1] <= ir /\ it <= p[2] /\ p[2] <= ib
    BY <1>9, <1>11, <1>12, <2>2
  <2>4. \A p \in Grid \X Grid : p \in Points(i) <=> p \in common
    BY <1>3, <1>4, <1>10, <2>3
  <2>5. Points(i) \subseteq Grid \X Grid
    BY DEF Points
  <2> QED
    BY <1>4, <2>1, <2>4, <2>5
<1>14. \A p \in Grid \X Grid : p \in Points(u) <=> ul <= p[1] /\ p[1] <= ur /\ ut <= p[2] /\ p[2] <= ub
  BY <1>9, <1>11, <1>12
<1>15. Points(e) \cup Points(f) \subseteq Points(u)
  BY <1>3, <1>4, <1>10, <1>14
<1>16. ASSUME NEW g, OnTheGrid(g), Points(e) \cup Points(f) \subseteq Points(g)
       PROVE  Points(u) \subseteq Points(g)
  <2> DEFINE k == Canonical(g)
  <2>1. g \in EdgeRects /\ k \in EdgeRects
    BY <1>16, CanonicalOnGrid
  <2>2. k.left \in Int /\ k.right \in Int /\ k.top \in Int /\ k.bottom \in Int
    BY <2>1, EdgeRectIs
  <2>3. \A p \in Grid \X Grid :
          p \in Points(g) <=> k.left <= p[1] /\ p[1] <= k.right /\ k.top <= p[2] /\ p[2] <= k.bottom
    BY <2>1, PointsAre
  <2> HIDE DEF k
  <2>4. /\ k.left <= c.left /\ c.right <= k.right /\ k.top <= c.top /\ c.bottom <= k.bottom
        /\ k.left <= d.left /\ d.right <= k.right /\ k.top <= d.top /\ d.bottom <= k.bottom
    <3>1. ASSUME NEW x \in Grid, NEW y \in Grid
          PROVE  /\ c.left <= x /\ x <= c.right /\ c.top <= y /\ y <= c.bottom =>
                      k.left <= x /\ x <= k.right /\ k.top <= y /\ y <= k.bottom
                 /\ d.left <= x /\ x <= d.right /\ d.top <= y /\ y <= d.bottom =>
                      k.left <= x /\ x <= k.right /\ k.top <= y /\ y <= k.bottom
      <4> DEFINE p == <<x, y>>
      <4>1. p \in Grid \X Grid /\ p[1] = x /\ p[2] = y
        OBVIOUS
      <4> HIDE DEF p
      <4>2. p \in Points(e) \/ p \in Points(f) => p \in Points(g)
        BY <1>16
      <4> QED
        BY <1>3, <2>3, <4>1, <4>2
    <3>4. c.left <= c.left /\ c.right <= c.right /\ c.top <= c.top /\ c.bottom <= c.bottom
      BY <1>2
    <3>5. d.left <= d.left /\ d.right <= d.right /\ d.top <= d.top /\ d.bottom <= d.bottom
      BY <1>2
    <3>6. k.left <= c.left /\ c.right <= k.right /\ k.top <= c.top /\ c.bottom <= k.bottom
      BY <1>1, <3>1, <3>4
    <3>7. k.left <= d.left /\ d.right <= k.right /\ k.top <= d.top /\ d.bottom <= k.bottom
      BY <1>1, <3>1, <3>5
    <3> QED
      BY <3>6, <3>7
  <2>5. k.left <= ul /\ ur <= k.right /\ k.top <= ut /\ ub <= k.bottom
    BY <1>2, <2>2, <2>4 DEF ul, ut, ur, ub, Smaller, Larger
  <2>6. ASSUME NEW p \in Points(u) PROVE p \in Points(g)
    <3>1. p \in Grid \X Grid
      BY DEF Points
    <3>2. p[1] \in Int /\ p[2] \in Int
      BY <1>4, <3>1
    <3>3. ul <= p[1] /\ p[1] <= ur /\ ut <= p[2] /\ p[2] <= ub
      BY <1>14, <3>1
    <3>4. k.left <= p[1] /\ p[1] <= k.right /\ k.top <= p[2] /\ p[2] <= k.bottom
      BY <1>9, <2>2, <2>5, <3>2, <3>3
    <3> QED
      BY <2>3, <3>1, <3>4
  <2> QED
    BY <2>6
<1> QED
  BY <1>8, <1>13, <1>15, <1>16 DEF u

\* On one axis: what moved outwards moves back, inverted or not.
LEMMA SideMovesBack ==
    ASSUME NEW p \in Int, NEW q \in Int, NEW m \in Nat, NEW n \in Nat, NEW a, NEW c,
           a = IF p > q THEN p + m ELSE p - m, c = IF p > q THEN q - n ELSE q + n
    PROVE  /\ (IF a < c THEN a + m ELSE a - m) = p
           /\ (IF a < c THEN c - n ELSE c + n) = q
<1>1. a \in Int /\ c \in Int
  OBVIOUS
<1>2. CASE p > q
  BY <1>1, <1>2
<1>3. CASE ~ (p > q)
  BY <1>1, <1>3
<1> QED
  BY <1>2, <1>3

\* The padding of a size undoes the margin of that size.
LEMMA PaddingUndoesMargin ==
    ASSUME NEW e \in EdgeRects, NEW l \in Nat, NEW t \in Nat, NEW r \in Nat, NEW b \in Nat
    PROVE  ShrinkBy(GrowBy(e, Edges(l, t, r, b)), Edges(l, t, r, b)) = e
<1> DEFINE m == Edges(l, t, r, b)
           f == GrowBy(e, m)
           g == ShrinkBy(f, m)
<1>1. e.left \in Int /\ e.top \in Int /\ e.right \in Int /\ e.bottom \in Int
  BY EdgeRectIs
<1>2. m.left = l /\ m.top = t /\ m.right = r /\ m.bottom = b
  BY EdgesAre
<1> HIDE DEF m
<1>3. /\ f.left = IF e.left > e.right THEN e.left + l ELSE e.left - l
      /\ f.top = IF e.top > e.bottom THEN e.top + t ELSE e.top - t
      /\ f.right = IF e.left > e.right THEN e.right - r ELSE e.right + r
      /\ f.bottom = IF e.top > e.bottom THEN e.bottom - b ELSE e.bottom + b
  BY <1>2, EdgesAre DEF GrowBy
<1> HIDE DEF f
<1>4. /\ g.left = IF f.left < f.right THEN f.left + l ELSE f.left - l
      /\ g.top = IF f.top < f.bottom THEN f.top + t ELSE f.top - t
      /\ g.right = IF f.left < f.right THEN f.right - r ELSE f.right + r
      /\ g.bottom = IF f.top < f.bottom THEN f.bottom - b ELSE f.bottom + b
      /\ Parts(g)
  BY <1>2, EdgesAre DEF ShrinkBy
<1> HIDE DEF g
<1>5. ASSUME NEW p \in Int, NEW q \in Int, NEW j \in Nat, NEW k \in Nat, NEW x, NEW y,
             x = IF p > q THEN p + j ELSE p - j, y = IF p > q THEN q - k ELSE q + k
      PROVE  /\ (IF x < y THEN x + j ELSE x - j) = p
             /\ (IF x < y THEN y - k ELSE y + k) = q
  BY <1>5, SideMovesBack
<1> DEFINE p1 == e.left  q1 == e.right  p2 == e.top  q2 == e.bottom
           x1 == f.left  y1 == f.right  x2 == f.top  y2 == f.bottom
<1>6. p1 \in Int /\ q1 \in Int /\ p2 \in Int /\ q2 \in Int
  BY <1>1
<1>8. /\ x1 = IF p1 > q1 THEN p1 + l ELSE p1 - l
      /\ y1 = IF p1 > q1 THEN q1 - r ELSE q1 + r
      /\ x2 = IF p2 > q2 THEN p2 + t ELSE p2 - t
      /\ y2 = IF p2 > q2 THEN q2 - b ELSE q2 + b
  BY <1>3
<1>9. /\ g.left = IF x1 < y1 THEN x1 + l ELSE x1 - l
      /\ g.right = IF x1 < y1 THEN y1 - r ELSE y1 + r
      /\ g.top = IF x2 < y2 THEN x2 + t ELSE x2 - t
      /\ g.bottom = IF x2 < y2 THEN y2 - b ELSE y2 + b
  BY <1>4
<1> HIDE DEF p1, q1, p2, q2, x1, y1, x2, y2
<1>10. g.left = p1 /\ g.right = q1
  BY <1>5, <1>6, <1>8, <1>9
<1>11. g.top = p2 /\ g.bottom = q2
  BY <1>5, <1>6, <1>8, <1>9
<1>7. g = e
  BY <1>4, <1>10, <1>11, EdgeRectIs, SameEdges DEF p1, q1, p2, q2
<1> QED
  BY <1>7 DEF f, g, m

\* Every call leaves its edges on the grid.
EdgesInv == OnTheGrid(edges)

\* geometry.h: the edges stay on the grid, whatever is done to them.
THEOREM EdgesInvHolds == EdgesSpec => []EdgesInv
<1>1. GeometryInit => EdgesInv
  BY GeometryAssumption DEF GeometryInit, EdgesInv, OnTheGrid, Edges
<1>2. EdgesInv /\ [EdgesNext]_edges => EdgesInv'
  <2> SUFFICES ASSUME EdgesInv, [EdgesNext]_edges
               PROVE  EdgesInv'
    OBVIOUS
  <2>1. ASSUME NEW e, Parts(e), EdgesBecome(e)
        PROVE  EdgesInv'
    BY <2>1 DEF EdgesBecome, EdgesInv, OnTheGrid, Parts, Edges
  <2>2. \A l, t, r, b : Parts(Edges(l, t, r, b))
    BY EdgesAre
  <2>3. \A e : Parts(Canonical(e)) /\ Parts(FlipH(e)) /\ Parts(FlipV(e))
    BY <2>2 DEF Canonical, FlipH, FlipV
  <2>4. \A e, m, n : Parts(Shift(e, m, n)) /\ Parts(SetSize(e, m, n))
    BY <2>2 DEF Shift, SetSize
  <2>5. \A e, m : Parts(GrowBy(e, m)) /\ Parts(ShrinkBy(e, m)) /\ Parts(Unite(e, m)) /\ Parts(Intersection(e, m))
    BY <2>2 DEF GrowBy, ShrinkBy, Unite, Intersection
  <2>6. \A turns \in 1 .. 3 : Parts(Rotate(edges, turns))
    <3>1. edges \in EdgeRects /\ edges.left + edges.right \in Int /\ edges.top + edges.bottom \in Int
      BY GridIsInt, EdgeRectIs DEF EdgesInv
    <3> QED
      BY <3>1, BoxIsEdges, EdgeRectIs DEF Rotate
  <2>7. CASE UNCHANGED edges
    BY <2>7 DEF EdgesInv, OnTheGrid
  <2>8. CASE EdgesNext
    BY <2>1, <2>2, <2>3, <2>4, <2>5, <2>6, <2>8 DEF EdgesNext
  <2> QED
    BY <2>7, <2>8
<1> QED
  BY <1>1, <1>2, PTL DEF EdgesSpec

\* On any grid a rectangle is the set of its points: for intersections, unions,
\* flips and turns; and a padding undoes a margin.
THEOREM EdgesAreAlwaysPoints == EdgesSpec => []EdgesArePoints
<1>1. EdgesInv => EdgesArePoints
  <2> SUFFICES ASSUME EdgesInv
               PROVE  EdgesArePoints
    OBVIOUS
  <2>1. edges \in EdgeRects /\ OnTheGrid(edges)
    BY GridIsInt DEF EdgesInv
  <2>2. edges.left \in Int /\ edges.top \in Int /\ edges.right \in Int /\ edges.bottom \in Int
    BY <2>1, EdgeRectIs
  <2>3. Points(FlipH(edges)) = Points(edges)
    <3>1. Canonical(FlipH(edges)) = Canonical(edges)
      BY <2>2, EdgesAre DEF FlipH, Canonical, Smaller, Larger
    <3> QED
      BY <3>1 DEF Points, ContainsPoint
  <2>4. FlipH(FlipV(FlipH(FlipV(edges)))) = edges
    BY <2>1 DEF FlipH, FlipV, Edges, EdgeRects
  <2>5. \A f \in Others : OnTheGrid(f)
    BY GeometryAssumption DEF OnTheGrid
  <2>6. \A l, t, r, b \in Borders : ShrinkBy(GrowBy(edges, Edges(l, t, r, b)), Edges(l, t, r, b)) = edges
    <3>1. \A n \in Borders : n \in Nat
      BY GeometryAssumption
    <3> QED
      BY <2>1, <3>1, PaddingUndoesMargin
  <2>7. ASSUME NEW f \in Others
        PROVE  LET common == Points(edges) \cap Points(f)
               IN /\ Intersects(edges, f) <=> common # {}
                  /\ common # {} => Points(Intersection(edges, f)) = common
                  /\ Points(edges) \cup Points(f) \subseteq Points(Unite(edges, f))
                  /\ \A g \in Others :
                       Points(edges) \cup Points(f) \subseteq Points(g) => Points(Unite(edges, f)) \subseteq Points(g)
    BY <2>1, <2>5, TwoRectangles
  <2>8. Rotate(edges, 2) = edges
    BY <2>1, HalfTurnIsNone
  <2>9. OnGrid(1, edges.left + edges.right, edges.top + edges.bottom) =>
          Canonical(Rotate(Rotate(edges, 3), 1)) = Canonical(edges)
    BY <2>1, FourTurnsAreNone
  <2> QED
    BY <2>3, <2>4, <2>6, <2>7, <2>8, <2>9 DEF EdgesArePoints
<1> QED
  BY <1>1, EdgesInvHolds, PTL

-----------------------------------------------------------------------------
(* Rect *)
Rects == [x : Int, y : Int, width : Int, height : Int]
Sides(r) == r = Rectangle(r.x, r.y, r.width, r.height)

LEMMA RectangleIs ==
    ASSUME NEW x, NEW y, NEW w, NEW h
    PROVE  LET r == Rectangle(x, y, w, h)
           IN /\ r.x = x /\ r.y = y /\ r.width = w /\ r.height = h /\ Sides(r)
              /\ (x \in Int /\ y \in Int /\ w \in Int /\ h \in Int => r \in Rects)
  BY DEF Rectangle, Sides, Rects

LEMMA RectIs ==
    ASSUME NEW r \in Rects
    PROVE  r.x \in Int /\ r.y \in Int /\ r.width \in Int /\ r.height \in Int /\ Sides(r)
  BY DEF Rects, Sides, Rectangle

LEMMA CornersAre ==
    ASSUME NEW r \in Rects
    PROVE  /\ Corners(r) \in EdgeRects /\ Parts(Corners(r))
           /\ Corners(r).left = r.x /\ Corners(r).right = r.x + r.width
           /\ Corners(r).top = r.y /\ Corners(r).bottom = r.y + r.height
<1>1. r.x \in Int /\ r.y \in Int /\ r.x + r.width \in Int /\ r.y + r.height \in Int
  BY RectIs
<1> QED
  BY <1>1, EdgesAre DEF Corners

LEMMA FromEdgesIs ==
    ASSUME NEW e \in EdgeRects
    PROVE  FromEdges(e) \in Rects /\ Corners(FromEdges(e)) = e
<1> DEFINE r == FromEdges(e)
<1>1. e.left \in Int /\ e.top \in Int /\ e.right \in Int /\ e.bottom \in Int /\ Parts(e)
  BY EdgeRectIs
<1>2. e.right - e.left \in Int /\ e.bottom - e.top \in Int
  BY <1>1
<1>3. /\ r \in Rects /\ r.x = e.left /\ r.y = e.top
      /\ r.width = e.right - e.left /\ r.height = e.bottom - e.top
  BY <1>1, <1>2, RectangleIs DEF FromEdges
<1> HIDE DEF r
<1>4. r.x + r.width = e.right /\ r.y + r.height = e.bottom
  BY <1>1, <1>3
<1>5. Corners(r) = e
  BY <1>1, <1>3, <1>4 DEF Corners, Parts
<1> QED
  BY <1>3, <1>5 DEF r

\* The extent and the centre of a rectangle are whole.
LEMMA MagnitudeIs ==
    ASSUME NEW n \in Int
    PROVE  Magnitude(n) \in Nat /\ (n >= 0 => Magnitude(n) = n)
  BY DEF Magnitude

LEMMA ExtentIs ==
    ASSUME NEW r \in Rects
    PROVE  CanonicalRect(r) \in Rects /\ Extent(r) \in EdgeRects
<1>1. CanonicalRect(r) \in Rects
  BY RectIs, MagnitudeIs, RectangleIs DEF CanonicalRect
<1> QED
  BY <1>1, CornersAre DEF Extent

LEMMA TogetherAreEdges ==
    ASSUME NEW e \in EdgeRects, NEW f \in EdgeRects
    PROVE  Intersection(e, f) \in EdgeRects /\ Unite(e, f) \in EdgeRects
<1> DEFINE c == Canonical(e)
           d == Canonical(f)
<1>1. c \in EdgeRects /\ d \in EdgeRects
  BY CanonicalIs
<1>2. /\ c.left \in Int /\ c.top \in Int /\ c.right \in Int /\ c.bottom \in Int
      /\ d.left \in Int /\ d.top \in Int /\ d.right \in Int /\ d.bottom \in Int
  BY <1>1, EdgeRectIs
<1> HIDE DEF c, d
<1> DEFINE i == Edges(Larger(c.left, d.left), Larger(c.top, d.top),
                      Smaller(c.right, d.right), Smaller(c.bottom, d.bottom))
           u == Edges(Smaller(c.left, d.left), Smaller(c.top, d.top),
                      Larger(c.right, d.right), Larger(c.bottom, d.bottom))
<1>3. i \in EdgeRects /\ u \in EdgeRects /\ Edges(0, 0, 0, 0) \in EdgeRects
  <2>1. /\ Larger(c.left, d.left) \in Int /\ Larger(c.top, d.top) \in Int
        /\ Smaller(c.right, d.right) \in Int /\ Smaller(c.bottom, d.bottom) \in Int
        /\ Smaller(c.left, d.left) \in Int /\ Smaller(c.top, d.top) \in Int
        /\ Larger(c.right, d.right) \in Int /\ Larger(c.bottom, d.bottom) \in Int
    BY <1>2, SmallerAndLarger
  <2> QED
    BY <2>1 DEF Edges, EdgeRects
<1>4. Unite(e, f) = u
  BY DEF Unite, c, d
<1>5. Intersection(e, f) \in {i, Edges(0, 0, 0, 0)}
  BY DEF Intersection, c, d
<1> HIDE DEF i, u
<1>6. \A g \in {i, Edges(0, 0, 0, 0)} : g \in EdgeRects
  BY <1>3
<1> QED
  BY <1>3, <1>4, <1>5, <1>6

LEMMA RotatedIs ==
    ASSUME NEW r \in Rects, NEW turns \in 1 .. 3
    PROVE  /\ RotateRect(r, turns) \in Rects
           /\ ~ IsInverted(r) => Corners(RotateRect(r, turns)) = Rotate(Corners(r), turns)
<1> DEFINE e == Corners(r)
           X == 2 * r.x + Magnitude(r.width)
           Y == 2 * r.y + Magnitude(r.height)
           b == BoxAround(e, turns, X, Y)
<1>1. r.x \in Int /\ r.y \in Int /\ r.width \in Int /\ r.height \in Int
  BY RectIs
<1>2. Magnitude(r.width) \in Nat /\ Magnitude(r.height) \in Nat
  BY <1>1, MagnitudeIs
<1>3. X \in Int /\ Y \in Int
  BY <1>1, <1>2
<1>4. /\ e \in EdgeRects /\ e.left = r.x /\ e.right = r.x + r.width
      /\ e.top = r.y /\ e.bottom = r.y + r.height
  BY CornersAre
<1>5. ~ IsInverted(r) => X = e.left + e.right /\ Y = e.top + e.bottom
  BY <1>1, <1>4 DEF IsInverted, Magnitude
<1>6. RotateRect(r, turns) = FromEdges(b)
  BY DEF RotateRect
<1>7. ~ IsInverted(r) => b = Rotate(e, turns)
  BY <1>5 DEF Rotate
<1> HIDE DEF X, Y, e
<1>8. b \in EdgeRects
  BY <1>3, <1>4, BoxIsEdges
<1> HIDE DEF b
<1>9. FromEdges(b) \in Rects /\ Corners(FromEdges(b)) = b
  BY <1>8, FromEdgesIs
<1> QED
  BY <1>6, <1>7, <1>9 DEF e

\* Every call leaves whole numbers.
RectInv == rect \in Rects

\* geometry.h: the numbers of a Rect stay whole, whatever is done to it.
THEOREM RectInvHolds == RectSpec => []RectInv
<1>1. GeometryInit => RectInv
  BY RectangleIs DEF GeometryInit, RectInv
<1>2. RectInv /\ [RectNext]_rect => RectInv'
  <2> SUFFICES ASSUME RectInv, [RectNext]_rect
               PROVE  RectInv'
    OBVIOUS
  <2>1. ASSUME NEW r \in Rects, RectBecomes(r)
        PROVE  RectInv'
    BY <2>1 DEF RectBecomes, RectInv
  <2>2. rect.x \in Int /\ rect.y \in Int /\ rect.width \in Int /\ rect.height \in Int
    BY RectIs DEF RectInv
  <2>3. CanonicalRect(rect) \in Rects /\ Extent(rect) \in EdgeRects
    BY ExtentIs DEF RectInv
  <2>4. FlipRectH(rect) \in Rects /\ FlipRectV(rect) \in Rects /\ Invert(rect) \in Rects
    <3>1. /\ rect.x + rect.width \in Int /\ rect.y + rect.height \in Int
          /\ - rect.width \in Int /\ - rect.height \in Int
      BY <2>2
    <3> QED
      BY <2>2, <3>1, RectangleIs DEF FlipRectH, FlipRectV, Invert
  <2>5. \A dx, dy \in Shifts : ShiftRect(rect, dx, dy) \in Rects
    <3>1. \A dx, dy \in Shifts : rect.x + dx \in Int /\ rect.y + dy \in Int
      BY <2>2, GeometryAssumption
    <3> QED
      BY <2>2, <3>1, RectangleIs DEF ShiftRect
  <2>6. \A w, h \in Lengths : Rectangle(rect.x, rect.y, w, h) \in Rects
    BY <2>2, GeometryAssumption, RectangleIs
  <2>7. \A px, py \in Grid :
          Rectangle(px, py, rect.width, rect.height) \in Rects /\ SetBottomRight(rect, px, py) \in Rects
    <3>1. \A px, py \in Grid : /\ px \in Int /\ py \in Int
                              /\ px - rect.x \in Int /\ py - rect.y \in Int
      BY <2>2, GeometryAssumption
    <3> QED
      BY <2>2, <3>1, RectangleIs DEF SetBottomRight
  <2>8. \A turns \in 1 .. 3 : RotateRect(rect, turns) \in Rects
    BY RotatedIs DEF RectInv
  <2>9. \A f \in Others : /\ FromEdges(Intersection(Extent(rect), f)) \in Rects
                          /\ FromEdges(Unite(Extent(rect), f)) \in Rects
    <3>1. \A f \in Others : f \in EdgeRects
      BY GeometryAssumption DEF EdgeRects
    <3> QED
      BY <2>3, <3>1, TogetherAreEdges, FromEdgesIs
  <2>10. CASE UNCHANGED rect
    BY <2>10 DEF RectInv
  <2>11. CASE RectNext
    BY <2>1, <2>3, <2>4, <2>5, <2>6, <2>7, <2>8, <2>9, <2>11 DEF RectNext
  <2> QED
    BY <2>10, <2>11
<1> QED
  BY <1>1, <1>2, PTL DEF RectSpec

\* The calls of a Rect are those of the EdgeRect between its corners.
THEOREM RectsAreAlwaysEdges == RectSpec => []RectsAreEdges
<1>1. RectInv => RectsAreEdges
  <2> SUFFICES ASSUME RectInv
               PROVE  RectsAreEdges
    OBVIOUS
  <2> DEFINE e == Corners(rect)
  <2>1. /\ rect.x \in Int /\ rect.y \in Int /\ rect.width \in Int /\ rect.height \in Int
        /\ Sides(rect)
    BY RectIs DEF RectInv
  <2>2. /\ e \in EdgeRects /\ Parts(e) /\ e.left = rect.x /\ e.right = rect.x + rect.width
        /\ e.top = rect.y /\ e.bottom = rect.y + rect.height
    BY CornersAre DEF RectInv
  <2> HIDE DEF e
  <2>3. /\ (rect.x + rect.width) + (- rect.width) = rect.x
        /\ (rect.y + rect.height) + (- rect.height) = rect.y
    BY <2>1
  <2>4. Corners(FlipRectH(rect)) = FlipH(e) /\ Corners(FlipRectV(rect)) = FlipV(e)
    BY <2>2, <2>3, RectangleIs DEF FlipRectH, FlipRectV, Corners, FlipH, FlipV
  <2>5. \A dx, dy \in Shifts : Corners(ShiftRect(rect, dx, dy)) = Shift(e, dx, dy)
    <3>1. \A dx, dy \in Shifts : /\ (rect.x + dx) + rect.width = (rect.x + rect.width) + dx
                                 /\ (rect.y + dy) + rect.height = (rect.y + rect.height) + dy
      BY <2>1, GeometryAssumption
    <3> QED
      BY <2>2, <3>1, RectangleIs DEF ShiftRect, Corners, Shift
  <2>6. \A px, py \in Grid : Corners(SetBottomRight(rect, px, py)) = Edges(e.left, e.top, px, py)
    <3>1. \A px, py \in Grid : rect.x + (px - rect.x) = px /\ rect.y + (py - rect.y) = py
      BY <2>1, GeometryAssumption
    <3> QED
      BY <2>2, <3>1, RectangleIs DEF SetBottomRight, Corners
  <2>7. FromEdges(e) = rect
    <3>1. e.right - e.left = rect.width /\ e.bottom - e.top = rect.height
      BY <2>1, <2>2
    <3> QED
      BY <2>1, <2>2, <3>1 DEF FromEdges, Sides
  <2>8. IsInverted(rect) <=> Canonical(e) # e
    <3>1. /\ Canonical(e).left = Smaller(e.left, e.right) /\ Canonical(e).right = Larger(e.left, e.right)
          /\ Canonical(e).top = Smaller(e.top, e.bottom) /\ Canonical(e).bottom = Larger(e.top, e.bottom)
          /\ Parts(Canonical(e))
      BY <2>2, CanonicalIs, EdgeRectIs
    <3>2. CASE IsInverted(rect)
      <4>1. Smaller(e.left, e.right) # e.left \/ Smaller(e.top, e.bottom) # e.top
        BY <2>1, <2>2, <3>2 DEF IsInverted, Smaller
      <4> QED
        BY <3>1, <3>2, <4>1
    <3>3. CASE ~ IsInverted(rect)
      <4>1. /\ Smaller(e.left, e.right) = e.left /\ Smaller(e.top, e.bottom) = e.top
            /\ Larger(e.left, e.right) = e.right /\ Larger(e.top, e.bottom) = e.bottom
        BY <2>1, <2>2, <3>3 DEF IsInverted, Smaller, Larger
      <4>2. Canonical(e) = e
        BY <2>2, <3>1, <4>1, SameEdges
      <4> QED
        BY <3>3, <4>2
    <3> QED
      BY <3>2, <3>3
  <2>9. ASSUME ~ IsInverted(rect)
        PROVE  /\ Extent(rect) = Canonical(e)
               /\ \A turns \in 1 .. 3 : Corners(RotateRect(rect, turns)) = Rotate(e, turns)
               /\ \A w, h \in Lengths : Corners(Rectangle(rect.x, rect.y, w, h)) = SetSize(e, w, h)
    <3>1. Magnitude(rect.width) = rect.width /\ Magnitude(rect.height) = rect.height
      BY <2>1, <2>9 DEF IsInverted, Magnitude
    <3>2. Extent(rect) = e
      BY <2>1, <3>1 DEF Extent, CanonicalRect, Sides, e
    <3>3. Canonical(e) = e
      BY <2>8, <2>9
    <3>4. \A turns \in 1 .. 3 : Corners(RotateRect(rect, turns)) = Rotate(e, turns)
      BY <2>9, RotatedIs DEF RectInv, e
    <3>5. e.right >= e.left /\ e.bottom >= e.top
      BY <2>1, <2>2, <2>9 DEF IsInverted
    <3>6. \A w, h \in Lengths : Corners(Rectangle(rect.x, rect.y, w, h)) = SetSize(e, w, h)
      BY <2>2, <3>5, RectangleIs DEF Corners, SetSize
    <3> QED
      BY <3>2, <3>3, <3>4, <3>6
  <2> QED
    BY <2>4, <2>5, <2>6, <2>7, <2>8, <2>9 DEF RectsAreEdges, e
<1> QED
  BY <1>1, RectInvHolds, PTL
=============================================================================
