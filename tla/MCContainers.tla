---------------------------- MODULE MCContainers ----------------------------
(* One container at a time, the others at rest.  A ring buffer of up to    *)
(* four slots: windows that wrap, and every resize between 1 and 4.        *)
(* Buffers of up to three cells, two of them inline in the small and fixed *)
(* classes: calls cross from inline to heap storage and back.  Bit         *)
(* containers of two-bit bytes: last bytes that are full and partly used.  *)
EXTENDS RingBuffer, Vec, BitArray, BitSet, BitSpan, Bytes, Algorithms, Memory

CONSTANTS r1, r2, v1, v2
TwoValues == {r1, r2}
TwoElements == {v1, v2}
Heap == {"dynamic"}
AllKinds == {"fixed", "dynamic", "small"}
Nothing == {{}}
Anything == {{}, {"copy"}, {"move"}}

VARIABLE object

Classes == {"RingBuffer", "Vec", "BitArray", "BitSet", "BitSpan", "ByteArray", "range", "memory"}

RingRests == Init /\ traits = [overwrites |-> TRUE, trivial |-> TRUE] /\ capacity = 1
BufferRests == BufferInit /\ kind = "dynamic" /\ throwing = {}
ArrayRests == array = EmptyArray
SetRests == set = NewSet(1)
SpanRests == memory = [i \in 1 .. SpanBytes |-> {}] /\ view = NoView /\ window = <<0, 0>>
MemoryRests ==
  store = [p \in Places |-> 1] /\ block = NullBlock /\ wanted = {} /\ wrapped = FALSE

ContainersInit ==
  /\ object \in Classes
  /\ IF object = "RingBuffer" THEN Init ELSE RingRests
  /\ IF object = "Vec" THEN BufferInit ELSE BufferRests
  /\ IF object = "BitArray" THEN ArrayInit ELSE ArrayRests
  /\ IF object = "BitSet" THEN SetInit ELSE SetRests
  /\ IF object = "BitSpan" THEN SpanInit ELSE SpanRests
  /\ IF object = "memory" THEN MemoryInit ELSE MemoryRests
  /\ BytesInit /\ AlgorithmsInit

ByteVars == <<bytes, span, shown>>

ContainersNext ==
  /\ UNCHANGED object
  /\ IF object = "RingBuffer" THEN Next ELSE UNCHANGED vars
  /\ IF object = "Vec" THEN BuffersNext ELSE UNCHANGED bufferVars
  /\ IF object = "BitArray" THEN ArrayNext ELSE UNCHANGED array
  /\ IF object = "BitSet" THEN SetNext ELSE UNCHANGED set
  /\ IF object = "BitSpan" THEN SpanNext ELSE UNCHANGED SpanVars
  /\ IF object = "ByteArray" THEN BytesNext ELSE UNCHANGED ByteVars
  /\ IF object = "range" THEN AlgorithmsNext ELSE UNCHANGED cellArray
  /\ IF object = "memory" THEN MemoryNext ELSE UNCHANGED MemoryVars

ContainersSpec ==
  ContainersInit
    /\ [][ContainersNext]_<<object, vars, bufferVars, array, set, SpanVars, ByteVars, cellArray, MemoryVars>>
VecSpec == ContainersSpec /\ object = "Vec"

(* What is said of every call is evaluated where the calls are made.       *)

(* Every edit and transfer of a Vec or SmallVec has the effect it is for.  *)
VecCalls == object = "Vec" => CallsAreExact

(* Bit containers and views act on the bits they stand for, whatever the   *)
(* bytes and words underneath hold beyond them.                            *)
BitsAreExact ==
  /\ object = "BitArray" => ArrayIsItsBits
  /\ object = "BitSet" => SetIsItsBits
  /\ object = "BitSpan" => ViewShowsWindow

(* Byte arrays, their views and their two encodings agree.                 *)
ArrayBytes == object = "ByteArray" => BytesAreExact

(* The loops of the algorithms, and those on raw memory, do what they do   *)
(* at once; blocks of memory are cut to what was asked for.                *)
RangeLoops ==
  /\ object = "range" => LoopsAreExact
  /\ object = "memory" => MemoryIsExact
=============================================================================
