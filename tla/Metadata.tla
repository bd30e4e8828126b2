------------------------------ MODULE Metadata -------------------------------
(* The identifiers of core/metadata: versions and UUIDs.                   *)
EXTENDS Integers, Sequences

(***************************************************************************)
(* nex::Version (core/metadata/version.h, version.cpp): read from a text,  *)
(* written to one, packed into a number and compared.                      *)
(***************************************************************************)

CONSTANTS
  NumberLimit,      \* 2^16: major, minor and patch are uint16
  IntLimit,         \* 2^31: what stoi() can read is below it
  Numerals,         \* the digits that texts are made of
  MaxVersion,       \* bound on the length of a text
  Starts            \* what a text begins with

Digit == 0 .. 9
Dot == 10
Dash == 11
Plus == 12
Letter == 13
Odd == 14           \* a character that is allowed nowhere
Symbols == Numerals \cup {Dot, Dash, Plus, Letter, Odd}

VARIABLE versionStr

(* The parts that ch separates, empty ones included. *)
Segments(text, ch) ==
  LET upTo[i \in 0 .. Len(text)] ==
        IF i = 0 THEN <<<<>>>>
        ELSE LET done == upTo[i - 1]
             IN IF text[i] = ch THEN Append(done, <<>>)
                ELSE [done EXCEPT ![Len(done)] = Append(@, text[i])]
  IN upTo[Len(text)]

IsNumber(text) == text # <<>> /\ \A i \in DOMAIN text : text[i] \in Digit
HasLeadingZero(text) == Len(text) > 1 /\ text[1] = 0

(* The identifiers after "-" and "+". *)
ValidateIdentifier(text, allowLeadingZeros) ==
  LET segments == Segments(text, Dot)
  IN \A k \in DOMAIN segments :
       /\ segments[k] # <<>>
       /\ \A i \in DOMAIN segments[k] : segments[k][i] \in Digit \cup {Letter, Dash}
       /\ ~ allowLeadingZeros /\ IsNumber(segments[k]) => ~ HasLeadingZero(segments[k])

(* What stands before the first ch, and after it. *)
Before(text, ch) == Segments(text, ch)[1]
After(text, ch) == SubSeq(text, Len(Before(text, ch)) + 2, Len(text))

Decimal(text) ==
  LET upTo[i \in 0 .. Len(text)] == IF i = 0 THEN 0 ELSE 10 * upTo[i - 1] + text[i]
  IN upTo[Len(text)]
(* stoi() and a cast to uint16. *)
Fits(text) == Decimal(text) < IntLimit
Number(text) == Decimal(text) % NumberLimit

Fails == [ok |-> FALSE]
Throws == [ok |-> FALSE, thrown |-> "out_of_range"]
MakeVersion(numbers, pre, build) ==
  [ok |-> TRUE, numbers |-> numbers, preRelease |-> pre, buildMetadata |-> build]

(* Mutated form: "-" is looked for first, and found in the build metadata. *)
SplitTextDashFirst(text) ==
  <<Before(Before(text, Dash), Plus), Before(After(text, Dash), Plus), After(text, Plus)>>

(* Core, pre-release and build metadata. *)
SplitText(text) ==
  LET rest == Before(text, Plus)
  IN <<Before(rest, Dash), After(rest, Dash), After(text, Plus)>>

FromString(text) ==
  LET core == Segments(SplitText(text)[1], Dot)
      pre == SplitText(text)[2]
      build == SplitText(text)[3]
      numbers == [k \in 1 .. 3 |-> Number(core[k])]
  IN IF text = <<>> \/ Len(core) # 3 THEN Fails
     ELSE IF \E k \in 1 .. 3 : ~ IsNumber(core[k]) \/ HasLeadingZero(core[k]) THEN Fails
     ELSE IF pre # <<>> /\ ~ ValidateIdentifier(pre, FALSE) THEN Fails
     ELSE IF build # <<>> /\ ~ ValidateIdentifier(build, TRUE) THEN Fails
     ELSE IF \E k \in 1 .. 3 : ~ Fits(core[k]) THEN Throws
     ELSE IF numbers = <<0, 0, 0>> /\ pre = <<>> /\ build = <<>> THEN Fails
     ELSE MakeVersion(numbers, pre, build)

IsValid(v) ==
  /\ v.numbers # <<0, 0, 0>> \/ v.preRelease # <<>> \/ v.buildMetadata # <<>>
  /\ v.preRelease # <<>> => ValidateIdentifier(v.preRelease, FALSE)
  /\ v.buildMetadata # <<>> => ValidateIdentifier(v.buildMetadata, TRUE)

Written10(n) == LET digits[m \in 0 .. NumberLimit] == IF m < 10 THEN <<m>> ELSE Append(digits[m \div 10], m % 10)
                IN digits[n]
ToString(v) ==
  Written10(v.numbers[1]) \o <<Dot>> \o Written10(v.numbers[2]) \o <<Dot>> \o Written10(v.numbers[3])
ToFullString(v) ==
  ToString(v) \o (IF v.preRelease = <<>> THEN <<>> ELSE <<Dash>> \o v.preRelease)
              \o (IF v.buildMetadata = <<>> THEN <<>> ELSE <<Plus>> \o v.buildMetadata)

(* Pre-releases do not count. *)
Less(v, w) ==
  \E k \in 1 .. 3 : v.numbers[k] < w.numbers[k] /\ \A j \in 1 .. k - 1 : v.numbers[j] = w.numbers[j]
ToPacked(v) == (v.numbers[1] * NumberLimit + v.numbers[2]) * NumberLimit + v.numbers[3]
FromPacked(n) ==
  IF n \div (NumberLimit * NumberLimit) >= NumberLimit THEN Fails
  ELSE MakeVersion(<<n \div (NumberLimit * NumberLimit), (n \div NumberLimit) % NumberLimit, n % NumberLimit>>,
               <<>>, <<>>)

VersionInit == versionStr \in Starts
VersionNext ==
  \/ /\ Len(versionStr) < MaxVersion
     /\ \E ch \in Symbols : versionStr' = Append(versionStr, ch)
  \/ /\ FromString(versionStr).ok
     /\ versionStr' = ToFullString(FromString(versionStr))
  \/ versionStr' \in Starts

(* The text has no "-" or "+" with nothing after it. *)
NothingEmpty(text, v) ==
  /\ (\E i \in DOMAIN text : text[i] = Plus) => v.buildMetadata # <<>>
  /\ (\E i \in DOMAIN Before(text, Plus) : text[i] = Dash) => v.preRelease # <<>>

(* A version reads its own text again, pre-release and build metadata with *)
(* it, and a text that is read is the text of the version, but for empty   *)
(* metadata and numbers beyond their type; what is read is valid; and the  *)
(* packed number keeps the numbers and their order.                        *)
VersionsReadBack ==
  LET v == FromString(versionStr)
      core == Segments(SplitText(versionStr)[1], Dot)
      packed == FromPacked(ToPacked(v))
      base == MakeVersion(<<1, 0, 1>>, <<>>, <<>>)
  IN v.ok =>
       /\ IsValid(v)
       /\ FromString(ToFullString(v)) = v
       /\ NothingEmpty(versionStr, v) /\ (\A k \in 1 .. 3 : Decimal(core[k]) < NumberLimit)
            => ToFullString(v) = versionStr
       /\ packed.ok /\ packed.numbers = v.numbers
       /\ Less(v, base) <=> ToPacked(v) < ToPacked(base)
       /\ ~ (Less(v, base) /\ Less(base, v))

-----------------------------------------------------------------------------
(***************************************************************************)
(* nex::Uuid (core/metadata/uuid.h, uuid.cpp): 128 bits in an Impl on the  *)
(* heap, which each object owns.  A word of 64 bits is the set of the      *)
(* positions of its ones.  The library stduuid keeps the bytes.            *)
(***************************************************************************)

CONSTANTS
  Uuids,                            \* the objects
  Impls,                            \* addresses on the heap
  TimeBits, HighBits, LowBits       \* the bits of a timestamp and of the random numbers that vary

ASSUME UuidAssumption == "null" \notin Impls /\ TimeBits \cup HighBits \cup LowBits \subseteq Nat

Null == "null"      \* impl_ after a move
Free == <<>>        \* no Impl at this address

VARIABLES impl,     \* impl_ of each object
          heap      \* the uuid of each Impl
UuidVars == <<impl, heap>>

ShiftLeft(word, n) == {b + n : b \in {c \in word : c + n <= 63}}
ShiftRight(word, n) == {b - n : b \in {c \in word : c >= n}}

(* data[0] to data[15]: the bytes of high, and those of low. *)
Data(high, low) ==
  [i \in 0 .. 15 |->
     LET word == IF i < 8 THEN high ELSE low
     IN ShiftRight(word, 56 - 8 * (i % 8)) \cap 0 .. 7]
Nil == Data({}, {})
V4 == Data({14}, {63})              \* what the library's generator may make

(* 0x7 << 12, and 0x2 << 62. *)
VersionBits == {12, 13, 14}
VariantBits == {63}

GenerateV7(timestamp, high, low) ==
  LET randomHigh == high \cap 0 .. 59
  IN Data(ShiftLeft(timestamp, 16) \cup VersionBits \cup ShiftRight(randomHigh, 48),
          ShiftLeft(randomHigh \cap 0 .. 47, 16) \cup VariantBits \cup ShiftRight(low, 2))
V7 == {GenerateV7(t, h, l) : t \in SUBSET TimeBits, h \in SUBSET HighBits, l \in SUBSET LowBits}

(* The library's uuid::version() and uuid::variant(). *)
VersionOf(uuid) == ShiftRight(uuid[6], 4)
IsRfc(uuid) == 7 \in uuid[8] /\ 6 \notin uuid[8]
Timestamp(uuid) ==
  UNION {ShiftLeft(uuid[i], 40 - 8 * i) : i \in 0 .. 5}

Released(i) == [heap EXCEPT ![impl[i]] = Free]
Freed(i) == IF impl[i] = Null THEN heap ELSE Released(i)

(* A new object is made with an Impl of its own; i is given that of a      *)
(* temporary one.                                                          *)
Make(i, uuid) ==
  \E new \in Impls :
    /\ heap[new] = Free
    /\ impl' = [impl EXCEPT ![i] = new]
    /\ heap' = [Freed(i) EXCEPT ![new] = uuid]

(* Of an object that was not moved from; operator= needs both. *)
CopyConstruct(i, j) == impl[j] # Null /\ Make(i, heap[impl[j]])

(* Mutated form: the pointer is copied. *)
CopyAssignPointer(i, j) ==
  /\ impl[i] # Null /\ impl[j] # Null
  /\ impl' = [impl EXCEPT ![i] = impl[j]] /\ heap' = heap

CopyAssign(i, j) ==
  /\ impl[i] # Null /\ impl[j] # Null
  /\ heap' = [heap EXCEPT ![impl[i]] = heap[impl[j]]]
  /\ UNCHANGED impl

MoveUuid(i, j) ==
  /\ i # j
  /\ impl' = [impl EXCEPT ![i] = impl[j], ![j] = Null]
  /\ heap' = Freed(i)

(* The defaulted operator== compares the members, which are pointers. *)
Equal(i, j) == impl[i] = impl[j]
IsNil(i) == heap[impl[i]] = Nil

UuidInit ==
  /\ impl = [i \in Uuids |-> Null]
  /\ heap = [p \in Impls |-> Free]

UuidNext ==
  \/ \E i \in Uuids : \E uuid \in V7 \cup {Nil, V4} : Make(i, uuid)
  \/ \E i, j \in Uuids : CopyConstruct(i, j) \/ CopyAssign(i, j) \/ MoveUuid(i, j)

UuidsSpec == UuidInit /\ [][UuidNext]_UuidVars

-----------------------------------------------------------------------------
(* However objects are made, copied and moved, each has an Impl of its own *)
(* or none and none is lost; those found equal have the same bits (whether *)
(* those with the same bits are found equal is no part of this); the bits  *)
(* are those of some UUID: a time-ordered one keeps its version and its    *)
(* time in their places.                                                   *)
UuidsAreApart ==
  /\ \A i, j \in Uuids : impl[i] # Null /\ i # j => impl[i] # impl[j]
  /\ \A i, j \in Uuids : impl[i] # Null /\ Equal(i, j) => heap[impl[i]] = heap[impl[j]]
  /\ \A p \in Impls : heap[p] # Free <=> \E i \in Uuids : impl[i] = p
  /\ \A p \in Impls : heap[p] \notin {Free, Nil, V4} =>
       /\ VersionOf(heap[p]) = {0, 1, 2}
       /\ Timestamp(heap[p]) \subseteq TimeBits
       /\ 7 \in heap[p][8]

(* "variant 10xx" *)
SevenIsRfc == \A p \in Impls : heap[p] \in V7 => IsRfc(heap[p])

==============================================================================
