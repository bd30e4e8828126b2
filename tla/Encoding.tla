------------------------------ MODULE Encoding ------------------------------
(***************************************************************************)
(* nex::encoding (base/encoding.h, encoding.cpp), as built for POSIX:      *)
(* UTF-8, UTF-16 and UTF-32 strings are sequences of code units; ANSI and  *)
(* local strings are UTF-8.  A conversion stops at the first code point    *)
(* that it cannot decode.                                                  *)
(***************************************************************************)
EXTENDS Views

CONSTANTS
  Bytes8, Units16, Units32,     \* the code units that texts are made of
  MaxUnits                      \* bounds on the length of a text, by form

VARIABLES form, input
Forms == {"utf8", "utf16", "utf32"}

IsHighSurrogate(u) == u \in 55296 .. 56319      \* D800 .. DBFF
IsLowSurrogate(u) == u \in 56320 .. 57343       \* DC00 .. DFFF
IsSurrogate(u) == IsHighSurrogate(u) \/ IsLowSurrogate(u)
MaxCodePoint == 1114111                         \* 10FFFF
IsValidCodePoint(cp) == cp <= MaxCodePoint /\ ~ IsSurrogate(cp)

IsUnicodeWhitespace(cp) ==
  IF cp < 160 THEN cp = 32 \/ cp \in 9 .. 13
  ELSE \/ cp \in {160, 5760, 8232, 8233, 8239, 8287, 12288, 65279}
       \/ cp \in 8192 .. 8202

Fail == [ok |-> FALSE, text |-> <<>>]
Ok(text) == [ok |-> TRUE, text |-> text]
NotDecoded == [ok |-> FALSE, codePoint |-> 0, advance |-> 0]
Decoded(cp, n) == [ok |-> TRUE, codePoint |-> cp, advance |-> n]

-----------------------------------------------------------------------------
Utf8SequenceLength(byte) ==
  IF byte <= 127 THEN 1
  ELSE IF byte \div 32 = 6 THEN 2
  ELSE IF byte \div 16 = 14 THEN 3
  ELSE IF byte \div 8 = 30 THEN 4 ELSE 0
IsContinuation(byte) == byte \div 64 = 2

(* The lead byte and the continuation bytes it asks for. *)
IsValidUtf8Sequence(s) ==
  /\ s # <<>>
  /\ LET n == Utf8SequenceLength(s[1])
     IN n # 0 /\ n <= Len(s) /\ \A k \in 2 .. n : IsContinuation(s[k])

(* Steps over the sequences; what they encode is not looked at. *)
IsValidUtf8(s) ==
  LET from[i \in 1 .. Len(s) + 1] ==
        \/ i > Len(s)
        \/ LET rest == SubSeq(s, i, Len(s))
           IN IsValidUtf8Sequence(rest) /\ from[i + Utf8SequenceLength(s[i])]
  IN from[1]

(* The bits of a sequence of n bytes, and the least value they may encode. *)
PayloadOf(s, n) ==
  CASE n = 1 -> s[1]
    [] n = 2 -> (s[1] % 32) * 64 + (s[2] % 64)
    [] n = 3 -> (s[1] % 16) * 4096 + (s[2] % 64) * 64 + (s[3] % 64)
    [] n = 4 -> (s[1] % 8) * 262144 + (s[2] % 64) * 4096 + (s[3] % 64) * 64 + (s[4] % 64)
(* Mutated form: the overlong encodings of three bytes are let through. *)
MinCodePointLax == <<0, 128, 128, 65536>>

MinCodePoint == <<0, 128, 2048, 65536>>

DecodeUtf8CodePoint(s) ==
  IF ~ IsValidUtf8Sequence(s) THEN NotDecoded
  ELSE LET n == Utf8SequenceLength(s[1])
           cp == PayloadOf(s, n)
       IN IF cp < MinCodePoint[n] \/ ~ IsValidCodePoint(cp) THEN NotDecoded ELSE Decoded(cp, n)

EncodeUtf8CodePoint(cp) ==
  IF cp <= 127 THEN <<cp>>
  ELSE IF cp <= 2047 THEN <<192 + cp \div 64, 128 + (cp % 64)>>
  ELSE IF cp <= 65535 THEN <<224 + cp \div 4096, 128 + ((cp \div 64) % 64), 128 + (cp % 64)>>
  ELSE IF cp <= MaxCodePoint
       THEN <<240 + cp \div 262144, 128 + ((cp \div 4096) % 64), 128 + ((cp \div 64) % 64), 128 + (cp % 64)>>
       ELSE <<>>

(* Continuation bytes are not looked at. *)
CountUtf8CodePoints(s) ==
  LET from[i \in 1 .. Len(s) + 1] ==
        IF i > Len(s) THEN 0
        ELSE LET n == Utf8SequenceLength(s[i])
             IN IF n = 0 \/ i + n > Len(s) + 1 \/ from[i + n] = NoPos THEN NoPos ELSE 1 + from[i + n]
  IN from[1]

-----------------------------------------------------------------------------
DecodeUtf16CodePoint(s) ==
  IF s = <<>> \/ IsLowSurrogate(s[1]) THEN NotDecoded
  ELSE IF ~ IsHighSurrogate(s[1]) THEN Decoded(s[1], 1)
  ELSE IF Len(s) < 2 THEN NotDecoded
  ELSE IF ~ IsLowSurrogate(s[2]) THEN NotDecoded
  ELSE Decoded((s[1] - 55296) * 1024 + (s[2] - 56320) + 65536, 2)

EncodeUtf16CodePoint(cp) ==
  IF cp <= 65535 THEN IF IsSurrogate(cp) THEN <<>> ELSE <<cp>>
  ELSE IF cp <= MaxCodePoint
       THEN <<(cp - 65536) \div 1024 + 55296, ((cp - 65536) % 1024) + 56320>>
       ELSE <<>>

CountUtf16CodePoints(s) ==
  LET from[i \in 1 .. Len(s) + 1] ==
        IF i > Len(s) THEN 0
        ELSE IF IsHighSurrogate(s[i])
             THEN IF i < Len(s) /\ IsLowSurrogate(s[i + 1]) /\ from[i + 2] # NoPos
                  THEN 1 + from[i + 2] ELSE NoPos
             ELSE IF IsLowSurrogate(s[i]) \/ from[i + 1] = NoPos THEN NoPos ELSE 1 + from[i + 1]
  IN from[1]

IsValidUtf32Sequence(s) == \A i \in DOMAIN s : IsValidCodePoint(s[i])
CountUtf32CodePoints(s) == IF IsValidUtf32Sequence(s) THEN Len(s) ELSE NoPos

DecodeUtf32CodePoint(s) == IF IsValidCodePoint(s[1]) THEN Decoded(s[1], 1) ELSE NotDecoded
EncodeUtf32CodePoint(cp) == <<cp>>

-----------------------------------------------------------------------------
(* The loop of every conversion. *)
Transcode(s, Decode(_), Encode(_)) ==
  LET from[i \in 1 .. Len(s) + 1] ==
        IF i > Len(s) THEN Ok(<<>>)
        ELSE LET d == Decode(SubSeq(s, i, Len(s)))
                 units == Encode(d.codePoint)
                 rest == from[i + d.advance]
             IN IF ~ d.ok THEN Fail
                ELSE IF units = <<>> \/ ~ rest.ok THEN Fail ELSE Ok(units \o rest.text)
  IN from[1]

Utf8ToUtf16(s) == Transcode(s, DecodeUtf8CodePoint, EncodeUtf16CodePoint)
Utf8ToUtf32(s) == Transcode(s, DecodeUtf8CodePoint, EncodeUtf32CodePoint)
Utf16ToUtf8(s) == Transcode(s, DecodeUtf16CodePoint, EncodeUtf8CodePoint)
Utf16ToUtf32(s) == Transcode(s, DecodeUtf16CodePoint, EncodeUtf32CodePoint)
Utf32ToUtf8(s) == Transcode(s, DecodeUtf32CodePoint, EncodeUtf8CodePoint)
Utf32ToUtf16(s) == Transcode(s, DecodeUtf32CodePoint, EncodeUtf16CodePoint)
AnsiToUtf8(s) == Ok(s)
Utf8ToAnsi(s) == Ok(s)
AnsiToUtf16(s) == Utf8ToUtf16(s)
Utf16ToAnsi(s) == Utf16ToUtf8(s)
LocalToUtf8(s) == Ok(s)
Utf8ToLocal(s) == Ok(s)
LocalToUtf16(s) == Utf8ToUtf16(s)
Utf16ToLocal(s) == Utf16ToUtf8(s)

(* utf8ToNarrow(), narrowToUtf8(): the length is found again, from the     *)
(* first NUL; the string is followed by one.                               *)
Narrow(s) == LET ends == {i \in 0 .. Len(s) - 1 : s[i + 1] = 0}
             IN IF ends = {} THEN s ELSE FirstOf(s, Least(ends))

Convert(from, to, s) ==
  CASE from = "utf8" /\ to = "utf16" -> Utf8ToUtf16(s)
    [] from = "utf8" /\ to = "utf32" -> Utf8ToUtf32(s)
    [] from = "utf16" /\ to = "utf8" -> Utf16ToUtf8(s)
    [] from = "utf16" /\ to = "utf32" -> Utf16ToUtf32(s)
    [] from = "utf32" /\ to = "utf8" -> Utf32ToUtf8(s)
    [] from = "utf32" /\ to = "utf16" -> Utf32ToUtf16(s)
    [] from = "utf8" /\ to = "utf8" -> Utf8ToAnsi(s)

-----------------------------------------------------------------------------
UnitsOf(f) == CASE f = "utf8" -> Bytes8 [] f = "utf16" -> Units16 [] f = "utf32" -> Units32

EncodingInit == form \in Forms /\ input = <<>>

(* The caller extends a text. *)
Extend(unit) ==
  /\ Len(input) < MaxUnits[form]
  /\ input' = Append(input, unit)
  /\ UNCHANGED form

(* The caller converts it; what failed to convert stays as it is. *)
ConvertTo(to) ==
  LET result == Convert(form, to, input)
  IN result.ok /\ form' = to /\ input' = result.text

NewText == input' = <<>> /\ UNCHANGED form

EncodingNext ==
  \/ NewText
  \/ \E unit \in UnitsOf(form) : Extend(unit)
  \/ \E to \in Forms \ {form} : ConvertTo(to)
EncodingVars == <<form, input>>

-----------------------------------------------------------------------------
(* Unicode, table 3-7: the well-formed sequences of bytes. *)
Trail == 128 .. 191
WellFormedRows ==
  {<<0 .. 127>>, <<194 .. 223, Trail>>,
   <<{224}, 160 .. 191, Trail>>, <<225 .. 236, Trail, Trail>>,
   <<{237}, 128 .. 159, Trail>>, <<238 .. 239, Trail, Trail>>,
   <<{240}, 144 .. 191, Trail, Trail>>, <<241 .. 243, Trail, Trail, Trail>>,
   <<{244}, 128 .. 143, Trail, Trail>>}
Conforms(s, row, i) == i + Len(row) <= Len(s) /\ \A k \in DOMAIN row : s[i + k] \in row[k]
WellFormed8(s) ==
  LET from[i \in 0 .. Len(s)] ==
        i = Len(s) \/ \E row \in WellFormedRows : Conforms(s, row, i) /\ from[i + Len(row)]
  IN from[0]
WellFormed16(s) ==
  \A i \in DOMAIN s :
    /\ IsHighSurrogate(s[i]) => i < Len(s) /\ IsLowSurrogate(s[i + 1])
    /\ IsLowSurrogate(s[i]) => i > 1 /\ IsHighSurrogate(s[i - 1])
WellFormed(f, s) ==
  CASE f = "utf8" -> WellFormed8(s) [] f = "utf16" -> WellFormed16(s)
    [] f = "utf32" -> \A i \in DOMAIN s : s[i] \in 0 .. 55295 \/ s[i] \in 57344 .. 1114111

(* Exactly the well-formed texts are converted, none of them to something  *)
(* ill-formed; converting back gives the same units; the way over a third  *)
(* form makes no difference; and counting agrees with decoding.            *)
ConversionsAreExact ==
  /\ \A to \in Forms \ {form} :
       LET there == Convert(form, to, input)
       IN /\ there.ok <=> WellFormed(form, input)
          /\ there.ok =>
               /\ WellFormed(to, there.text)
               /\ Convert(to, form, there.text) = Ok(input)
               /\ \A via \in Forms \ {form, to} :
                    Convert(via, to, Convert(form, via, input).text) = there
  /\ WellFormed(form, input) =>
       LET points == IF form = "utf32" THEN Len(input) ELSE Len(Convert(form, "utf32", input).text)
       IN CASE form = "utf8" -> CountUtf8CodePoints(input) = points /\ IsValidUtf8(input)
            [] form = "utf16" -> CountUtf16CodePoints(input) = points
            [] form = "utf32" -> CountUtf32CodePoints(input) = points
  /\ form = "utf16" /\ ~ WellFormed16(input) => CountUtf16CodePoints(input) = NoPos

=============================================================================
