-------------------------------- MODULE Color --------------------------------
(***************************************************************************)
(* nex::Color (core/painting/color.h): four channels in one word, other    *)
(* words with the channels in another order, hexadecimal texts, and        *)
(* arithmetic that blends, subtracts, scales and interpolates colours.     *)
(* Floating-point factors are quarters: products are exact, and a quotient *)
(* is too far from the next integer to be rounded to it.                   *)
(***************************************************************************)
EXTENDS Integers, Sequences
LOCAL INSTANCE SequencesExt

CONSTANTS
  HexBase,      \* 16; a channel has two hexadecimal digits
  Channels,     \* values of channels considered
  Factors,      \* factors considered, in quarters
  HexTexts      \* texts of colours considered, not all of them well-formed

Full == HexBase^2 - 1      \* 255
Channel == 0 .. Full

ASSUME ColorAssumption == HexBase \in Nat \ {0, 1} /\ Channels \subseteq Channel /\ Factors \subseteq Int

-----------------------------------------------------------------------------
(* Words of four bytes.  In each format a byte has a place, the lowest is 0. *)

ByteAt(word, place) == (word \div (Full + 1)^place) % (Full + 1)
Word(b3, b2, b1, b0) == b3 * (Full + 1)^3 + b2 * (Full + 1)^2 + b1 * (Full + 1) + b0

GetR(clr) == ByteAt(clr, 3)
GetG(clr) == ByteAt(clr, 2)
GetB(clr) == ByteAt(clr, 1)
GetA(clr) == ByteAt(clr, 0)
RGBA(r, g, b, a) == Word(r, g, b, a)
Opaque(r, g, b) == RGBA(r, g, b, Full)
Black == Opaque(0, 0, 0)

FromARGB(w) == RGBA(ByteAt(w, 2), ByteAt(w, 1), ByteAt(w, 0), ByteAt(w, 3))
FromBGRA(w) == RGBA(ByteAt(w, 1), ByteAt(w, 2), ByteAt(w, 3), ByteAt(w, 0))
FromABGR(w) == RGBA(ByteAt(w, 0), ByteAt(w, 1), ByteAt(w, 2), ByteAt(w, 3))
FromRGB(w) == Opaque(ByteAt(w, 2), ByteAt(w, 1), ByteAt(w, 0))
FromRGBE(w) == Opaque(ByteAt(w, 3), ByteAt(w, 2), ByteAt(w, 1))
FromGrayscale8(gray) == Opaque(gray, gray, gray)
FromGrayscale16(gray) == FromGrayscale8(gray \div (Full + 1))

ToARGB(clr) == Word(GetA(clr), GetR(clr), GetG(clr), GetB(clr))
ToBGRA(clr) == Word(GetB(clr), GetG(clr), GetR(clr), GetA(clr))
ToABGR(clr) == Word(GetA(clr), GetB(clr), GetG(clr), GetR(clr))
ToRGB(clr) == Word(0, GetR(clr), GetG(clr), GetB(clr))
ToRGBE(clr) == Word(GetR(clr), GetG(clr), GetB(clr), Full)

-----------------------------------------------------------------------------
(* Texts: digits are numbers below HexBase, other characters negative.     *)

Hash == -1
PlusSign == -2
Hyphen == -3
LetterX == -4
Blank == -5
Stranger == -6

HexOf(byte) == <<byte \div HexBase, byte % HexBase>>
ToHex(clr) == <<Hash>> \o HexOf(GetR(clr)) \o HexOf(GetG(clr)) \o HexOf(GetB(clr))
ToHexWithAlpha(clr) ==
  <<Hash>> \o HexOf(GetA(clr)) \o HexOf(GetR(clr)) \o HexOf(GetG(clr)) \o HexOf(GetB(clr))

DropWhile(text, S) ==
  LET kept == {i \in DOMAIN text : text[i] \notin S}
  IN IF kept = {} THEN <<>>
     ELSE SubSeq(text, CHOOSE i \in kept : \A j \in kept : i <= j, Len(text))

(* stoul(): white space, a sign, "0x", and the digits that follow; the     *)
(* rest is ignored.  It throws when there are no digits, here NoNumber.    *)
NoNumber == << >>
Stoul(text) ==
  LET unspaced == DropWhile(text, {Blank})
      signed == unspaced # <<>> /\ Head(unspaced) \in {PlusSign, Hyphen}
      unsigned == IF signed THEN Tail(unspaced) ELSE unspaced
      prefixed == Len(unsigned) >= 3 /\ unsigned[1] = 0 /\ unsigned[2] = LetterX /\ unsigned[3] >= 0
      digits == IF prefixed THEN SubSeq(unsigned, 3, Len(unsigned)) ELSE unsigned
      ends == {i \in DOMAIN digits : digits[i] < 0} \cup {Len(digits) + 1}
      number == SubSeq(digits, 1, (CHOOSE i \in ends : \A j \in ends : i <= j) - 1)
      value == FoldLeft(LAMBDA n, d : n * HexBase + d, 0, number)
  IN IF number = <<>> THEN NoNumber
     ELSE <<IF signed /\ Head(unspaced) = Hyphen THEN - value ELSE value>>

NibbleAt(value, place) == (value \div HexBase^place) % HexBase

(* Mutated form: the short form puts the digit in the high half only. *)
HighHalf(digit) == digit * HexBase

Doubled(digit) == digit * (HexBase + 1)

FromHex(hex) ==
  LET hexClean == IF hex # <<>> /\ Head(hex) = Hash THEN Tail(hex) ELSE hex
      parsed == Stoul(hexClean)
      value == Head(parsed)
  IN IF parsed = NoNumber THEN Black
     ELSE CASE Len(hexClean) = 6 -> FromRGB(value)
            [] Len(hexClean) = 8 -> FromARGB(value)
            [] Len(hexClean) = 3 -> Opaque(Doubled(NibbleAt(value, 2)), Doubled(NibbleAt(value, 1)),
                                           Doubled(NibbleAt(value, 0)))
            [] OTHER -> Black

-----------------------------------------------------------------------------
(* Arithmetic.                                                             *)

Clamp(n, low, high) == IF n < low THEN low ELSE IF n > high THEN high ELSE n
Each(clr, f(_)) == RGBA(f(GetR(clr)), f(GetG(clr)), f(GetB(clr)), f(GetA(clr)))

(* Mutated form: the result is as opaque as the colour in front. *)
FrontAlpha(a1, a2) == a1

BlendedAlpha(a1, a2) == a1 + (a2 * (Full - a1)) \div Full

Blend(clr, other) ==
  LET a1 == GetA(clr)
      a2 == GetA(other)
      aOut == BlendedAlpha(a1, a2)
      Mix(c1, c2) == Clamp((c1 * a1 + (c2 * a2 * (Full - a1)) \div Full) \div aOut, 0, Full)
  IN IF aOut <= 0 THEN RGBA(0, 0, 0, 0)
     ELSE RGBA(Mix(GetR(clr), GetR(other)), Mix(GetG(clr), GetG(other)), Mix(GetB(clr), GetB(other)), aOut)

Lessened(c1, c2) == Clamp(c1 - c2, 0, Full)
Subtract(clr, other) ==
  RGBA(Lessened(GetR(clr), GetR(other)), Lessened(GetG(clr), GetG(other)),
       Lessened(GetB(clr), GetB(other)), Lessened(GetA(clr), GetA(other)))

(* A factor of k quarters; the result is cut to an integer. *)
Scale(clr, k) == Each(clr, LAMBDA c : Clamp((c * k) \div 4, 0, Full))

Divide(clr, k) ==
  IF k = 0 THEN RGBA(0, 0, 0, 0)
  ELSE Each(clr, LAMBDA c : IF k < 0 THEN 0 ELSE Clamp((c * 4) \div k, 0, Full))

Lerp(clr, other, k) ==
  LET t == Clamp(k, 0, 4)
      Between(c1, c2) == (c1 * (4 - t) + c2 * t) \div 4
  IN RGBA(Between(GetR(clr), GetR(other)), Between(GetG(clr), GetG(other)),
          Between(GetB(clr), GetB(other)), Between(GetA(clr), GetA(other)))

InvertColor(clr) == RGBA(Full - GetR(clr), Full - GetG(clr), Full - GetB(clr), GetA(clr))

-----------------------------------------------------------------------------
VARIABLE color      \* clr_

(* Colours to blend with and so on. *)
Partners == {RGBA(c, c, c, a) : c, a \in Channels}

ColorInit == color = RGBA(0, 0, 0, 0)
ColorBecomes(clr) == color' = clr

SetChannel(c) ==
  \/ ColorBecomes(RGBA(c, GetG(color), GetB(color), GetA(color)))
  \/ ColorBecomes(RGBA(GetR(color), c, GetB(color), GetA(color)))
  \/ ColorBecomes(RGBA(GetR(color), GetG(color), c, GetA(color)))
  \/ ColorBecomes(RGBA(GetR(color), GetG(color), GetB(color), c))

(* The word of one format taken for that of another. *)
Reinterpret ==
  \/ ColorBecomes(FromARGB(color)) \/ ColorBecomes(FromBGRA(color)) \/ ColorBecomes(FromABGR(color))
  \/ ColorBecomes(FromRGB(color)) \/ ColorBecomes(FromRGBE(color))

ColorNext ==
  \/ \E c \in Channels : SetChannel(c) \/ ColorBecomes(FromGrayscale8(c))
                         \/ ColorBecomes(FromGrayscale16(c * (Full + 1)))
  \/ \E hex \in HexTexts : ColorBecomes(FromHex(hex))
  \/ Reinterpret
  \/ \E other \in Partners : ColorBecomes(Blend(color, other)) \/ ColorBecomes(Subtract(color, other))
  \/ \E k \in Factors : ColorBecomes(Scale(color, k)) \/ ColorBecomes(Divide(color, k))
  \/ \E other \in Partners, k \in Factors : ColorBecomes(Lerp(color, other, k))
  \/ ColorBecomes(InvertColor(color))

-----------------------------------------------------------------------------
WithoutAlpha(clr) == Opaque(GetR(clr), GetG(clr), GetB(clr))
Places(clr) == <<GetR(clr), GetG(clr), GetB(clr), GetA(clr)>>
IsBetween(n, m, c) == (m <= n /\ n <= c) \/ (c <= n /\ n <= m)

(* A colour survives every word and text that can hold it, and all but its *)
(* opacity the others.                                                     *)
FormatsReadBack ==
  /\ FromARGB(ToARGB(color)) = color /\ FromBGRA(ToBGRA(color)) = color /\ FromABGR(ToABGR(color)) = color
  /\ FromHex(ToHexWithAlpha(color)) = color
  /\ WithoutAlpha(color) = FromHex(ToHex(color))
  /\ WithoutAlpha(color) = FromRGB(ToRGB(color)) /\ WithoutAlpha(color) = FromRGBE(ToRGBE(color))
  /\ \A short \in [1 .. 3 -> {0, color % HexBase}] :
       FromHex(short) = FromHex(<<Hash, short[1], short[1], short[2], short[2], short[3], short[3]>>)

(* Blending has the opaque and the transparent colours for its limits; on  *)
(* an opaque colour it ends between the two.  Interpolation ends at its    *)
(* ends, stays between them, and is the same from either side.             *)
MixturesAreBetween ==
  \A other \in Partners :
    LET blend == Blend(color, other)
        a1 == GetA(color)
        a2 == GetA(other)
    IN /\ GetA(blend) >= a1 /\ GetA(blend) >= a2
       /\ a1 = Full \/ (a2 = 0 /\ a1 > 0) => blend = color
       /\ a1 = 0 /\ a2 > 0 => blend = other
       /\ a2 = Full => \A i \in 1 .. 4 : IsBetween(Places(blend)[i], Places(color)[i], Places(other)[i])
       /\ Lerp(color, other, -1) = color /\ Lerp(color, other, 5) = other
       /\ \A k \in 0 .. 2 :
            /\ Lerp(color, other, k) = Lerp(other, color, 4 - k)
            /\ \A i \in 1 .. 4 :
                 IsBetween(Places(Lerp(color, other, k))[i], Places(color)[i], Places(other)[i])

(* Nothing runs out of a channel into its neighbour: subtraction, scaling  *)
(* and division saturate each one by itself, and what did not is undone.   *)
ChannelsAreApart ==
  /\ InvertColor(InvertColor(color)) = color
  /\ Scale(color, 4) = color /\ Divide(color, 4) = color
  /\ \A i \in 1 .. 4 :
       Places(color)[i] * 2 <= Full => Places(Divide(Scale(color, 8), 8))[i] = Places(color)[i]
  /\ \A other \in Partners, i \in 1 .. 4 :
       LET rest == Places(Subtract(color, other))[i]
       IN IF rest > 0 THEN rest + Places(other)[i] = Places(color)[i]
          ELSE Places(other)[i] >= Places(color)[i]
=============================================================================
