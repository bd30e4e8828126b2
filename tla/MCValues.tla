------------------------------ MODULE MCValues ------------------------------
(* Values that one thread computes with, one at a time: a time or a date,  *)
(* two strings, a text to convert, a line to rewrite, a property, a repeat *)
(* pattern, a version, UUIDs, a JSON or an XML document, rectangles, a     *)
(* colour, a log statement.                                                *)
(* The day has four hours of two minutes; the years lie on both sides of   *)
(* leap days, missing leap days and the epoch.  Texts are made of the      *)
(* boundary values of each encoding, lines of a space, a tab, letters and  *)
(* the bytes of an "a" with a grave accent.  The numbers of a version have *)
(* four bits, those of a JSON document five, of which an answer has four.  *)
(* Rectangles lie on a grid of five by five points.  Hexadecimal digits    *)
(* are ternary ones.  Integers to be logged have five bits.                *)
EXTENDS Chrono, Str, TextAlgorithms, Property, RepeatPattern, Metadata, Parsers, Geometry, Color, LogStatement

SomeYears == {900, 1899, 1900, 1903, 1904, 1905, 1969, 1970, 1999, 2000, 2001}

(* Around 1 January 1970, 1 January 2000 and 1 March 2000. *)
SomeDays == (-2 .. 2) \cup (10955 .. 10957) \cup (11015 .. 11017)

SomeSpans ==
  {s * n : s \in {-1, 1}, n \in {Milli, Second, Minute, Hour, Day, Day + 3 * Hour + 1, 2 * Day}}

Steps(S) == S \cup {- n : n \in S}
Days == Steps({1, 31, 366})
Months == Steps({1, 2, 11, 12, 14})
YearsApart == Steps({1, 3, 4, 30})
FourDays == 4 * Day
SomeUnits == [utf8 |-> 4, utf16 |-> 3, utf32 |-> 2]

Validators == {{}, {"low"}, {"low", "high"}}
SomeNumbers == {-1, 0, 1, 2, 5}

(* "1.0.", "1.9.0-", "0.0.0" and "0.0.1+0": the text goes on from there. *)
Beginnings ==
  {<<1, Dot, 0, Dot>>, <<1, Dot, 9, Dot, 0, Dash>>, <<0, Dot, 0, Dot, 0>>,
   <<0, Dot, 0, Dot, 1, Plus, 0>>}

BigAndSmall == {-17, -16, -9, -8, -1, 0, 1, 7, 8, 15, 16, 17, 24}

(* Elements and a text, which is a node of the document without a name: in *)
(* one of them two children of one name are around one of another, in      *)
(* another the first child is the text.                                    *)
Element(name, children) == [name |-> name, children |-> children, attributes |-> {name}]
SomeTrees ==
  LET leaf == Element("b", <<>>)
      text == [name |-> "", children |-> <<>>, attributes |-> {}]
  IN {Element("a", <<>>), Element("a", <<leaf>>), Element("a", <<text, leaf>>), Element("b", <<text>>),
      Element("a", <<leaf, Element("a", <<leaf, leaf>>), Element("b", <<leaf>>)>>)}

SomeGrid == -2 .. 2
SomeShifts == {-1, 1}
SomeRectangles ==
  {Edges(-1, -1, 1, 1), Edges(2, 1, 0, -2), Edges(-2, 2, -2, -1), Edges(-2, -2, 2, 2)}

(* "", "#", "102", "#1201?2", "0x1201", "-12011", " +1", "1201", "-0000001" *)
SomeHexTexts ==
  {<<>>, <<Hash>>, <<1, 0, 2>>, <<Hash, 1, 2, 0, 1, Stranger, 2>>, <<0, LetterX, 1, 2, 0, 1>>,
   <<Hyphen, 1, 2, 0, 1, 1>>, <<Blank, PlusSign, 1>>, <<1, 2, 0, 1>>,
   <<Hyphen, 0, 0, 0, 0, 0, 0, 1>>}
Quarters == {-1, 0, 3, 8}

VARIABLE subject

Subjects ==
  {"chrono", "String", "encoding", "text", "property", "pattern", "version", "uuid", "json", "xml",
   "edges", "rect", "color", "statement"}

ChronoRests == class = "TimeSpan" /\ value = 0
EncodingRests == form = "utf8" /\ input = <<>>
PropertyRests == PropertyInit /\ setting = "low"
PatternRests == pattern = Pattern(FALSE, {})
VersionRests == versionStr = <<>>

ValuesInit ==
  /\ subject \in Subjects
  /\ IF subject = "chrono" THEN ChronoInit ELSE ChronoRests
  /\ IF subject = "encoding" THEN EncodingInit ELSE EncodingRests
  /\ IF subject = "property" THEN PropertyInit ELSE PropertyRests
  /\ IF subject = "pattern" THEN PatternInit ELSE PatternRests
  /\ IF subject = "version" THEN VersionInit ELSE VersionRests
  /\ StrInit /\ TextInit /\ UuidInit /\ JsonInit /\ XmlInit /\ GeometryInit /\ ColorInit
  /\ StatementInit

ValuesNext ==
  /\ UNCHANGED subject
  /\ IF subject = "chrono" THEN ChronoNext ELSE UNCHANGED ChronoVars
  /\ IF subject = "String" THEN StrNext ELSE UNCHANGED StrVars
  /\ IF subject = "encoding" THEN EncodingNext ELSE UNCHANGED EncodingVars
  /\ IF subject = "text" THEN TextNext ELSE UNCHANGED line
  /\ IF subject = "property" THEN PropertyNext ELSE UNCHANGED PropertyVars
  /\ IF subject = "pattern" THEN PatternNext ELSE UNCHANGED pattern
  /\ IF subject = "version" THEN VersionNext ELSE UNCHANGED versionStr
  /\ IF subject = "uuid" THEN UuidNext ELSE UNCHANGED UuidVars
  /\ IF subject = "json" THEN JsonNext ELSE UNCHANGED JsonVars
  /\ IF subject = "xml" THEN XmlNext ELSE UNCHANGED XmlVars
  /\ IF subject = "edges" THEN EdgesNext ELSE UNCHANGED edges
  /\ IF subject = "rect" THEN RectNext ELSE UNCHANGED rect
  /\ IF subject = "color" THEN ColorNext ELSE UNCHANGED color
  /\ IF subject = "statement" THEN StatementNext ELSE UNCHANGED StatementVars

ValuesVars ==
  <<subject, ChronoVars, StrVars, EncodingVars, line, PropertyVars, pattern, versionStr,
    UuidVars, JsonVars, XmlVars, GeometryVars, color, StatementVars>>
ValuesSpec == ValuesInit /\ [][ValuesNext]_ValuesVars
UuidSpec == ValuesSpec /\ subject = "uuid"

(* What is said of every call is evaluated where the calls are made.       *)

(* Dates and times: the ways of computing one agree, and fromString()      *)
(* reads what toString() wrote, in every format.                           *)
Times == subject = "chrono" => CalendarAgrees /\ TimeIsConsistent /\ TextRoundTrips

(* Between UTF-8, UTF-16, UTF-32 and narrow texts nothing is lost, nor is  *)
(* a version in its text.                                                  *)
Conversions ==
  (subject = "encoding" => ConversionsAreExact) /\ (subject = "version" => VersionsReadBack)

(* The text functions agree with what they say of a line, and of its words *)
(* and code points.                                                        *)
Lines == subject = "text" => SearchesAgree /\ PiecesRejoin /\ WordsSurvive /\ EditsKeepUtf8

(* Answers about a JSON or XML document fit each other, also after loads   *)
(* that failed.                                                            *)
Documents == (subject = "json" => AnswersAgree) /\ (subject = "xml" => NodesAgree)

(* Rectangles are sets of points, in either representation; a colour       *)
(* survives its formats, and arithmetic keeps to the channels and between  *)
(* the colours it mixes.                                                   *)
Graphics ==
  /\ subject = "edges" => EdgesArePoints
  /\ subject = "rect" => RectsAreEdges
  /\ subject = "color" => FormatsReadBack /\ MixturesAreBetween /\ ChannelsAreApart

(* A statement tells the error and the numbers as they were, and leaves    *)
(* errno alone.                                                            *)
Statements ==
  subject = "statement" => ErrnoIsKept /\ (builder = NoBuilder /\ errno = 0 => IntegersReadBack)
=============================================================================
