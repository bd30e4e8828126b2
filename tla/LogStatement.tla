---------------------------- MODULE LogStatement ----------------------------
(***************************************************************************)
(* A log statement, NEX_LOG(level) << operand << ... (base/logging.h,      *)
(* base/logging.cpp): the LogBuilder that lives as long as the statement,  *)
(* its LogStream, and the texts of its operands (base/charconv.h).  One    *)
(* thread; its errno is also set by whatever it does between and inside    *)
(* the statements.  isEnabled() and submit() belong to the logging system. *)
(***************************************************************************)
EXTENDS Integers, Sequences
LOCAL INSTANCE SequencesExt

CONSTANTS
  IntegerBits,      \* 64: the width of an integer
  IntegerBases,     \* bases considered
  IntegerBuffers,   \* sizes of a caller's buffer considered
  StreamBuffer,     \* the buffer in which operator<< formats a number
  Errors,           \* the values of errno
  MaxOperands       \* bound on the operands of a statement

Character == 97
Zero == 0
MinusSign == 45
NullText == <<60, 110, 117, 108, 108, 62>>      \* "<null>"
NullPointer == <<-1>>

UnsignedIntegers == 0 .. 2^IntegerBits - 1
SignedIntegers == - 2^(IntegerBits - 1) .. 2^(IntegerBits - 1) - 1
ToUnsigned(n) == n % 2^IntegerBits

-----------------------------------------------------------------------------
(* base/charconv.h.  The empty text stands for failure, too: it returns 0. *)

DigitOf(d, uppercase) == IF d < 10 THEN 48 + d ELSE (IF uppercase THEN 55 ELSE 87) + d

ReversedDigits(value, base, uppercase) ==
  LET rest == [i \in 0 .. IntegerBits |-> value \div base^i]
      count == CHOOSE n \in 1 .. IntegerBits : rest[n] = 0 /\ \A i \in 1 .. n - 1 : rest[i] # 0
  IN [i \in 1 .. count |-> DigitOf(rest[i - 1] % base, uppercase)]

(* The text needs one place more, for the NUL. *)
FitsBuffer(text, bufferSize) == bufferSize > Len(text)

FormatU64(bufferSize, value, base, uppercase, negative) ==
  LET text == (IF negative THEN <<MinusSign>> ELSE <<>>)
              \o Reverse(ReversedDigits(value, base, uppercase))
  IN IF base \in 2 .. 36 /\ FitsBuffer(text, bufferSize) THEN text ELSE <<>>

(* Mutated form: -value, which overflows for the most negative one. *)
MagnitudeOverflowing(value) == IF value < 0 THEN (- value) % 2^(IntegerBits - 1) ELSE value

(* -(value + 1) + 1, computed without a sign. *)
MagnitudeOf(value) == IF value < 0 THEN ToUnsigned(- (value + 1)) + 1 ELSE value

FormatInteger(bufferSize, value, base, uppercase) ==
  FormatU64(bufferSize, MagnitudeOf(value), base, uppercase, value < 0)
FormatUnsigned(bufferSize, value, base, uppercase) ==
  FormatU64(bufferSize, value, base, uppercase, FALSE)

(* What snprintf() would write, if it does not cut it. *)
FormatFloating(bufferSize, text) == IF FitsBuffer(text, bufferSize) THEN text ELSE <<>>

FormatBoolean(bufferSize, value) ==
  LET text == IF value THEN <<116, 114, 117, 101>> ELSE <<102, 97, 108, 115, 101>>
  IN IF FitsBuffer(text, bufferSize) THEN text ELSE <<>>

-----------------------------------------------------------------------------
(* LogStream: what an operand appends to the buffer.                       *)

(* append() ends at the first NUL. *)
BeforeNul(text) ==
  IF Zero \in Range(text)
  THEN SubSeq(text, 1, (CHOOSE i \in DOMAIN text : text[i] = Zero /\ Zero \notin Range(SubSeq(text, 1, i - 1))) - 1)
  ELSE text

AppendText(data) == IF data = NullPointer THEN NullText ELSE BeforeNul(data)

(* An operand and its value, in one cell, or in one for each character. *)
Operand(kind, value) == [kind |-> kind, value |-> value]
SomeTexts == {<<>>, <<Character>>, <<Character, Zero, Character>>, <<Zero>>}
Operands ==
  {Operand("int64", <<n>>) : n \in {- 2^(IntegerBits - 1), 0, 9}}
  \cup {Operand("uint64", <<n>>) : n \in {2^IntegerBits - 1}}
  \cup {Operand("float64", [i \in 1 .. n |-> 48]) : n \in {StreamBuffer - 1, StreamBuffer}}
  \cup {Operand("bool", <<b>>) : b \in 0 .. 1}
  \cup {Operand("nchar", <<c>>) : c \in {Character, Zero}}
  \cup {Operand("cstring", <<Character>>), Operand("cstring", NullPointer)}
  \cup {Operand("view", t) : t \in SomeTexts} \cup {Operand("view", NullPointer)}

(* strlen() reads through a null C string before append() looks at it. *)
Crashes(operand) == operand.kind = "cstring" /\ operand.value = NullPointer

TextOf(operand) ==
  CASE operand.kind = "int64"   -> FormatInteger(StreamBuffer, operand.value[1], 10, FALSE)
    [] operand.kind = "uint64"  -> FormatUnsigned(StreamBuffer, operand.value[1], 10, FALSE)
    [] operand.kind = "float64" -> FormatFloating(StreamBuffer, operand.value)
    [] operand.kind = "bool"    -> FormatBoolean(6, operand.value[1] = 1)
    [] OTHER                    -> AppendText(operand.value)

-----------------------------------------------------------------------------
VARIABLES
  errno,        \* of the thread
  builder,      \* the LogBuilder of the statement that is running, or none
  record,       \* the PendingLog of the statement that has just ended, or none
  crashed,      \* a null pointer was read
  ownError      \* history: the error that the program set last, operands of submitted
                \*   statements left aside
StatementVars == <<errno, builder, record, crashed, ownError>>

NoBuilder == [alive |-> FALSE, enabled |-> FALSE, lastSysErrorCode |-> 0, buffer |-> <<>>, operands |-> 0]
NoRecord == [buffer |-> <<>>, lastSysErrorCode |-> 0]

StatementInit ==
  errno = 0 /\ builder = NoBuilder /\ record = NoRecord /\ crashed = FALSE /\ ownError = 0

(* Between two statements, or while an operand is evaluated: operands are, *)
(* whether or not the statement is enabled.                                *)
ProgramSets(error) ==
  /\ ~ crashed /\ errno' = error /\ ownError' = error
  /\ record' = NoRecord /\ UNCHANGED <<builder, crashed>>

BeginStatement(enabled) ==
  /\ ~ builder.alive
  /\ builder' = [alive |-> TRUE, enabled |-> enabled, lastSysErrorCode |-> errno,
                 buffer |-> <<>>, operands |-> 0]
  /\ record' = NoRecord /\ UNCHANGED <<errno, crashed, ownError>>

InsertOperand(operand) ==
  /\ builder.alive /\ ~ crashed /\ builder.operands < MaxOperands
  /\ crashed' = (builder.enabled /\ Crashes(operand))
  /\ builder' = [builder EXCEPT !.operands = @ + 1,
                   !.buffer = IF builder.enabled /\ ~ Crashes(operand) THEN @ \o TextOf(operand) ELSE @]
  /\ UNCHANGED <<errno, record, ownError>>

(* Mutated form: errno stays as submit() has left it. *)
AsSubmitLeft(saved, left) == left

RestoreLastSystemError(saved, left) == saved

(* ~LogBuilder(); submit() leaves any errno behind. *)
EndStatement ==
  /\ builder.alive /\ ~ crashed
  /\ IF builder.enabled /\ builder.buffer # <<>>
     THEN /\ record' = [buffer |-> builder.buffer, lastSysErrorCode |-> builder.lastSysErrorCode]
          /\ \E left \in Errors : errno' = RestoreLastSystemError(builder.lastSysErrorCode, left)
          /\ ownError' = builder.lastSysErrorCode
     ELSE UNCHANGED <<record, errno, ownError>>
  /\ builder' = NoBuilder /\ UNCHANGED crashed

StatementNext ==
  \/ \E error \in Errors : ProgramSets(error)
  \/ \E enabled \in BOOLEAN : BeginStatement(enabled)
  \/ \E operand \in Operands : InsertOperand(operand)
  \/ EndStatement
  \/ crashed /\ UNCHANGED StatementVars

-----------------------------------------------------------------------------
DigitValue(c) == IF c < 58 THEN c - 48 ELSE IF c < 97 THEN c - 55 ELSE c - 87
IsNegative(text) == Head(text) = MinusSign
NumberIn(text, base) ==
  LET magnitude == FoldLeft(LAMBDA n, c : n * base + DigitValue(c), 0,
                            IF IsNegative(text) THEN Tail(text) ELSE text)
  IN IF IsNegative(text) THEN - magnitude ELSE magnitude

(* A text that is written reads back as the integer, the most negative one *)
(* included, and ends with its NUL inside the buffer; a buffer for every   *)
(* binary digit, a sign and the NUL never fails; an invalid base does.     *)
IntegersReadBack ==
  \A base \in IntegerBases, size \in IntegerBuffers, uppercase \in BOOLEAN,
     n \in SignedIntegers \cup UnsignedIntegers :
    LET text == IF n \in SignedIntegers THEN FormatInteger(size, n, base, uppercase)
                ELSE FormatUnsigned(size, n, base, uppercase)
    IN /\ text # <<>> => NumberIn(text, base) = n /\ Len(text) < size
       /\ text = <<>> => size < IntegerBits + 2 \/ base \notin 2 .. 36

(* Logging does not show in errno: after a statement it is what it was at  *)
(* the beginning or what an operand has made of it, never what submit()    *)
(* leaves.  What is submitted has the error of the beginning and a text    *)
(* without a NUL, which is not empty.                                      *)
ErrnoIsKept ==
  /\ errno = ownError
  /\ ~ builder.alive => record = NoRecord \/ (record.lastSysErrorCode = errno /\ record.buffer # <<>>)
  /\ Zero \notin Range(record.buffer) \cup Range(builder.buffer)
=============================================================================
