\* The values that one thread computes with, one at a time.
CONSTANTS
  HoursPerDay = 4
  MinutesPerHour = 2
  SecondsPerMinute = 2
  MillisPerSecond = 11
  TicksPerMilli = 2
  Years <- SomeYears
  Spans <- SomeSpans
  DaySteps <- Days
  MonthSteps <- Months
  YearSteps <- YearsApart
  DayWindow <- SomeDays
  MaxSpan <- FourDays
  Letters = {"a"}
  InlineCapacity = 1
  MaxChars = 20
  MaxText = 3
  SizeMax = 7
  Bytes8 = {0, 65, 128, 143, 144, 159, 160, 191, 193, 194, 224, 237, 240, 244, 248}
  Units16 = {65, 2047, 2048, 55295, 55296, 56319, 56320, 57343, 57344, 65535}
  Units32 = {0, 127, 128, 2047, 2048, 55295, 55296, 57343, 57344, 65535, 65536, 1114111, 1114112}
  MaxUnits <- SomeUnits
  Alphabet = {9, 32, 65, 97, 160, 195}
  MaxLine = 4
  Settings = {"low", "mid", "high"}
  Rejections <- Validators
  MaxNesting = 3
  DaysPerWeek = 3
  MinSnooze = 2
  MaxSnooze = 4
  DefaultSnooze = 3
  Numbers <- SomeNumbers
  NumberLimit = 16
  IntLimit = 90
  Numerals = {0, 1, 9}
  MaxVersion = 8
  Starts <- Beginnings
  Uuids = {"first", "second"}
  Impls = {"p", "q", "r"}
  TimeBits = {47}
  HighBits = {46, 48}
  LowBits = {63}
  Keys = {"k", "l"}
  WordSize = 16
  Integers64 <- BigAndSmall
  MaxDepth = 2
  Names = {"a", "b"}
  Trees <- SomeTrees
  MaxLoads = 3
  Grid <- SomeGrid
  Lengths = {0, 1, 3}
  Shifts <- SomeShifts
  Borders = {0, 1, 2}
  Others <- SomeRectangles
  HexBase = 3
  Channels = {0, 3, 8}
  Factors <- Quarters
  HexTexts <- SomeHexTexts
  IntegerBits = 5
  IntegerBases = {1, 2, 3, 10, 16, 36, 37}
  IntegerBuffers = {0, 1, 2, 3, 4, 5, 6, 7}
  StreamBuffer = 4
  Errors = {0, 2, 4}
  MaxOperands = 2
SPECIFICATION ValuesSpec
INVARIANTS
  Times
  StringIsText
  Conversions
  Lines
  ObserverIsCurrent
  PatternAgrees
  UuidsAreApart
  Documents
  Graphics
  Statements
