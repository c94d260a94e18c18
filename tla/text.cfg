SPECIFICATION TextSpec
CONSTANTS
  Chars <- SomeChars
  Texts <- ShortTexts
  Ways <- AllWays
  ExpHalf = 16
  Numbers <- SomeNumbers
  Undefined = Undefined
CHECK_DEADLOCK FALSE
INVARIANTS FieldsReadBack LevelIsNthRead WordsKept RealAsWritten HexFits
