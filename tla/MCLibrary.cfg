SPECIFICATION LibrarySpec
CONSTANTS
  a = a
  b = b
  Nul = Nul
  Item = {a, b}
  NullItem = NullItem
  Junk = Junk
  RangeError = RangeError
  InitSize = 2
  Index = {0, 1, 3, 4}
  Request = {1, 3, 5}
  MayFail = FALSE
  CapBound = 6
  Byte = {a, b}
  WriterText <- Texts
  NewSize = {1, 2, 3}
  SizeWord = 16
  Octet = {a, b}
  Source <- Sources
  MaxSize = 3
  StringChar = {a, b, c}
  BlankChar = {b}
  StringText <- StringTexts
  StringSize = 5
  PieceText <- PieceTexts
  Short <- Shorts
  ReturnChar = a
  NewlineChar = b
  MathBits = 4
  MaxExponent = 5
  NumeralBits = 7
  Room = 2
  Number <- Numbers
  Numeral <- Written
CONSTRAINT LengthBound
INVARIANTS StorageHolds 
PROPERTIES SettledAfterResize Refines
CHECK_DEADLOCK FALSE
