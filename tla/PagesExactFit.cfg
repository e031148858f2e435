SPECIFICATION Spec
CONSTANTS
  Pages = 5
  Descriptors = 3
  PageSize = 2
  HeaderSize = 1
  PageWord = 16
  Caller = {c1, c2, c3}
  PageBytes = {0, 1, 3, 15}
  Ptr = {p1, p2, p3}
  DebugBytes = {1, 2}
  CallBound = 5
  Word = 64
  Align = 4
  StateSize = 5
  Capacity = 30
  Base = {0, 3}
  ArenaBytes = {0, 1, 4, 7, 8, 44, 63}
  Null = Null
SYMMETRY Symmetry
CHECK_DEADLOCK FALSE
PROPERTY GrowsIntoFree
