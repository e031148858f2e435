SPECIFICATION Spec
CONSTANTS
  Word = 4
  BuffSize = 2
  Callback = {f}
  NULL = NULL
  NoRequest = NoRequest
  Interval = {1, 2}
  MaxCalls = 3
  Start = 2
  Horizon = 5
PROPERTY UnscheduleRemovesAll
CHECK_DEADLOCK FALSE
