SPECIFICATION FairSpec
CONSTANTS
  Word = 4
  BuffSize = 2
  Callback = {f, NULL}
  NULL = NULL
  NoRequest = NoRequest
  Interval = {0, 2}
  MaxCalls = 2
  Start = 2
  Horizon = 5
PROPERTY EventuallyServed
CHECK_DEADLOCK FALSE
