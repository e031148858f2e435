SPECIFICATION Spec
CONSTANTS
  Word = 4
  BuffSize = 2
  Callback = {f}
  NULL = NULL
  NoRequest = NoRequest
  Interval = {1, 2}
  MaxCalls = 3
  Start = 2
  Horizon = 5
INVARIANTS TypeOK NeverEarly LiveSorted InvalidFlagged NoDuplicates
PROPERTIES PassFiresAllDue ImplementsTimerService
CHECK_DEADLOCK FALSE
