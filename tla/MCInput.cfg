SPECIFICATION FairSpec
CONSTANTS
  DriverSize = 3
  ListenersSize = 3
  BuffSize = 3
  MaxPresses = 8
  MaxRequests = 5
INVARIANTS TypeOK SlotsAreLive InOrder NothingMissed DeliveredOneByOne
PROPERTIES OwnSlotOnly EveryKeyHandled
CHECK_DEADLOCK FALSE
