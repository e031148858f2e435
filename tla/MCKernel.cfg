SPECIFICATION Spec
CONSTANTS
  SectorsPerTrack = 3
  NumHeads = 2
  Cylinders = 3
  KernelSectors = 14
  DiskRetries = 3
  Irq = {32, 33, 39, 40, 44}
  Delay = 2
  MaxKeys = 3
  ClockWord = 16
  Window = 2
  PerSecond = 3
  Base = 4
  Fields = 2
  Margin = 2
  MaxQuiet = 6
  LastSecond = 12
  TextWord = 65536
  Freq = 100
  Reg <- Registers
  Ms = {0, 1, 9, 10, 11, 99, 100, 101, 250, 649, 650, 655, 656, 1000}
  SleepWord = 6
  Callback = {"wake", "header"}
  Interval = {1, 2}
  MaxCalls = 2
  Start = 0
  MaxDue = 9
  Ticks = {0, 1, 2}
  Routine <- Header
  NoRequest = NoRequest
INVARIANTS BootInOrder TextsAndFlagsRight
PROPERTIES TimeNeverWrong EveryCallReturns
CHECK_DEADLOCK FALSE
