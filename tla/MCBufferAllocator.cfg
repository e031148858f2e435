SPECIFICATION Spec
CONSTANTS
  Word = 65536
  Align = 16
  StateSize = 12
  BlockSize = 12
  Skew = 4
  Capacity = 212
  Size = {0, 1, 20, 50}
INVARIANTS Tiling HeldIsInUse NoFreeNeighbours CoalescedByLoop
PROPERTIES RefusedOnlyWhenFull ImplementsHeap
