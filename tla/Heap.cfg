SPECIFICATION Spec
CONSTANTS
  BlockSize = 4
  TotalBlocks = 6
  HeapStart = 64
  TableAddress = 14
  Sizes = {1, 5, 8, 12}
INVARIANT LiveIsTaken
INVARIANT LiveDisjoint
PROPERTY NeighboursUntouched
PROPERTY ImplementsAllocator
