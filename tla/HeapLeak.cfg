SPECIFICATION Spec
CONSTANTS
  BlockSize = 4
  TotalBlocks = 6
  HeapStart = 64
  TableAddress = 14
  Sizes = {4, 8}
INVARIANT FreeReturnsEveryBlock
