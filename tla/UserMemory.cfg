SPECIFICATION Spec
CONSTANTS
  BlockSize = 4
  TotalBlocks = 6
  HeapStart = 8
  TableAddress = 14
  Processes = {p1, p2}
  None = None
  MaxAllocations = 2
  Sizes = {3, 6}
  LastPage = 9
INVARIANT Ownership
INVARIANT WriteIsolation
INVARIANT ChunkStaysMapped
PROPERTY OthersUntouched
