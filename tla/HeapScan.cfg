SPECIFICATION FairScanSpec
CONSTANTS
  BlockSize = 4
  TotalBlocks = 6
  HeapStart = 64
  TableAddress = 14
  EntryValues = {0, 1, 129}
  Counts = {0, 1, 2, 3, 6, 7}
INVARIANT ScanResult
 
CHECK_DEADLOCK FALSE
