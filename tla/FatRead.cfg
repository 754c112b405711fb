SPECIFICATION Spec
CONSTANTS
  SectorSize = 2
  SectorsPerCluster = 2
  ReservedSectors = 3
  FatCopies = 2
  SectorsPerFat = 5
  RootEntries = 3
  EntryBytes = 1
  DiskSectors = 21
  Clusters = {2, 3, 4}
  EndMark = 8
  ErrorEntries = {0, 9}
  FileSizes = {3, 4, 7}
  Offsets = {1, 2, 5}
  BlockSizes = {0, 1, 3, 5}
  BlockCounts = {1, 2}
  Dest = 1
  Addresses = {0, 1, 2, 3, 4, 5, 6, 7, 8}
INVARIANT ReadInv
INVARIANT FirstClusterExact
PROPERTY ReadReturns
CHECK_DEADLOCK FALSE
