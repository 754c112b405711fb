SPECIFICATION FairStreamSpec
CONSTANTS
  SectorSize = 3
  Addresses = {0, 1, 2, 3, 4, 5, 6, 7, 8}
  Dests = {1}
  Totals = {0, 1, 3, 7, 8}
  Seeks = {0, 2, 4}
  DiskBytes = 11
  StackLevels = 3
PROPERTY RefinesByteStream
PROPERTY ReadReturns
CHECK_DEADLOCK FALSE
