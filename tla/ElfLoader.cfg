SPECIFICATION Spec
CONSTANTS
  PageSize = 4
  FileSize = 13
  FileAt = 100
  HeapAt = 200
  HeapPages = 3
  ProgramAt = 12
  StackAt = 8
  StackPages = 1
  StackPhys = 300
  Vaddrs = {10, 12, 14, 16}
  Offsets = {0, 2, 8}
  Filesizes = {3, 5}
  Memsizes = {3, 5}
  MaxHeaders = 2
 
INVARIANT SegmentsInPlace
INVARIANT BinaryInPlace
CHECK_DEADLOCK FALSE
