SPECIFICATION Spec
CONSTANTS
  MaxPath = 7
  Digits = {"0"}
  NameLength = 2
  ExtLength = 1
  MaxFd = 3
  HeapBlocks = 33
  TailLength = 2
  Entries <- MCEntries
  MaxEntries = 2
  Characters <- MCCharacters
  Paths <- MCPaths
  ShellPath <- MCShellPath
INVARIANT FilesInv
INVARIANT ParsesSegments
INVARIANT OpensWhatIsNamed
INVARIANT FindsFile
PROPERTY RefinesOpenFiles
CHECK_DEADLOCK FALSE
