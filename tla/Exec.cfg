SPECIFICATION FairSpec
CONSTANTS
  MaxProcesses = 3
  MaxObjects = 17
  Failing = {"process", "image", "stack", "task", "chunk", "bss", "string"}
INVARIANT TasksWellFormed
INVARIANT NoDangling
INVARIANT NoSharing
INVARIANT UserModeConsistent
PROPERTY ImplementsForeground
 
CHECK_DEADLOCK FALSE
