SPECIFICATION FairSpec
CONSTANTS
  Processes = {shell, blank}
  Keys = {a, b}
  Release = release
  Unmapped = shift
  PastTable = past
  NUL = nul
  None = none
  BufferSize = 2
  PortSize = 2
  MaxUnread = 2
  MaxKeys = 4
INVARIANT SlotsMatchWindow
 
PROPERTY ImplementsKeyQueue
PROPERTY KeyDelivered
