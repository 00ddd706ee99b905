SPECIFICATION FairSpec
CONSTANTS
  Blocks = {1, 2, 3, 4, 5, 6, 7, 8}
  GpuBlocks = 3
  CpuBlocks = 1
  DiskBlocks = 0
  BlockSize = 1
  Requests = {r1, r2}
  NoRequest = NoRequest
  Prompts <- AlignedPrompts
INVARIANTS
  TypeOK
  IndexAgreement
  PinnedAreAllocated
  PinAccounting
  NoLeak
  TableIsPath
PROPERTIES
  TablesStayPut
  CallsReturn
CHECK_DEADLOCK FALSE
