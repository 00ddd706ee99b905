SPECIFICATION Spec
CONSTANTS
  Blocks = {1, 2, 3, 4, 5, 6, 7, 8}
  GpuBlocks = 3
  CpuBlocks = 1
  DiskBlocks = 0
  BlockSize = 1
  Requests = {r1, r2}
  NoRequest = NoRequest
  Prompts <- LookupPrompts
INVARIANTS
  LookupIsReusable
CHECK_DEADLOCK FALSE
