SPECIFICATION ApiSpec
CONSTANTS
  Blocks = {1, 2, 3, 4, 5, 6, 7, 8}
  GpuBlocks = 2
  CpuBlocks = 1
  DiskBlocks = 1
  BlockSize = 2
  Requests = {r1, r2}
  NoRequest = NoRequest
  Prompts <- SubBlockPrompts
INVARIANTS
  PinAccounting
  TreeWellFormed
  NoLeak
CHECK_DEADLOCK FALSE
