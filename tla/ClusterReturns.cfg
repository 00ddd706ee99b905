SPECIFICATION ClusterSpec
CONSTANTS
  Requests = {1, 2, 3, 4}
  ExpectedOutput <- MixedOutput
  NodeCapacity = 2
  ChunkSize = 2
  PrefillCost = 1
  DecodeBase = 1
  MarginalDecode = 1
  Nodes = {"p1", "d1"}
  PrefillNodes = {"p1"}
  DecodeNodes = {"d1"}
  PerNodeLane = FALSE
  Uncached = {0, 1, 2}
  Gaps = {0, 2}
  TransferCost = 2
  Blocks = {1, 2, 3, 4, 5, 6}
  GpuBlocks = 3
  CpuBlocks = 1
  DiskBlocks = 0
  BlockSize = 1
  NoRequest = NoRequest
  Prompts <- SomePrompts
INVARIANTS
  HandlersReturn
CHECK_DEADLOCK FALSE
