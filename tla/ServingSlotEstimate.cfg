SPECIFICATION Spec
CONSTANTS
  Requests = {1, 2}
  ExpectedOutput <- MixedOutput
  NodeCapacity = 1
  ChunkSize = 2
  PrefillCost = 1
  DecodeBase = 1
  MarginalDecode = 1
  Nodes = {"p1", "d1"}
  PrefillNodes = {"p1"}
  DecodeNodes = {"d1"}
  PerNodeLane = TRUE
  Uncached = {2}
  Gaps = {0, 1}
  TransferCost = 2
PROPERTIES
  SlotEstimateHolds
CHECK_DEADLOCK FALSE
