SPECIFICATION FairSpec
CONSTANTS
  Requests = {1, 2, 3}
  ExpectedOutput <- MixedOutput
  NodeCapacity = 1
  ChunkSize = 2
  PrefillCost = 1
  DecodeBase = 1
  MarginalDecode = 1
  Nodes = {"p1", "d1", "d2"}
  PrefillNodes = {"p1"}
  DecodeNodes = {"d1", "d2"}
  PerNodeLane = TRUE
  Uncached = {0, 1, 3}
  Gaps = {0, 2}
  TransferCost = 2
INVARIANTS
  ServingTypeOK
  OnePlace
  Slots
  TablesOwned
  TokensInOrder
  TransfersMatched
  ArrivalsConserved
  CleanEnd
PROPERTIES
  ImplementsLifecycle
  RequestsResolve
CHECK_DEADLOCK FALSE
