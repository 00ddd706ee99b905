SPECIFICATION RoutedSpec
CONSTANTS
  Requests = {1, 2, 3, 4}
  ExpectedOutput <- MixedOutput
  NodeCapacity = 1
  ChunkSize = 2
  PrefillCost = 1
  DecodeBase = 1
  MarginalDecode = 1
  Nodes = {"p1", "p2", "d1", "d2"}
  PrefillNodes = {"p1", "p2"}
  DecodeNodes = {"d1", "d2"}
  PrefillOrder <- TwoPrefill
  DecodeOrder <- TwoDecode
  PerNodeLane = TRUE
  Uncached = {0, 1, 3}
  Gaps = {0, 5}
  TransferCost = 2
  PromptLen = 3
  BlockSize = 1
  MinHitPercent = 50
  Alpha = 1
  Beta = 1
  Gamma = 1
  WHistorical = 1
  WEviction = 1
  WRun = 1
  SloTtft = 14
  SloTbt = 2
  Answers <- TwoAnswers
INVARIANTS
  AloneMeetsEstimate
  GateRecovers
  RotationIsExact
  NeverTheWorse
PROPERTIES
  NoNeedlessWait
CHECK_DEADLOCK FALSE
