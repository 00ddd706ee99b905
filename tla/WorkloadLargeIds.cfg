SPECIFICATION Spec
CONSTANTS
  BlockSize = 2
  NumBuckets = 2
  Window = 4
  Traces <- SomeTraces
  Logs <- SomeLogs
  MooncakeBlock = 2
  MsPerSecond = 3
  Limit = 2
  RequireSession = TRUE
  Speedup = 2
  MaxRequests = 3
  Ratios <- SomeRatios
  LocalDraws = {TRUE}
  ChoiceDraws = {1}
  TokenLimit = 16
  PromptLen = 3
  SharingRatio <- MostShared
  Gaps = {1, 2, 7}
  EndTime = 6
  WorkDelay = 1
INVARIANTS
  LargeIdsAreSafe
CHECK_DEADLOCK FALSE
