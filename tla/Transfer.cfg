SPECIFICATION MCClientSpec
CONSTANTS
  Nodes = {n1, n2, n3}
  PerNodeLane = TRUE
  Costs = {1, 3}
  MaxClock = 2
  MaxTransfers = 3
INVARIANTS
  LanesSerialize
  BacklogCovers
