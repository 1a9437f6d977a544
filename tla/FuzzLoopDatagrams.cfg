\* A SUT that stamps the preamble, its controller's datagrams, and what must
\* eventually happen under weak fairness of the controller.
SPECIFICATION FairSpec
CONSTANTS
  actA = actA
  actB = actB
  pathP = pathP
  pathQ = pathQ
  none = none
  raised = raised
  rule = rule
  pk1 = pk1
  pk2 = pk2
  Actions = {actA}
  Paths <- MCPaths
  NoPath = none
  Raises = raised
  KnownPaths <- OneMCPath
  N0 = 2
  InitPath <- MCSamePath
  Exec <- SmallExec
  Reparse <- StackReparse
  Positions <- MCPositions
  Hash1 <- SmallHash
  Hash2 <- SmallHash
  Draws = {0, 1, 2}
  SeedCapacity = 3
  CloneCapacity = 2
  MutateCapacity = 3
  PktIds = {pk1}
  CpuQueueSize = 1
  RuleIds = {rule}
  InitFields = {}
  MaxDatagrams = 1
  SutHasEgress = TRUE
  SutStampsPreamble = TRUE
  SeedsOff = FALSE
PROPERTIES
  ImplementsFeedback
  ReportsHandled
  SeedsTakeEffect
  ExpiryStops
INVARIANTS
  SeedsBounded
CHECK_DEADLOCK FALSE
