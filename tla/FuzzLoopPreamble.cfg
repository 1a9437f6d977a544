\* Datagrams of a generated SUT, which never writes the preamble.
SPECIFICATION Spec
CONSTANTS
  actA = actA
  actB = actB
  pathP = pathP
  pathQ = pathQ
  none = none
  raised = raised
  rule = rule
  pk1 = pk1
  pk2 = pk2
  Actions = {actA, actB}
  Paths <- MCPaths
  NoPath = none
  Raises = raised
  KnownPaths <- MCPaths
  N0 = 2
  InitPath <- MCInitPath
  Exec <- MCExec
  Reparse <- MCReparse
  Positions <- MCPositions
  Hash1 <- MCHash1
  Hash2 <- MCHash2
  Draws = {0, 1, 2, 3}
  SeedCapacity = 3
  CloneCapacity = 2
  MutateCapacity = 3
  PktIds = {pk1}
  CpuQueueSize = 1
  RuleIds = {rule}
  InitFields = {}
  MaxDatagrams = 1
  SutHasEgress = TRUE
  SutStampsPreamble = FALSE
  SeedsOff = FALSE
PROPERTIES
  DataplaneDatagramsKept
CHECK_DEADLOCK FALSE
