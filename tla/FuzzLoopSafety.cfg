\* The generated pair of switches: every race of the loop, no datagrams.
SPECIFICATION Spec
CONSTANTS
  actA = actA
  actB = actB
  pathP = pathP
  pathQ = pathQ
  none = none
  raised = raised
  rule = rule
  pk1 = pk1
  pk2 = pk2
  Actions = {actA, actB}
  Paths <- MCPaths
  NoPath = none
  Raises = raised
  KnownPaths <- MCPaths
  N0 = 2
  InitPath <- MCInitPath
  Exec <- MCExec
  Reparse <- MCReparse
  Positions <- MCPositions
  Hash1 <- MCHash1
  Hash2 <- MCHash2
  Draws = {0, 1, 2, 3}
  SeedCapacity = 3
  CloneCapacity = 2
  MutateCapacity = 3
  PktIds = {pk1, pk2}
  CpuQueueSize = 1
  RuleIds = {rule}
  InitFields = {}
  MaxDatagrams = 0
  SutHasEgress = TRUE
  SutStampsPreamble = FALSE
  SeedsOff = FALSE
SYMMETRY TwoPackets
INVARIANTS
  BloomSound
  MissedOnlyByCollision
  ReportedOnce
  ReportsAreExecutions
  SeedPacketsComplete
  NoDropOnceBooted
CHECK_DEADLOCK FALSE
