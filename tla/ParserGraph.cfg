SPECIFICATION Spec
CONSTANTS
  Sources <- MCSources
  StackSize <- MCStackSize
  FirstField <- MCFirstField
  Instances <- MCInstances
  Start = "start"
  Ingress = "ingress"
  Cap = 7
  PacketValues = {"v0", "v1", "v2"}
INVARIANTS
  PathsAreWalks
  MergeKeepsHeaders
  SeedsTakeTheirPath
PROPERTIES
  AllWalksFound
CHECK_DEADLOCK FALSE
