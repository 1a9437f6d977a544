\* Four table seeds, seven combinations, room for 32 move-back entries.
SPECIFICATION Spec
CONSTANTS
  eth = eth
  ip = ip
  dstMac = dstMac
  dstIp = dstIp
  srcIp = srcIp
  v1 = v1
  v2 = v2
  AnyValue = AnyValue
  Values = {v1, v2}
  Fields <- MCFields
  HeaderOf <- MCHeaderOf
  TableOrder <- MCTableOrder
  KeysOf <- MCKeysOf
  InitialPaths <- MCInitialPaths
  NewPaths <- MCNewPaths
  InitialLearnt <- MCInitialLearnt
  NewRules <- MCNewRules
  TopTable = 3
  TopCombination = 7
  SetTableSize = 8
  MoveBackSize = 32
  MaxSeeds = 4
  MaxRules = 3
INVARIANTS
  MutatesWholeKeys
  EveryTableDrawn
  EveryPacketMutated
  LearntValuesTried
CHECK_DEADLOCK FALSE
