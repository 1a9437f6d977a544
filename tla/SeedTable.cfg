\* Tables of up to 34 seeds, past the step from a 5- to a 6-bit mask.
SPECIFICATION TableSpec
CONSTANTS
  SeedTableSize = 34
  MaxTableSeeds = 35
  Draws <- MCDraws
INVARIANTS
  DrawSelectsOne
  SeedsReachable
PROPERTIES
  NewSeedOnlySteals
CHECK_DEADLOCK FALSE
