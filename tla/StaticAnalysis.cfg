SPECIFICATION Spec
CONSTANTS
  Graphs <- MCGraphs
  HeaderOf <- MCHeaderOf
INVARIANTS
  NothingLost
  KeysMutated
PROPERTIES
  FlowsFound
CHECK_DEADLOCK FALSE
