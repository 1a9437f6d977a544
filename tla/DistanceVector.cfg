\* Two pairs, one with a static route, a count that overflows with the second, two
\* neighbours, two addresses to advertise on, and ARP packets.
SPECIFICATION FairSpec
CONSTANTS
  p1 = p1
  p2 = p2
  k1 = k1
  k2 = k2
  n1 = n1
  n2 = n2
  m1 = m1
  i1 = i1
  NoHop = NoHop
  Prefixes <- MCPair
  Masked <- MCMasked
  StaticRoutes = {k1}
  Sources = {n1, n2}
  Costs = {0, 14, 200}
  Macs = {m1}
  Ips = {i1}
  Infinity = 16
  MaxIterations = 2
  PackedEntries = 1
  CountLimit = 1
  NumIPs = 2
  AddressPassed = FALSE
INVARIANTS
  PayloadIsOneVector
  RoutesPublished
  CostFromNextHop
  RoutesInstalled
  LockLostOnlyByOverflow
PROPERTIES
  HopChangesOnlyForLess
  BothGoOn
CHECK_DEADLOCK FALSE
