SPECIFICATION FairSpec
CONSTANTS
  Routers <- MCRouters
  Nets <- MCNets
  Networks <- MCNetworks
  Connected <- MCConnected
  CostSize = 256
  MaxUnheard = 2
INVARIANTS HeapOrdered ShortestRoutes
PROPERTY RunEnds
CHECK_DEADLOCK FALSE
