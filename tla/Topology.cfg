CONSTANTS
  Self = 1
  Routers <- MCRouters
  Nets <- MCNets
  Adverts <- MCHeard
  Via <- MCDirect
  Workers = {w1}
  TopoTimeout = 2
  SeqNumbers = 2
  MaxEntries = 3
  QuietLimit = 2
VIEW MCView
SPECIFICATION FairSpec
 
PROPERTIES  SilentExpires ArrivingIsKept
