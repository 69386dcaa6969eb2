CONSTANTS
  Routers <- MCRouters
  Ifaces <- MCIfaces
  Link <- MCPointToPoint
  Timeout = 2
  QuietLimit = 8
SPECIFICATION FairSpec
CHECK_DEADLOCK FALSE
INVARIANTS OneEntryPerRouter  
  
