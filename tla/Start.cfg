SPECIFICATION FairSpec
CONSTANTS
  Ifaces <- MCIfaces
  Junk <- MCJunk
  MaxConns = 2
  MaxPackets = 2
CHECK_DEADLOCK FALSE
INVARIANTS HandshakeInOrder StartsRight
PROPERTIES StartUpEnds
