SPECIFICATION Spec
CONSTANTS
  Interfaces <- MCInterfaces
  Hosts <- MCHosts
  Presence <- MCPresence
  AllSpf <- MCAllSpf
  Bits = 4
  TtlLimit = 8
  IcmpTtl = 7
  Tables <- MCTables
  Originals <- MCOriginals
INVARIANTS Arrives SenderIsTold LongestWins
PROPERTY PacketEnds
CHECK_DEADLOCK FALSE
