CONSTANTS
  A = A
  B = B
  toA = toA
  toB = toB
  lsuA = lsuA
  lsuB = lsuB
  errB = errB
  Hops = {A, B}
  NoHop = NoHop
  Transit = {toA, toB}
  Lsus = {}
  Errors = {errB}
  NextHop <- MCNextHop
  IcmpError <- MCErrorBack
  NoPacket = NoPacket
  Main = Main
  Sweeper = Sweeper
  Workers = {}
  NoThread = NoThread
  CacheSize = 1
  CacheTimeout = 1
  MaxSends = 1
  MaxReqs = 3
  StackLimit = 9
SPECIFICATION FairSpec
CHECK_DEADLOCK FALSE
INVARIANTS NoPacketForgotten
PROPERTY ImplementsService
