CONSTANTS
  A = A
  B = B
  toA = toA
  toB = toB
  lsuA = lsuA
  lsuB = lsuB
  errB = errB
  Hops = {A, B}
  NoHop = NoHop
  Transit = {toA}
  Lsus = {lsuA, lsuB}
  Errors = {}
  NextHop <- MCNextHop
  IcmpError <- MCNoError
  NoPacket = NoPacket
  Main = Main
  Sweeper = Sweeper
  Workers = {w}
  NoThread = NoThread
  CacheSize = 1
  CacheTimeout = 0
  MaxSends = 1
  MaxReqs = 2
  StackLimit = 4
SPECIFICATION Spec
CHECK_DEADLOCK FALSE
INVARIANTS  OneRequestPerHop  SweepPointerLive
VIEW MCView
