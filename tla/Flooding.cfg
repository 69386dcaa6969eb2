SPECIFICATION FloodSpec
CONSTANTS
  a = a
  b = b
  c = c
  d = d
  Routers = {a, b, c, d}
  Links <- MCLinks
  Mortal = {a}
  LastNumber <- MCLastNumber
  BadSum = {d}
  LsuTtl = 4
  TopoTimeout = 1
  Late = 2
INVARIANT OneCopyPerLink
PROPERTIES DeadForgotten RestartHeard
CHECK_DEADLOCK FALSE
