SPECIFICATION Spec
CONSTANTS
  Cells = {1, 2, 3}
  Wild = wild
  Junk = junk
  r1 = r1
  r2 = r2
  start = start
  lsuThread = lsuThread
  receive = receive
  c1 = c1
  c2 = c2
  d1 = d1
  d2 = d2
  Runs = {r1, r2}
  Start = start
  Lsu = lsuThread
  Forward = receive
  Connected <- MCConnected
  Targets <- MCTargets
  Tables <- MCTables
CONSTRAINT Bounds
SYMMETRY Symmetry
INVARIANTS ConnectedKept ConnectedReached 
CHECK_DEADLOCK FALSE
