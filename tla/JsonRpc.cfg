SPECIFICATION RpcSpec
CONSTANTS
  c1 = c1
  c2 = c2
  Clients = {c1, c2}
  MaxCalls <- MCMaxCalls
  Calls <- MCCalls
  Methods <- MCMethods
  Fragile = {"divide"}
  Long = {"sum"}
INVARIANTS RunOnce OneCutOff
PROPERTIES CallEnds ShutdownEnds
CHECK_DEADLOCK FALSE
