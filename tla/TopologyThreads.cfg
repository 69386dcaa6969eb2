CONSTANTS
  Self = 1
  Routers <- MCRouters
  Nets <- MCNets
  Adverts <- MCOneNet
  Via <- MCThrough2
  Workers = {w1, w2}
  TopoTimeout = 1
  SeqNumbers = 2
  MaxEntries = 6
  QuietLimit = 1
SPECIFICATION Spec
SYMMETRY MCSymmetry
VIEW MCThreadsView
INVARIANTS BoundedCopies RoutesFollow
