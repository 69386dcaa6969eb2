SPECIFICATION FairSpec
CONSTANTS
  Ifaces <- MCIfaces
  Watched = 1
  LsuInt = 3
  TopoTimeout = 3
  SeqNumbers = 5
PROPERTIES RoundsDiffer ExpiryHasReason LinksLearnt
