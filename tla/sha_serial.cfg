SPECIFICATION FairSpec
CONSTANTS
  Producers = {p1, p2}
  Consumers = {c1}
  Capacity = 8
  Hdr = 1
  Sizes = {1, 4}
  Images <- MCImages
  MaxPackets = 4
  ShortMax = 7
  Serial = TRUE
INVARIANTS BlocksTile OnlyTailLeaks
PROPERTIES ImplementsChannel BlockFrozen PrepareReturns
