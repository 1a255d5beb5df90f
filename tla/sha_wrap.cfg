SPECIFICATION FairSpec
CONSTANTS
  p1 = p1
  c1 = c1
  Producers = {p1}
  Consumers = {c1}
  Capacity = 9
  Hdr = 1
  Sizes = {2}
  Images <- MCImages
  MaxPackets = 6
  ShortMax = 3
  Serial = FALSE
PROPERTY EverySentIsDelivered
