SPECIFICATION Spec
CONSTANTS
  p1 = p1
  c1 = c1
  Producers = {p1}
  Consumers = {c1}
  Capacity = 8
  Hdr = 1
  Sizes = {1, 4}
  Images <- MCImages
  MaxPackets = 4
  ShortMax = 7
  Serial = FALSE
INVARIANT HandlerSeesPacket
