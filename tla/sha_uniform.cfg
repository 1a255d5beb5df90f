SPECIFICATION FairSpec
CONSTANTS
  Producers = {p1, p2}
  Consumers = {c1}
  Capacity = 8
  Hdr = 1
  Sizes = {2}
  Images <- MCImages
  MaxPackets = 3
  ShortMax = 3
  Serial = FALSE
INVARIANTS HandlerSeesPacket NoLostWakeup
PROPERTIES ImplementsChannel EverySentIsDelivered
