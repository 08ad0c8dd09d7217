SPECIFICATION LiveSpec
CONSTANTS
  Peers = {p1, p2}
  NumSlots = 2
  Requests = {"config"}
  HeaderLen = 1
  BodyLen = 2
  MaxInFlight = 1
  Cuts = {}
INVARIANTS
  SlotPerConnection
PROPERTIES
  PendingAnswered
  RequestsRead
  GonePeerFreesSlot
