SPECIFICATION LiveSpec
CONSTANTS
  Peers = {p1}
  NumSlots = 1
  Requests = {"config"}
  HeaderLen = 2
  BodyLen = 2
  MaxInFlight = 1
  Cuts = {1}
PROPERTIES
  GonePeerFreesSlot
