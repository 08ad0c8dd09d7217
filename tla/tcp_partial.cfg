SPECIFICATION Spec
CONSTANTS
  Peers = {p1}
  NumSlots = 2
  Requests = {"login"}
  HeaderLen = 2
  BodyLen = 3
  MaxInFlight = 1
  Cuts = {}
PROPERTIES
  OwnEntryOnly
