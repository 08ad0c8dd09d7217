SPECIFICATION Spec
CONSTANTS
  Peers = {p1, p2}
  NumSlots = 1
  Requests = {"login", "badLogin", "perf", "duty", "info", "unknown", "tooBig"}
  HeaderLen = 2
  BodyLen = 2
  MaxInFlight = 1
  Cuts = {2}
SYMMETRY PeerSymmetry
INVARIANTS
  TypeOK
  InStep
  LoginNotInherited
  OnlyLoggedInHeard
PROPERTIES
  ImplementsSessions
