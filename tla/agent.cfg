SPECIFICATION LiveSpec
CONSTANTS
  Cap = 1
  MaxUp = 1
  MaxDown = 1
  Garbage = {"info"}
INVARIANTS
  TypeOK
  WriterEndsWithLink
  OneHandshake
  StatusAfterLogin
PROPERTIES
  ReportsGoOn
  WriterStops
CHECK_DEADLOCK FALSE
