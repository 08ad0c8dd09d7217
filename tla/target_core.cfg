SPECIFICATION LiveSpec
CONSTANTS
  TempScale = 1
  NumTargets = 2
  channelConfig <- MCChannelConfig
  Clients <- CoreClients
  Sends <- CoreSends
  Reads <- CoreReads
  Checked = {"tcp", "tacho"}
  QueueLen = 1
  HeapMsgs = 3
  StaleAfter = 0
INVARIANTS
  TypeOK
  LockDiscipline
  PwmFollowsDuty
  NoTornRead
  HeapAccounted
  DisabledKeepsFullDuty
  CurveInForce
PROPERTIES
  Implements
  EveryCallReturns
  QuietMeansSettled
