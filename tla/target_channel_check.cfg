SPECIFICATION Spec
CONSTANTS
  TempScale = 1
  NumTargets = 2
  channelConfig <- MCChannelConfig
  Clients <- TcpClient
  Sends <- NoSends
  Reads <- StatusReads
  Checked = {"tcp"}
  QueueLen = 2
  HeapMsgs = 4
  StaleAfter = 5
INVARIANTS
  InvalidChannelRefused
