SPECIFICATION LiveSpec
CONSTANTS
  TempScale = 1
  NumTargets = 2
  channelConfig <- MCChannelConfig
  Clients <- TcpClient
  Sends <- CoolReports
  Reads <- NoReads
  Checked = {"tcp"}
  QueueLen = 2
  HeapMsgs = 4
  StaleAfter = 5
PROPERTIES
  StaleGetsFullDuty
