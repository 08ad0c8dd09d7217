SPECIFICATION LiveSpec
CONSTANTS
  Channels = {"device-0"}
  Fields <- MCFields
  DeviceKeys <- MCDeviceKeys
  Stored <- MCStored
  HeapBufs = 3
  MaxRetries = 2
INVARIANTS
  TypeOK
  UsedAfterStart
  ConfigKept
  OnlyAuthenticated
  RestHeapAccounted
CHECK_DEADLOCK FALSE
PROPERTIES
  BootEnds
  RequestsAnswered
