SPECIFICATION LiveSpec
CONSTANTS
  NumTargets = 3
  TachoQueueLen = 2
  MaxPulses = 2
INVARIANTS
  TypeOK
  OneMeasurement
  SpeedOfItsFan
PROPERTIES
  ImplementsWindows
  EveryFanMeasured
