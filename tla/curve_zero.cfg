SPECIFICATION Spec
CONSTANTS
  TempScale = 2
  Configs <- MCConfigs
  Temps <- MCTemps
INVARIANTS
  ZeroMeansFull
