CONSTANTS
  cL = 6
  SettleReads = 2
  LevelReads = 2
  NoDipLimit = 3
  MaxSamples = 2
  StopWhileStarting = TRUE
SPECIFICATION Spec
PROPERTY StopReturns
