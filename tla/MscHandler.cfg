SPECIFICATION Spec
CONSTANTS
  Backends = {b1, b2}
  Keys = {k1, k2}
  NUMBER_SLOTS = 1
  Depth = 1
  BlocksPerCif = 1
  MaxCif = 3
PROPERTIES MutexReleased StopReturns
CHECK_DEADLOCK FALSE
