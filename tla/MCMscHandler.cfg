SPECIFICATION Spec
CONSTANTS
  Backends = {b1, b2}
  Keys = {k1, k2}
  NUMBER_SLOTS = 2
  Depth = 2
  BlocksPerCif = 2
  MaxCif = 5
SYMMETRY Symmetry
INVARIANTS TypeOK WorkingBackendExists FrameFromConsecutiveCifs
PROPERTY NoFrameLost
CHECK_DEADLOCK FALSE
