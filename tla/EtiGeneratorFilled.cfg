SPECIFICATION Spec
CONSTANTS
  Depth = 16
  CifsPerFrame = 4
  FirstCifs = {0}
  MaxFrames = 6
INVARIANT MatrixFilled
CHECK_DEADLOCK FALSE
