SPECIFICATION Spec
CONSTANTS
  Depth = 8
  CifsPerFrame = 4
  FirstCifs = {236, 4986}
  MaxFrames = 6
INVARIANTS TypeOK CountAndFibsOfCif SettledFrames
CHECK_DEADLOCK FALSE
