SPECIFICATION Spec
CONSTANTS
  Groups <- MCGroups
  DirObjects <- MCDirObjects
  TableSize = 2
  MaxDamaged = 4
  Frames <- MCFrames
  PadGroups <- MCPadGroups
  LabelSizes <- MCLabelSizes
  MaxLost = 4
INVARIANTS
  TypeOK
  PacketBodyIntact
  OneHandlePerObject
  PadObjectIntact
  LabelIntact
PROPERTIES
  EmittedOnce
  EveryObjectEmitted
  LabelShown
