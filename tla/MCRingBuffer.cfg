CONSTANTS
  bufferSize = 4
  MaxCount = 5
  MaxElems = 18
  Word = 256
  LogWidth = 3
SPECIFICATION Spec
INVARIANTS TypeOK FillLevelExact WriteWithinRoom FifoOrder SmallestPowerOfTwo
PROPERTY RefinesBoundedFifo
