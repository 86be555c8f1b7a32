CONSTANTS
  bufferSize = 4
  MaxCount = 4
  MaxElems = 9
  Word = 256
SPECIFICATION FlushSpec
INVARIANT CountWithinRoom
