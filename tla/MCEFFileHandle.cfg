SPECIFICATION FairSpec
CONSTANTS
  Byte = {0, 1}
  Zero = 0
  PageLength = 2
  MaxIndex = 7
  MaxSize = 4
  Offsets <- MCOffsets
  Lengths <- MCLengths
  Buffers <- MCBuffers
  BufferSize = 3
INVARIANTS
  TypeOK
  TailIsZero
  WrittenIsInside
PROPERTIES
  Returns
  ImplementsFile
