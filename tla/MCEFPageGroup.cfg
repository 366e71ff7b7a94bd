SPECIFICATION FairSpec
CONSTANTS
  Byte = {0, 1}
  Zero = 0
  PageLength = 2
  Layouts <- MCLayouts
  Offsets <- MCOffsets
  Lengths <- MCLengths
  Buffers <- MCBuffers
  BufferSize = 4
  MaxLength = 5
INVARIANTS
  TypeOK
  CopyInBounds
PROPERTIES
  Returns
  ImplementsByteStore
