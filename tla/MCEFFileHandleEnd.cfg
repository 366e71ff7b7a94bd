SPECIFICATION FairSpec
CONSTANTS
  Byte = {0, 1}
  Zero = 0
  PageLength = 2
  MaxIndex = 7
  MaxSize = 4
  Offsets <- MCOffsets
  Lengths <- MCCounts
  Buffers <- MCBuffers
  BufferSize = 3
INVARIANT
  EndIsLastWritten
