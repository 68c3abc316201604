\* Words of 2 bytes, AlignedChunks of 2 words, buffers of 2 AlignedChunks:
\* a request within one AlignedChunk, and one of two windows.
CONSTANTS
  WordBytes = 2
  ChunkWords = 2
  MinerBuffer = 8
  BufferSize = 8
  Capacity = 6
  Lengths = {3, 9}
  MaxRequests = 2
SPECIFICATION FairSpec
INVARIANTS TypeOK InOrder Framed WrongAfterCut
PROPERTIES ExchangeSpec RequestSettles
CHECK_DEADLOCK FALSE
