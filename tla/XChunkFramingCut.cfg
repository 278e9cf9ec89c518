SPECIFICATION Spec
CONSTANTS
  NumStreams = 2
  ChunkSize = 3
  WriteSize = 2
  HeaderSize = 2
  VanillaBufferSize = 5
  StartPos = 1
  ZeroMin = 6
  ZeroAlign = 4
  BlockHashes = 2
  Hashes = {h1, h2}
  Garbled = garbled
  MayBeCut = TRUE
  MaxContent = 5
INVARIANTS
  ReadsBack
PROPERTIES
  ReadingEnds
