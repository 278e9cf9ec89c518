SPECIFICATION Spec
CONSTANTS
  NumStreams = 2
  ChunkSize = 3
  WriteSize = 2
  HeaderSize = 2
  VanillaBufferSize = 5
  StartPos = 1
  ZeroMin = 6
  ZeroAlign = 4
  BlockHashes = 2
  Hashes = {h1, h2}
  Garbled = garbled
  MayBeCut = FALSE
  MaxContent = 9
INVARIANTS
  HeadersFit
  KeepsItsPlace
  FramingInv
  ReadsBack
  SignedData
PROPERTIES
  ZoneLoads
