SPECIFICATION Spec
CONSTANTS
  NumStreams = 2
  NumProcessors = 2
  MaxChunkSize = 2
  MaxRequest = 3
  MaxChunks = 4
  SpuriousWakeups = FALSE
  Inputs <- MCInputs
INVARIANTS
  InOrder
  BufferOwnership
  ReadAheadBounded
  ShortOnlyAtEnd
  CleanShutdown
  DecodingInv
PROPERTIES
  DecryptsInZoneOrder
  ImplementsByteStream
