SPECIFICATION Spec
CONSTANTS
  NumStreams = 2
  NumProcessors = 2
  MaxChunkSize = 2
  MaxRequest = 2
  MaxChunks = 3
  SpuriousWakeups = TRUE
  Inputs <- MCInputs
PROPERTIES
  LoadEnds
