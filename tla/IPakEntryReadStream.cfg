SPECIFICATION Spec
CONSTANTS
  HeaderSize = 2
  ChunkSize = 8
  ChunksPerRead = 2
  CommandSize = 4
  MaxCommands = 4
  OffsetLimit = 64
  Images <- ImagesMC
  CompressedSizes = {1}
  ReadSizes = {1, 6}
  SeekBy = {5}
INVARIANTS IPakInv WindowHolds ReadsContent WindowAdjusts
