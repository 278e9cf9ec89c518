SPECIFICATION Spec
CONSTANTS
  ChunkSize = 3
  GroupChunks = 2
  MaxGroups = 2
  Zones <- ZonesMC
  ReadSizes = {1, 3}
INVARIANTS AuthInv AssertionsHold
PROPERTIES ImplementsByteStream SignedZoneLoads
