SPECIFICATION Spec
CONSTANTS
  Types <- TypesClipMap
  Graphs <- GraphsMC
PROPERTY
  ZoneLoads
