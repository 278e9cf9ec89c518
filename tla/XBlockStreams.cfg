SPECIFICATION Spec
CONSTANTS
  Types <- TypesMC
  Graphs <- GraphsMC
INVARIANTS
  XBlockInv
  SamePlaces
  ReadsBack
PROPERTY
  ZoneLoads
