SPECIFICATION Spec
CONSTANTS
  Names = {"weapon", "other", "attachment", "sight", "model", "anim", "impact"}
  Targets = {"mod", "mod2"}
  NoTarget = NoTarget
  Projects <- ProjectsMC
INVARIANTS CreationInv OnlyNeeded DependenciesPlaced DataOnce ZoneIffAvailable
PROPERTY LinkerEnds
