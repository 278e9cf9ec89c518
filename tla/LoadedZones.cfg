SPECIFICATION Spec
CONSTANTS
  a1 = a1
  a2 = a2
  a3 = a3
  a4 = a4
  fire = fire
  Fire = Fire
  sky = sky
  Pools = {z1, z2, z3}
  Assets = {a1, a2, a3, a4}
  Names = {fire, Fire, sky}
  Spelled <- SpelledMC
  Normalize <- NormalizeMC
  Priorities = {0, 1}
  None = None
  IPaks = {"base"}
  SoundBanks = {"weapons"}
SYMMETRY Symmetry
INVARIANTS TypeOK VisibleIsAlive NameVisible IPaksOfLoadedZones
PROPERTY ZonesKeepAnswers
