SPECIFICATION StartupSpec
CONSTANTS
  Companions <- SmallCompanions
  Arenas <- SmallArenas
  StuckSets <- Stucks
  PageSize = 4
  HeaderBytes = 2
  MaxFile = 16
  MaxImage = 16
  MaxSegments = 3
  MaxWord = 15
  MaxPointer = 63
INVARIANTS
  RefusalsWriteNothing
  ImagesAreWhole
  PlacedApart
CHECK_DEADLOCK FALSE
