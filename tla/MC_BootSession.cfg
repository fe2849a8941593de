SPECIFICATION BootSpec
CONSTANTS
  MaxInput = 8
  MaxDepth = 7
  MaxPathUnits = 8
  MaxEntries = 5
  MaxArguments = 5
  MaxVolume = 4
  MaxName = 3
  MaxKernelArguments = 6
  Granule = 4
  LeastMemory = 8
  MostMemory = 16
  VectorAlign = 2
  MaxNumber = 63
  MaxRecord = 8
  MaxSelectedImage = 4
  MaxBootKc = 6
  Boots <- SmallBoots
INVARIANTS
  MenuMatchesTarget
  KeyOrderIsFree
  PickerTellsTheTruth
  CapabilitiesNest
  PartsBelongTogether
CHECK_DEADLOCK FALSE
