SPECIFICATION SearchSpec
CONSTANTS
  None = None
  Ledgers = {l1}
  Capacity = 4
  MaxReservations = 3
  MaxAddress = 15
  MaxGeneration = 3
  MaxOwner = 2
  TreeAlignment = 2
  Bytes = {0}
  InitialByte = 0
  Apertures <- SearchApertures
  Requests <- SearchRequests
  Purposes = {"KernelImage"}
  Copies = {}
  TreeSizes = {}
  MaxSnapshots = 1
  MaxPrepared = 1
PROPERTIES
  LoopImplementsAllocate
  PlacesLowestFit
  SearchReturns
