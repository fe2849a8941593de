SPECIFICATION Spec
CONSTANTS
  None = None
  Ledgers = {l1, l2}
  Capacity = 1
  MaxReservations = 1
  MaxAddress = 3
  MaxGeneration = 2
  MaxOwner = 3
  TreeAlignment = 2
  Bytes = {0, 1}
  InitialByte = 0
  Apertures <- OwnerApertures
  Requests <- OwnerRequests
  Purposes <- CommitPurposes
  Copies <- OwnerCopies
  TreeSizes = {1}
  MaxSnapshots = 1
  MaxPrepared = 1
SYMMETRY LedgerSymmetry
INVARIANTS
  TokensNeverReused
PROPERTIES
  ReleasedStaysReleased
