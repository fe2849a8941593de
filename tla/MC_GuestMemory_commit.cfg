SPECIFICATION Spec
CONSTANTS
  None = None
  Ledgers = {l1}
  Capacity = 3
  MaxReservations = 2
  MaxAddress = 7
  MaxGeneration = 3
  MaxOwner = 2
  TreeAlignment = 2
  Bytes = {0, 1}
  InitialByte = 0
  Apertures <- CommitApertures
  Requests <- CommitRequests
  Purposes <- CommitPurposes
  Copies <- CommitCopies
  TreeSizes = {2}
  MaxSnapshots = 1
  MaxPrepared = 1
INVARIANTS
  ReservationsDisjoint
PROPERTIES
  CommitsToSeenState
  FailureIsAtomic
  ImplementsPromise
