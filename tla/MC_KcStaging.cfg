SPECIFICATION Spec
CONSTANTS
  None = None
  Files <- StagedFiles
  MaxAddress = 20
  MinHeader = 1
  MaxSegments = 8
  MaxMembers = 2
  Profile = "X86_64"
  InstructionBytes = 2
  PageSize = 4
  MaxArena = 12
  MaxDisturbs = 1
INVARIANTS
  StagingTellsTheTruth
  AcceptedCollectionsFit
CHECK_DEADLOCK FALSE
