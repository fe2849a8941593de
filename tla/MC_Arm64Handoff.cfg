SPECIFICATION HandoffSpec
CONSTANTS
  None = None
  Files <- HandoffFiles
  Inputs <- HandoffInputs
  MaxAddress = 63
  MinHeader = 1
  MaxSegments = 4
  MaxMembers = 2
  Profile = "Arm64"
  InstructionBytes = 2
  PageSize = 4
  MaxArena = 8
  MaxDisturbs = 1
  MaxWord = 31
  MaxAllocation = 40
  MaxTreeBytes = 8
  BlockBytes = 8
  StackBytes = 4
  ArgsBytes = 3
  ArgsAlign = 4
  TreeAlign = 2
  PixelBytes = 2
INVARIANTS
  HandoffTellsTheTruth
  PlansMeetPlacement
PROPERTIES
  HandoffCallsReturn
