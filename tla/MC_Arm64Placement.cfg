SPECIFICATION PlacementSpec
CONSTANTS
  None = None
  Inputs <- SmallInputs
  Kernels <- SmallKernels
  Backings <- SmallBackings
  MaxAddress = 63
  MaxWord = 31
  MaxAllocation = 40
  MaxTreeBytes = 8
  PhysicalLimit = 60
  PageSize = 4
  BlockBytes = 8
  StackBytes = 4
  ArgsBytes = 3
  ArgsAlign = 4
  TreeAlign = 2
  PixelBytes = 2
INVARIANTS
  PiecesAreApart
  BasesTranslate
  BackingHoldsLayouts
CHECK_DEADLOCK FALSE
