SPECIFICATION StageSpec
CONSTANTS
  None = None
  Requests <- SmallRequests
  MaxAddress = 191
  Slots = 2
  PageSize = 4
  TableBits = 3
  PageBits = 1
  MaxMemory = 16
  MaxAliasBytes = 8
  MaxAliases = 2
  MaxTableBytes = 80
  PaEnd = 112
INVARIANTS
  TranslatesWhatIsMeant
  ConstructionHolds
PROPERTIES
  GrowsPageByPage
CHECK_DEADLOCK FALSE
