SPECIFICATION Spec
CONSTANTS
  None = None
  Files <- RewrittenFiles
  MaxAddress = 63
  MinHeader = 1
  MaxSegments = 6
  MaxMembers = 2
  Profile = "X86_64"
  InstructionBytes = 2
  Limits <- SmallLimits
  MaxRecords = 8
  PageSizes = {8, 16}
  PageSize = 4
  MaxArena = 40
  Slides = {1}
  MaxHalf = 31
  MaxDisturbs = 1
INVARIANTS
  MembersAreViews
  HeadersAreMapped
  OverlapsAreFound
  CleanWritesAreBacked
  WordsAreTheKernels
  RebaseIsExact
CHECK_DEADLOCK FALSE
