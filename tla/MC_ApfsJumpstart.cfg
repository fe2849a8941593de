SPECIFICATION JumpstartSpec
CONSTANTS
  None = None
  Media <- AllMedia
  Replacements <- Others
  Calls <- SmallCalls
  MinBlock = 2
  MaxBlock = 4
  PowersOfTwo = {1, 2, 4, 8}
  PrefixBytes = 1
  MinContainer = 8
  TableStart = 1
  ExtentBytes = 1
  MaxSigned = 31
  MaxAddress = 63
  MaxChanges = 2
INVARIANTS
  DriverIsWhole
  ReadsStayInside
CHECK_DEADLOCK FALSE
