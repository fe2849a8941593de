SPECIFICATION RuntimeSpec
CONSTANTS
  Nothing = Nothing
  NameBytes <- SmallNames
  Printable <- SmallPrintable
  Word = 2
  NodeBytes = 2
  PropertyBytes = 3
  TemplateFlag = 64
  MaxSerialized = 24
  MaxDepth = 1
  MaxNodes = 3
  MaxProperties = 5
  MaxPropertiesPerNode = 3
  MaxChildrenPerNode = 2
  MaxNodeName = 2
  MaxPropertyName = 2
  FirmwareMaxInput = 32
  FirmwareMaxNodes = 4
  FirmwareMaxProperties = 6
  FirmwareMaxPropertiesPerNode = 4
  FirmwareMaxChildrenPerNode = 3
  FirmwareMaxDepth = 2
  Requests <- SmallRequests
  Models <- SmallModels
  Outcomes <- PreparedOutcomes
  Encodings <- EncodedModels
  Rams <- SmallRams
  Reservations <- SmallReservations
  MaxOutput = 24
  MaxBindings = 2
  MaxGuestAddress = 63
  MaxWrites = 1
INVARIANTS
  CodecAgrees
  MeasuredIsWritten
  PreparedIsResolved
  OnlyTheReservation
CHECK_DEADLOCK FALSE
