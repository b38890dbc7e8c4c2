\* Pictures of an earlier image in the shared directory.
CONSTANTS
  first = first
  second = second
  Flag <- MCFlag
  Assigned <- MCAssigned
  TakesValue <- MCTakesValue
  RunTakesValue <- MCRunTakesValue
  GlobalTakesValue <- MCGlobalTakesValue
  Group <- MCGroup
  Parts <- MCParts
  Inv <- MCInv
  Lines <- MCLines
  Image <- MCImage
  Contents <- MCContents
  Metadata <- MCMetadata
  TarPath <- MCTarPath
  ScanLimit = 2
  Blocks = 2
  MaxFailures = 0
  Classes = 2
  Benign = 1
  Whole = 2
  CnnThreshold = 2
  GnnThreshold = 1
SPECIFICATION Spec
INVARIANT VerdictOfImage
CHECK_DEADLOCK FALSE
