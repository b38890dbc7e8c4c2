\* Two invocations, two images with two files each and one tarball path.
CONSTANTS
  first = first
  second = second
  Flag <- MCFlag
  Assigned <- MCAssigned
  TakesValue <- MCTakesValue
  RunTakesValue <- MCRunTakesValue
  GlobalTakesValue <- MCGlobalTakesValue
  Group <- MCGroup
  Parts <- MCParts
  Inv <- MCInv
  Lines <- MCLines
  Image <- MCImage
  Contents <- MCContents
  Metadata <- MCMetadata
  TarPath <- MCTarPath
  ScanLimit = 2
  Blocks = 2
  MaxFailures = 1
  Classes = 2
  Benign = 1
  Whole = 2
  CnnThreshold = 2
  GnnThreshold = 1
SPECIFICATION Spec
INVARIANTS TypeOK ImageFound OwnPicture RunsOnlyJudged AccusedNeedConsent LackHasWriter
PROPERTY GateSpec
CHECK_DEADLOCK FALSE
