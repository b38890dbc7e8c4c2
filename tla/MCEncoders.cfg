\* A picture of 8 by 8 and one of 32 pixels; files that fill neither, one or both.
CONSTANTS
  Order = 3
  Shift <- MCShift
  LinearTotal = 32
  FileLength <- MCFileLength
SPECIFICATION Spec
INVARIANTS TypeOK EveryPixelOnce NeighboursTouch NearbyStaysNear PicturesAgree
CHECK_DEADLOCK FALSE
