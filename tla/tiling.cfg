CONSTANTS
  Alignment = 2
  Overlap = 4
  NetNodes = 3
  K = 4
  MaxH = 21
  MaxW = 17
SPECIFICATION Spec
INVARIANT TypeOK
INVARIANT WrittenOnce
INVARIANT EnoughContext
INVARIANT PlacedInBuffer
INVARIANT CutsBounded
INVARIANT MeasuredOnce
INVARIANT ReadsSource
INVARIANT CancelledWhole
INVARIANT TotalMeansComplete
CHECK_DEADLOCK FALSE
