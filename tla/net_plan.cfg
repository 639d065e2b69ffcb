CONSTANTS
  Shapes <- MCShapes
  Tiles = 2
SPECIFICATION Spec
INVARIANT TypeOK
INVARIANT OutputIntact
INVARIANT TempKept
INVARIANT LaidOut
CHECK_DEADLOCK FALSE
