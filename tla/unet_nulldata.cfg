CONSTANTS
  m1 = m1  m2 = m2
  none = none  small = small  large = large
  low = low  high = high
  Kind = "RT"
  Images <- RTImages
  NoImage = NoImage
  Sizes = {none, small, large}
  Empty = none
  Memories = {low}
  Tiled <- MCTiled
  Blobs = {"good"}
  GoodBlobs = {"good"}
  NoData = NoData
  MaxVersion = 0
  NullData = TRUE
  AllocFails = FALSE
  NoNet = NoNet
  Partial = Partial
SPECIFICATION Spec
INVARIANT CommittedIsBuilt
CHECK_DEADLOCK FALSE
