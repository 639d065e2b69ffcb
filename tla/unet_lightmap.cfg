CONSTANTS
  m1 = m1  m2 = m2
  none = none  small = small  large = large
  low = low  high = high
  Kind = "RTLightmap"
  Images <- LightmapImages
  NoImage = NoImage
  Sizes = {none, small, large}
  Empty = none
  Memories = {low, high}
  Tiled <- MCTiled
  Blobs = {"good", "bad"}
  GoodBlobs = {"good"}
  NoData = NoData
  MaxVersion = 1
  NullData = FALSE
  AllocFails = TRUE
  NoNet = NoNet
  Partial = Partial
SPECIFICATION Spec
INVARIANT TypeOK
INVARIANT CommittedIsBuilt
INVARIANT InPlaceSafe
