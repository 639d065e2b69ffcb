CONSTANTS
  f1 = f1  f2 = f2  f3 = f3
  a1 = a1  a2 = a2  w1 = w1  w2 = w2
  Filters = {f1, f2, f3}
  Tensors = {"dst"}
  Sizes = {1, 2, 3}
  Blocks = {1, 2, 3}
  FailsIn = {"attach alone", "detach"}
  Apps = {a1, a2}
  Workers = {w1}
  NoSlot = NoSlot
  NumSlots = 2
  NumAffinities = 2
  Failing = {"set"}
  Codes = {"OutOfMemory", "InvalidOperation"}
  NoError = NoError
  Nobody = Nobody
  MaxFailures = 2
SYMMETRY Symmetry
SPECIFICATION SessionSpec
INVARIANT SessionTypeOK
INVARIANT PointersValid
INVARIANT AsLargeAsNeeded
INVARIANT MemorySafe
INVARIANT AffinityRestored
INVARIANT FirstErrorKept
CHECK_DEADLOCK FALSE
