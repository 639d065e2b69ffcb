CONSTANTS
  f1 = f1  f2 = f2  f3 = f3
  Filters = {f1, f2}
  Tensors = {"dst"}
  Sizes = {1, 2, 3}
  Blocks = {1, 2, 3}
  FailsIn = {"attach"}
SPECIFICATION Spec
INVARIANT PointersValid
CHECK_DEADLOCK FALSE
