CONSTANTS
  t1 = t1  t2 = t2  dev = dev  b1 = b1  b2 = b2  f1 = f1  f2 = f2  e1 = e1  e2 = e2
  n1 = n1  n2 = n2
  Threads = {t1, t2}
  Device = dev
  Buffers = {b1}
  Filters = {f1, f2}
  Nothing = Nothing
  Parts = {n1}
  Callbacks = {e1}
  MaxHandles <- TwoToOne
  DeviceLast = TRUE
SPECIFICATION Spec
CONSTRAINT SmallCrowd
INVARIANT TypeOK
INVARIANT AliveInUse
INVARIANT CountsExact
INVARIANT NothingLeaks
INVARIANT CallbackPaired
PROPERTY LockReleased
CHECK_DEADLOCK FALSE
