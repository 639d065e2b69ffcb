CONSTANTS
  p1 = p1  p2 = p2  p3 = p3
  a = a  b = b  c = c
  ta = ta  tb = tb  tc = tc
  l1 = l1  l2 = l2
  i1 = i1  i2 = i2  i3 = i3  i4 = i4  i5 = i5  i6 = i6
  Paths = {a, b, c}
  Temps = {ta, tb, tc}
  Lists = {l1, l2}
  Blank = Blank
  NoFile = NoFile
  Truncated = Truncated
  Inodes = {i1, i2, i3, i4, i5, i6}
  Home <- MCHome
  Lines <- MCLines
  Procs = {p1, p2}
  TempOf <- OwnTemp
  Args <- OneEach
  OtherDevice = {a}
  Faults = {}
  MaxStarts = 1
SPECIFICATION Spec
INVARIANT KeptOrReplaced
CHECK_DEADLOCK FALSE
