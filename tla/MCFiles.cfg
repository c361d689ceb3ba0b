SPECIFICATION PartsSpec
CONSTANTS
  l1 = l1
  l2 = l2
  l3 = l3
  d1 = d1
  d2 = d2
  f1 = f1
  f2 = f2
  c1 = c1
  c2 = c2
  s1 = s1
  s2 = s2
  None = None
  LWP = {l1, l2, l3}
  FD = {d1, d2}
  File = {f1, f2}
  Null = None
  MaxCalls = 2
SYMMETRY Symmetry
INVARIANTS
  DescriptorsSafe
  LockFSafe
  SelectSafe
  PipeSafe
  UnpGCSafe
CHECK_DEADLOCK FALSE
