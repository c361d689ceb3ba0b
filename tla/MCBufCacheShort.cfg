SPECIFICATION Spec
CONSTANTS
  Lwp = {l1, l2}
  Blk = {k1, k2}
  Buf = {b1, b2, b3}
  lh_first = lh_first
  Null = Null
  LoWater = 0
  HiWater = 2
  Ops = {"read"}
  StructShort = TRUE
  MemShort = FALSE
  IOErrors = FALSE
  Bounded = FALSE
  Rounds = 1
SYMMETRY Symmetry
INVARIANT InCoreFound
CHECK_DEADLOCK FALSE
