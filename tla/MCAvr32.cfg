SPECIFICATION PartsSpec
CONSTANTS
  p1 = p1
  p2 = p2
  p3 = p3
  x = x
  y = y
  kernel = kernel
  la = la
  lb = lb
  PmapID = {p1, p2, p3}
  MaxASID = 3
  GenBits = 2
  MaxIdle = 3
  None = None
SYMMETRY Symmetry
INVARIANTS
  OwnTranslations
  PortSafe
CHECK_DEADLOCK FALSE
