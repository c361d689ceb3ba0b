SPECIFICATION PartsSpec
CONSTANTS
  n1 = n1
  n2 = n2
  n3 = n3
  vt = vt
  k1 = k1
  k2 = k2
  k3 = k3
  t1 = t1
  t2 = t2
  lh_first = lh_first
  Nfsd = {n1, n2}
  Request = {r1, r2, r3}
  NonIdempotent = {r1, r2}
  Inet = {r1, r3}
  CacheEntry = {e1, e2}
  CacheSizes = {1, 2}
  MaxSend = 4
  LWP = {t1, t2}
  Mount = {k1, k2}
  MaxNest = 2
  None = None
SYMMETRY Symmetry
INVARIANTS
  FSTransSafe
  VnodeSafe
  BufCacheSafe
PROPERTIES
  NFSCacheSafe
CHECK_DEADLOCK FALSE
