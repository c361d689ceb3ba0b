SPECIFICATION PartsFairSpec
CONSTANTS
  l1 = l1
  l2 = l2
  l3 = l3
  c1 = c1
  c2 = c2
  w1 = w1
  w2 = w2
  w3 = w3
  o1 = o1
  m1 = m1
  a = a
  b = b
  net = net
  h1 = h1
  xc = xc
  idle = idle
  ExitWork = ExitWork
  None = None
  LWP = {l1, l2, l3}
  Control = {o1}
  Error = {0, 1}
  NoError = 2
PROPERTIES
  WaitsEnd
  DeferredWorkDone
  WaitersGoOn
CHECK_DEADLOCK FALSE
