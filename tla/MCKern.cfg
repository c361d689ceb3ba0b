SPECIFICATION PartsSpec
CONSTANTS
  c1 = c1
  c2 = c2
  l1 = l1
  l2 = l2
  l3 = l3
  w1 = w1
  w2 = w2
  w3 = w3
  a = a
  b = b
  net = net
  clk = clk
  h1 = h1
  h2 = h2
  xc = xc
  idle = idle
  r1 = r1
  ExitWork = ExitWork
  None = None
  CPU = {c1, c2}
  LWP = {l1, l2, l3}
  MaxCalls = 3
SYMMETRY Symmetry
INVARIANTS
  NoCallLost
  WheelSafe
  SoftIntSafe
  TimeCounterSafe
PROPERTIES
  WorkQueueSafe
CHECK_DEADLOCK FALSE
