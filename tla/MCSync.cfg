SPECIFICATION PartsSpec
CONSTANTS
  CPU = {c1, c2}
  Scheduler = Scheduler
  None = None
  MaxItems = 2
  MaxOps = 2
  MaxIntr = 1
  MaxPreempt = 1
  MaxHolds = 2
  MaxSchedules = 4
  Control = {o1}
  Error = {0, 1}
  NoError = 2
  LWP = {l1, l2, l3}
  NoLWP = None
  MULTIPROCESSOR = TRUE
  LOCKDEBUG = TRUE
SYMMETRY Symmetry
INVARIANTS
  NoLostWaiter
  CondVarSafe
  KernelLockSafe
  TurnstileSafe
  CalloutSafe
  OnceSafe
PROPERTIES
  ImplementsLock
CHECK_DEADLOCK FALSE
