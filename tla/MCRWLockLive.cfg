SPECIFICATION FairSpec
CONSTANTS
    LWP = {l1, l2, l3}
    NoLWP = NoLWP
    MULTIPROCESSOR = FALSE
PROPERTIES
    SleepingReaderServed
    WriterNotLockedOut
    ImplementsLock
CHECK_DEADLOCK FALSE
