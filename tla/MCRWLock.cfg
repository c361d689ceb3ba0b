SPECIFICATION Spec
CONSTANTS
    LWP = {l1, l2, l3}
    NoLWP = NoLWP
    MULTIPROCESSOR = TRUE
SYMMETRY Symmetry
INVARIANTS
    IInv
    MutualExclusion
    HoldsAreCounted
    NoSleeperUnseen
    HandoverAssertions
