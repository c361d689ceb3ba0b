SPECIFICATION Spec
CONSTANTS
    UserPmap = {p1, p2}
    Kernel = kernel
    UVA <- OneAddress
    KVA <- KernelAddress
    Page = {x}
    NoPage = none
    Colour <- MCColour
    Segment <- MCSegment
    MaxASID = 3
    Generations = 2
    Prots = {"r", "rw"}
    Wirings = {FALSE}
    MaxRefs = 2
    MaxCount = 1
SYMMETRY PmapSymmetry
CONSTRAINT FewInUse
INVARIANTS PmapInv ASIDUnique TLBMatchesPTE ModTrapFindsPTE WritesNoticed KernelTLBMatchesPTE
CHECK_DEADLOCK FALSE
