SPECIFICATION Spec
CONSTANTS
    UserPmap = {p1, p2}
    Kernel = kernel
    UVA <- OneAddress
    KVA = {}
    Page = {x}
    NoPage = none
    Colour <- MCColour
    Segment <- MCSegment
    MaxASID = 3
    Generations = 1
    Prots = {"rw"}
    Wirings = {FALSE}
    MaxRefs = 1
    MaxCount = 1
PROPERTIES PageProtectReachesAll
CHECK_DEADLOCK FALSE
