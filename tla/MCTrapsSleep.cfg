SPECIFICATION Spec
CONSTANTS
    l1 = l1
    l2 = l2
    l3 = l3
    LWP = {l1, l2}
    First = l1
    AstLWP = {l1, l2}
    MaxDepth = 3
INVARIANTS
    ReturnsOwn
