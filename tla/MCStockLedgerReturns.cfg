SPECIFICATION Spec
CONSTANTS
    NULL = NULL
    t1 = t1
    t2 = t2
    o1 = o1
    o2 = o2
    o3 = o3
    c1 = c1
    c2 = c2
    c3 = c3
    Tab = {t1, t2}
    Order = {o1, o2}
    Call = {c1, c2}
    InitialStock = 2
    MaxQuantity = 2
SYMMETRY Symmetry
INVARIANT
    ReturnedWasTaken
CHECK_DEADLOCK FALSE
