SPECIFICATION Spec
CONSTANTS
    NULL = NULL
    g1 = g1
    o1 = o1
    o2 = o2
    d1 = d1
    d2 = d2
    ri1 = ri1
    ri2 = ri2
    b1 = b1
    b2 = b2
    c1 = c1
    c2 = c2
    Group = {g1}
    Order = {o1, o2}
    GroupOf <- OneGroup
    DeliveryId = {d1, d2}
    Rider = {ri1, ri2}
    BatchId = {b1, b2}
    Call = {c1, c2}
SYMMETRY Symmetry
INVARIANT
    ReadyHasDelivery
CHECK_DEADLOCK FALSE
