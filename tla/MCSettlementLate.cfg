SPECIFICATION Spec
CONSTANTS
    NULL = NULL
    t1 = t1
    g1 = g1
    tb1 = tb1
    r1 = r1
    r2 = r2
    r3 = r3
    p1 = p1
    p2 = p2
    Scope = {t1, g1}
    Kind <- MixedKind
    Table = {}
    TableOf <- MixedTable
    BillId = {1, 2}
    Ref = {p1, p2}
    RefAmount <- TwoRefAmount
    ClientKey = {}
    Amount = {1}
    MaxQuantity = 1
    Request = {r1, r2}
SYMMETRY Symmetry
INVARIANT
    OneSettlementPerScope
CHECK_DEADLOCK FALSE
