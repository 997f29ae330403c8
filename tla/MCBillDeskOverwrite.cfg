SPECIFICATION DeskSpec
CONSTANTS
    NULL = NULL
    t1 = t1
    g1 = g1
    tb1 = tb1
    r1 = r1
    r2 = r2
    e1 = e1
    e2 = e2
    p1 = p1
    Scope = {t1}
    Kind <- TabKind
    Table = {tb1}
    TableOf <- TabTable
    BillId = {1, 2}
    Ref = {p1}
    RefAmount <- OneRefAmount
    ClientKey = {}
    Amount = {1, 2}
    MaxQuantity = 2
    MaxRound = 1
    Request = {r1, r2}
    Editor = {e1, e2}
SYMMETRY Symmetry
INVARIANT
    SettledOnce
CHECK_DEADLOCK FALSE
