SPECIFICATION HouseSpec
CONSTANTS
    NULL = NULL
    t1 = t1
    g1 = g1
    tb1 = tb1
    r1 = r1
    r2 = r2
    r3 = r3
    p1 = p1
    p2 = p2
    Scope = {t1, g1}
    Kind <- HouseKind
    Table = {tb1}
    TableOf <- HouseTable
    BillId = {1, 2}
    Ref = {p1}
    RefAmount <- OneRefAmount
    ClientKey = {}
    Amount = {1, 2}
    MaxQuantity = 2
    Request = {r1, r2}
SYMMETRY Symmetry
INVARIANTS
    SettledOnce
    AnsweredPaidIsPaid
    SettlementIsAtomic
    RecordedDeliveryIsPaid
PROPERTIES
    SettledStaysSettled
    ImplementsLedger
CHECK_DEADLOCK FALSE
