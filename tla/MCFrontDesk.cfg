SPECIFICATION FrontSpec
CONSTANTS
    NULL = NULL
    t1 = t1
    tb1 = tb1
    p1 = p1
    Scope = {t1}
    Kind <- TabKind
    Table = {tb1}
    TableOf <- TabTable
    BillId = {1, 2}
    Ref = {p1}
    RefAmount <- OneRefAmount
    ClientKey = {}
    Amount = {1, 2}
    MaxQuantity = 2
    MaxRound = 1
    Request = {r1, r2}
    Editor = {e1, e2}
    Lines = {line}
    LinePrices = {7, 20}
    ServiceRates = {100}
    TaxRates = {75, 0}
    Fees = {5}
    Discounts = {}
    DiscountRates = {500}
    MinOrder = 10
    MaxSlips = 2
    Printers = {r1, r2}
    PrintJobs = {j1}
    TabOrders = {o1, o2}
    PrintCalls = {e1, e2}
    MaxPrintCalls = 4
    NoPrinter = NoPrinter
    NoJob = NoJob
    ErpClients = {m1, m2}
    MaxSecret = 2
    CredentialRows = {r1, r2}
    ErpCalls = {e1, e2}
    MaxErpCalls = 3
    MaxKey = 1
    NoClient = NoClient
    NoRowId = NoRowId
INVARIANTS
    PaidIsCovered
    ClosedOnlyWhenSettled
    StockTakenOnce
    AmountsAgree
    PrintingAgrees
    CredentialHolds
PROPERTIES
    UnpaidOnlyByStaleSave
SYMMETRY Symmetry
CHECK_DEADLOCK FALSE
