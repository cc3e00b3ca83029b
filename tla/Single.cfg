\* One process at a time, two products with one unit each, two orders: an order
\* can take both or one after the other, and 2 is more than there is.
CONSTANTS
    SKU = {a, b}
    UIntMax = 2
    Procs = {p1}
    NoProc = NoProc
    Users = {alice}
    TIDs = {t1, t2}
    NoTID = NoTID
    Stock <- OneOfEach
    SampleUsers <- Newcomers
    SampleOrders <- NoOrders
    Qtys = {0, 1, 2}
SYMMETRY Interchangeable
SPECIFICATION Spec
INVARIANTS
    TypeOK
    StockAccounted
PROPERTIES
    ImplementsLedger
