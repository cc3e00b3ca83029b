\* Two processes of one user on the same databases, one unit of one product.
CONSTANTS
    SKU = {a}
    UIntMax = 2
    Procs = {p1, p2}
    NoProc = NoProc
    Users = {alice}
    TIDs = {t1, t2}
    NoTID = NoTID
    Stock <- OneOfEach
    SampleUsers <- Newcomers
    SampleOrders <- NoOrders
    Qtys = {1}
SYMMETRY Interchangeable
SPECIFICATION Spec
INVARIANTS
    LockOwned
    OrdersExist
    ChargeWithinCopy
    StockBounded
PROPERTIES
    OrdersImmutable
