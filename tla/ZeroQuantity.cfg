\* One process and a quantity of 0.
CONSTANTS
    SKU = {a}
    UIntMax = 2
    Procs = {p1}
    NoProc = NoProc
    Users = {alice}
    TIDs = {t1}
    NoTID = NoTID
    Stock <- OneOfEach
    SampleUsers <- Newcomers
    SampleOrders <- NoOrders
    Qtys = {0, 1}
SPECIFICATION Spec
INVARIANTS
    ShownIsInCart
