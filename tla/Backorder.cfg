\* Two processes and one unit: both sell it.
CONSTANTS
    SKU = {a}
    UIntMax = 2
    Procs = {p1, p2}
    NoProc = NoProc
    Users = {alice}
    TIDs = {t1, t2}
    NoTID = NoTID
    Stock <- OneOfEach
    SampleUsers <- Newcomers
    SampleOrders <- NoOrders
    Qtys = {1}
SYMMETRY Interchangeable
SPECIFICATION Spec
INVARIANTS
    NoBackorder
