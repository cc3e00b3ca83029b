\* Liveness with two processes; no symmetry, one order.
CONSTANTS
    SKU = {a}
    UIntMax = 2
    Procs = {p1, p2}
    NoProc = NoProc
    Users = {alice}
    TIDs = {t1}
    NoTID = NoTID
    Stock <- OneOfEach
    SampleUsers <- Newcomers
    SampleOrders <- NoOrders
    Qtys = {1}
SPECIFICATION FairSpec
PROPERTIES
    AlwaysAnswers
