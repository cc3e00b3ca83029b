\* One process at a time, two users, two units of one product: sessions that
\* follow each other, with orders to load and a cart to find again.
CONSTANTS
    SKU = {a}
    UIntMax = 2
    Procs = {p1}
    NoProc = NoProc
    Users = {alice, bob}
    TIDs = {t0, t1, t2}
    NoTID = NoTID
    Stock <- TwoOfEach
    SampleUsers <- OneRegular
    SampleOrders <- OneOrder
    Qtys = {0, 1, 2}
SYMMETRY Interchangeable
SPECIFICATION SpecH
INVARIANTS
    CartStored
    OrdersOwned
PROPERTIES
    HistoryGrows
