\* Three bits of unsigned int and five of unsigned long, every number typed.
CONSTANTS
    UIntMax = 7
    ULongMax = 31
    Stock = 5
    MaxOrders = 3
    Typed <- EveryLine
SPECIFICATION Spec
CHECK_DEADLOCK FALSE
INVARIANTS
    TypeOK
    ShowsListedOrder
    StockAsTyped
