\* --init, interrupted and repeated, next to a session.
CONSTANTS
    Sample <- SmallSample
    SampleOrders <- FirstHasOrdered
    NewTIDs <- OneNewOrder
SPECIFICATION Spec
INVARIANTS
    TypeOK
    RerunRepairs
    NamedOrdersExist
PROPERTIES
    RunPopulates
