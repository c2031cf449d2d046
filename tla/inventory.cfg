SPECIFICATION FairSpec
CONSTANTS
    o1 = o1
    o2 = o2
    A = A
    B = B
    Orders = {o1, o2}
    Products = {A, B}
    Items <- Repeated
    Initial <- TwoOfB
    MaxDeliver = 2
    Returnable = {o1}
    Replicas = {r1, r2}
    MaxTrouble = 1
INVARIANTS
    TypeOK
    StockAddsUp
    ReadIsCurrent
    ReservedIsRecorded
PROPERTIES
    PlacedIsAnswered
    CancelledIsReleased
CHECK_DEADLOCK FALSE
