SPECIFICATION Spec
CONSTANTS
    o1 = o1
    o2 = o2
    A = A
    B = B
    Orders = {o1, o2}
    Products = {A, B}
    Items <- OneLineEach
    Initial <- TwoOfEach
    MaxDeliver = 2
    Returnable = {}
    Replicas = {r1, r2}
    MaxTrouble = 1
INVARIANTS
    CancelledLeavesNothing
CHECK_DEADLOCK FALSE
