SPECIFICATION Spec
CONSTANTS
    o1 = o1
    o2 = o2
    A = A
    B = B
    Orders = {o1, o2}
    Products = {A, B}
    Items <- Repeated
    Initial <- TwoOfB
    MaxDeliver = 2
    Returnable = {}
    Replicas = {r1, r2}
    MaxTrouble = 0
INVARIANTS
    AllOrNothing
CHECK_DEADLOCK FALSE
