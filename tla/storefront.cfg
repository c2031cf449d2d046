SPECIFICATION Spec
CONSTANTS
    Customers = {c1}
    Emails = {e1}
    Products = {a}
    Replicas = {r1, r2}
    MaxCalls = 3
    MaxTrouble = 1
INVARIANTS
    TypeOK
    SerialIsSafe
    LastWordIsThePrice
SYMMETRY Alike
CHECK_DEADLOCK FALSE
