SPECIFICATION Spec
CONSTANTS
    Customers = {c1}
    Emails = {e1}
    Products = {a}
    Replicas = {r1, r2}
    MaxCalls = 2
    MaxTrouble = 0
INVARIANTS
    StaleForAMoment
SYMMETRY Alike
CHECK_DEADLOCK FALSE
