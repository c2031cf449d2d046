SPECIFICATION Spec
CONSTANTS
    Workers = {w1, w2}
    Approvable = {TRUE}
    MaxDeliver = 2
    MaxFaults = 2
PROPERTIES
    StatusOrder
