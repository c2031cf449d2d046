SPECIFICATION Spec
CONSTANTS
    relayed = relayed
    direct = direct
    elsewhere = elsewhere
    S1 = S1
    S2 = S2
    D1 = D1
    D2 = D2
    NoMsgId = NoMsgId
    Events = {direct, elsewhere}
    IdOf <- NoIds
    Streams = {S1, S2}
    Durables = {D1, D2}
    StreamOf <- TwoStreams
    Replicas = {p1, p2}
    MaxDeliver = 2
    MaxLog = 1
    MaxFaults = 1
    MaxLapses = 0
INVARIANT
    RetriedRatherThanLost
CHECK_DEADLOCK FALSE
