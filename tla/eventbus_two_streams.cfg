SPECIFICATION Spec
CONSTANTS
    relayed = relayed
    direct = direct
    elsewhere = elsewhere
    S1 = S1
    S2 = S2
    D1 = D1
    D2 = D2
    NoMsgId = NoMsgId
    Events = {direct, elsewhere}
    IdOf <- NoIds
    Streams = {S1, S2}
    Durables = {D1, D2}
    StreamOf <- TwoStreams
    Replicas = {p1}
    MaxDeliver = 2
    MaxLog = 1
    MaxFaults = 0
    MaxLapses = 0
INVARIANT
    EveryLetterIsKept
CHECK_DEADLOCK FALSE
