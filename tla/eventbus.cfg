SPECIFICATION FairSpec
CONSTANTS
    relayed = relayed
    direct = direct
    elsewhere = elsewhere
    S1 = S1
    S2 = S2
    D1 = D1
    D2 = D2
    NoMsgId = NoMsgId
    Events = {relayed, direct}
    IdOf <- OneStreamIdOf
    Streams = {S1}
    Durables = {D1}
    StreamOf <- OneStream
    Replicas = {p1, p2}
    MaxDeliver = 2
    MaxLog = 2
    MaxFaults = 1
    MaxLapses = 1
INVARIANTS
    TypeOK
    AcksAreEarned
    LossNeedsFault
    EffectsNeedALife
PROPERTIES
    EverythingSettles
CHECK_DEADLOCK FALSE
