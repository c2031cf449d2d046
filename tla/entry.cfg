SPECIFICATION FairSpec
CONSTANTS
    u1 = u1
    u2 = u2
    k1 = k1
    k2 = k2
    Users = {u1, u2}
    Target = 1
    NoUser = NoUser
    NoMsgId = NoMsgId
    Keys = {k1, k2}
    KeysOf <- SomeShared
    Watch <- OnePage
    p1 = p1
    p2 = p2
    Replicas = {p1, p2}
    Nobody = Nobody
    Buffer = 1
    MaxLog = 2
    MaxTrouble = 1
INVARIANTS
    TypeOK
    NoLostResult
    BatchHoldsLock
PROPERTIES
    AcceptedIsAnswered
    EndedInTheEnd
CHECK_DEADLOCK FALSE
