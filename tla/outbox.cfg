SPECIFICATION FairSpec
CONSTANTS
    NoMsgId = NoMsgId
    Rows = {e1, e2}
    Routed = {e1, e2}
    Relays = {r1, r2}
    Limit = 2
    MaxForgets = 2
INVARIANTS
    TypeOK
    MarksAreTrue
    ExclusiveRows
    CopiesNeedLapse
PROPERTIES
    CommittedIsPublished
CHECK_DEADLOCK FALSE
