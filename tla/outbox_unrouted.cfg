SPECIFICATION FairSpec
CONSTANTS
    NoMsgId = NoMsgId
    Rows = {e1, e2}
    Routed = {e2}
    Relays = {r1, r2}
    Limit = 2
    MaxForgets = 0
PROPERTIES
    RoutedIsPublished
CHECK_DEADLOCK FALSE
