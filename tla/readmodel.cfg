SPECIFICATION FairSpec
CONSTANTS
    o1 = o1
    o2 = o2
    alice = alice
    page = page
    Orders = {o1, o2}
    Customers = {alice}
    Pages = {page}
    CustomerOf <- TwoOrders
    TotalOf <- Totals
    PageOf <- OnePage
    Past <- FirstShipped
    Buffer = 1
    MaxLog = 6
    MaxRepeats = 1
    MaxRestarts = 1
INVARIANTS
    TypeOK
    StatsAgree
    ViewIsLatest
    PageIsCurrent
PROPERTIES
    ViewFollows
CHECK_DEADLOCK FALSE
