SPECIFICATION FairSpec
CONSTANTS
    Workers = {w1, w2}
    Approvable = {TRUE, FALSE}
    MaxDeliver = 2
    MaxFaults = 2
INVARIANTS
    TypeOK
    NothingUnearned
PROPERTIES
    PlacedSettles
