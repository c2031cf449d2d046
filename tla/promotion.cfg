SPECIFICATION FairSpec
CONSTANTS
    Users = {u1, u2, u3}
    Sessions = {s1, s2}
    Target = 2
    NoUser = NoUser
    NoSession = NoSession
INVARIANTS
    TypeOK
    Gapless
    WinnerIsTarget
    OutboxTruthful
    AnswersStayTrue
    LockedReadsHold
PROPERTIES
    ImplementsDraw
    ClosedInTheEnd
