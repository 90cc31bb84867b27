SPECIFICATION FairSpec
CONSTANTS
    Second = 2
    MaxLag = 1
    MaxCheck = 3
    Secs <- MCSecs
INVARIANTS
    TypeOK
    NoUseAfterReturn
    TrueMeansScanEnded
    EarlyHitReported
    ReturnsInTime
PROPERTY
    CallReturns
    PollsInTurn
