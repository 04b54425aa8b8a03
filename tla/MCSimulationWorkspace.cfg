CONSTANTS
    CashValues <- MCCash
    DefaultCash = 1
    MaxSessions = 2
    MaxTime = 1
    MaxStep = 1
    MaxOrders = 1
SPECIFICATION FairSpec
INVARIANTS
    TypeOK
    OneLiveSession
    TracksAligned
    TradedOnlyAfterStart
    StepsNumbered
PROPERTIES
    LifecycleRefined
    TimelineKept
    CatchesUp
