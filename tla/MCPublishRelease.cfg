CONSTANTS
    Proc = {p1}
    MaxTroubles = 1
    Launchd = p1
    Publisher = {u1}
SPECIFICATION PublishFairSpec
INVARIANTS
    PublishTypeOK
    DeploysAloneUntilPolled
PROPERTIES
    OneRefreshPerDay
    AttemptsNotStacked
    SlotsOutlastPublishes
