CONSTANTS
    Proc = {p1}
    MaxTroubles = 0
    Launchd = p1
    Publisher = {u1}
SPECIFICATION PublishSpec
INVARIANT RefreshPaused
