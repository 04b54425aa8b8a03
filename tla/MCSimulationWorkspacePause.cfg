CONSTANTS
    CashValues = {1}
    DefaultCash = 1
    MaxSessions = 1
    MaxTime = 2
    MaxStep = 1
    MaxOrders = 0
SPECIFICATION Spec
PROPERTY PausedIsFrozen
