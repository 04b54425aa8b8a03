CONSTANTS
    Symbols = {s1, s2}
    InitialCash <- MCCash
    LotPrices <- MCPrices
    OrderLots = {1}
    DayLength = 2
    MaxTime = 3
    MaxOrders = 4
SPECIFICATION Spec
INVARIANT TPlusOne
