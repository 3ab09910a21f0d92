SPECIFICATION Spec
CONSTANTS
    Cash = 16
    Prices = {4, 6}
    FeeShare = 2
    MinTotal = 4
    MaxUnits = 2
    BarLength = 1
    Rows <- EnterAndExit
    MaxTime = 2
    MaxOrders = 2
    MaxFaults = 1
INVARIANTS
    BooksSound
    SoleOrder
    Absorbable
    CutoffHonest
    OneOrderPerCandle
