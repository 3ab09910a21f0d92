SPECIFICATION QualitySpec
CONSTANTS
    Lookback = 3
    EntryPeriod = 1
    WarmupBars = 3
    Prices = {1, 2}
    MaxBars = 6
INVARIANTS
    EntrySound
    SurfaceAccepted
PROPERTIES
    BarsFinal
CHECK_DEADLOCK FALSE
