SPECIFICATION RiskSpec
CONSTANTS
    Day = 2
    Week = 4
    DailyHalt = 2
    WeeklyHalt = 3
    StreakHalt = 2
    RecoveryHalt = 4
    LossesHalt = 2
    LossesReduce = 1
    WinsClear = 1
    CalmBars = 2
    Initial = 100
    Levels = {84, 95, 99, 101}
    Ratios = {2, 7}
    MaxBar = 5
INVARIANTS
    HaltsExact
    FollowupStable
