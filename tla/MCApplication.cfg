SPECIFICATION Spec
CONSTANTS
    Procs = {p1, p2}
    Outcomes = {"failure", "schema"}
    MaxEnd = 2
    MaxFaults = 2
    MaxLapses = 1
    MaxCrashes = 1
PROPERTIES
    NoLostUpdate
    DecidedOnLatest
    PromotionEarned
    EntriesResume
    CyclesKeepUp
CHECK_DEADLOCK FALSE
