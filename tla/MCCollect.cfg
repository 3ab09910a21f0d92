SPECIFICATION Spec
CONSTANTS
    Procs = {p1, p2}
    Start = 1
    End = 4
    Missing = {2}
    PageSize = 3
    Attempts = 2
    MaxFailures = 2
    MaxKills = 1
    MaxChanges = 1
INVARIANTS
    EvidenceSound
PROPERTIES
    LoadedInTheEnd
CHECK_DEADLOCK FALSE
