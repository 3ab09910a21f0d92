SPECIFICATION Spec
CONSTANTS
    r1 = r1
    r2 = r2
    r3 = r3
    Absent = Absent
    Releases <- MCReleases
    Units <- MCUnits
    UnitOf <- MCUnitOf
    Journals <- MCJournals
    JournalOf <- MCJournalOf
    MaxAttempts = 3
    MaxFaults = 1
    MaxReboots = 1
INVARIANTS
    RunsCurrent
PROPERTIES
    AllOrNothing
    GivesUpForCause
    ServiceComesBack
CHECK_DEADLOCK FALSE
