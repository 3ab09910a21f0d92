SPECIFICATION FairSpec
CONSTANTS
    Nobody = Nobody
    Dead = Dead
    Proc = {p1, p2}
    First = 1
    MaxEnd = 3
    MaxPrice = 2
    MaxFaults = 1
INVARIANTS
    Readable
    NoContradiction
    FillsSound
PROPERTIES
    EntryBacked
    EveryCandleCompleted
