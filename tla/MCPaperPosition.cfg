SPECIFICATION NewLedgerSpec
CONSTANTS
    Nobody = Nobody
    Dead = Dead
    Proc = {p1}
    First = 2
    MaxEnd = 5
    MaxPrice = 2
    MaxFaults = 2
INVARIANTS
    Readable
    PositionGuarded
PROPERTIES
    StopNeverLoosens
