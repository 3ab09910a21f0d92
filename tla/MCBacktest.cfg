SPECIFICATION Spec
CONSTANTS
    Bars = 6
    Gaps = {2, 3, 4, 5, 6}
    EntrySize = 4
    Caps = {0, 2, 8}
    EntryHalves = {FALSE, TRUE}
    ExitHalves = {FALSE, TRUE}
    Liquidations = {FALSE, TRUE}
INVARIANTS
    Protected
    NeverRaises
    LedgerSound
    ResultAccepted
CHECK_DEADLOCK FALSE
