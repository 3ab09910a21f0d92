SPECIFICATION Spec
CONSTANTS
    Proc = {p1, p2}
    Ttl = 1
    MaxEpoch = 3
    MaxTime = 3
    MaxToken = 3
    MaxLog = 3
INVARIANTS
    Fencing
    BlockingBounded
PROPERTIES
    TenureSpec
CHECK_DEADLOCK FALSE
