SPECIFICATION Spec
CONSTANTS
    MaxTime = 6
    MaxRetry = 6
    MaxFailures = 3
    MaxEpisode = 2
    Checks = {"STALE_CANDLE", "LEDGER_MISMATCH"}
INVARIANTS
    RestartSafeButReduced
PROPERTIES
    RecoveryEarned
CHECK_DEADLOCK FALSE
