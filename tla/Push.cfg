\* One registration, one stored message, both dispatchers: safety and draining.
SPECIFICATION FairSpec
CONSTANTS
    Dispatchers = {d1, d2}
    Loop = d1
    Nobody = Nobody
    Tokens = {t1}
    Messages = {m1}
    MaxRows = 1
    Lease = 2
    Retention = 3
    DeviceLease = 3
    MaxAttempts = 2
    Horizon = 5
    MaxCrashes = 1
    MaxStalls = 1
    MaxLosses = 1
INVARIANTS TypeOK RevokedStaysSilent
PROPERTIES OutboxLedgerSpec OutboxDrains
CHECK_DEADLOCK FALSE
