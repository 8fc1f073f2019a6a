SPECIFICATION FairRelaySpec
CONSTANTS
    r1 = r1
    r2 = r2
    w1 = w1
    w2 = w2
    w3 = w3
    w4 = w4
    e1 = e1
    Relay = {r1, r2}
    Worker = {w1, w2, w3, w4}
    Event = {e1}
    RelayOf <- MCRelayOf
    Concurrency = 2
    MaxAttempts = 2
    MaxFaults = 2
INVARIANTS
    RelayTypeOK
    SlotsAccounted
    DeadHasReason
PROPERTIES
    ImplementsAtLeastOnce
    OutboxSettles
    StopsCleanly
\* The event may be settled for good.
CHECK_DEADLOCK FALSE
