SPECIFICATION FairInboxSpec
CONSTANTS
    w1 = w1
    w2 = w2
    p1 = p1
    p2 = p2
    e1 = e1
    e2 = e2
    Malformed = Malformed
    Worker = {w1, w2}
    Partition = {p1, p2}
    Event = {e1, e2}
    Log <- MCLog
    MaxAttempts = 2
    MaxClaims = 3
    MaxFaults = 2
INVARIANTS
    EffectOnceProcessed
    OffsetsResolved
    HeadOfLine
    InboxFindsNoViolation
PROPERTIES
    BudgetEndsRetries
    EventsSettle
    PartitionsDrain
\* The log is finite.
CHECK_DEADLOCK FALSE
