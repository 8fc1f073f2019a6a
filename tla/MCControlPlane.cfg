\* Three epochs: a handoff by a release, or two after lapses. Pages of two
\* over five rows.
\* Four migrations by an old and a new binary. One injected fault and two
\* ordered events for the soak. One finding kept of three made. Six-bit
\* durations, which nine attempts overflow.
SPECIFICATION ControlPlaneSpec
CONSTANTS
    r1 = r1
    r2 = r2
    w1 = w1
    w3 = w3
    Relay = {r1, r2}
    NoOwner = NoOwner
    Worker = {w1, w3}
    RelayOf <- MCRelayOf
    Partition = {p1}
    PublishTimeout <- MCPublishTimeout
    SafetyMargin <- MCSafetyMargin
    OrderingLease <- MCOrderingLease
    TxDelay = 1
    SendDelay = 0
    MaxTime = 7
    MaxEpoch = 3
    RowKey = {1, 2, 3, 4, 5}
    PageLimit = 2
    MaxWrites = 3
    Migrator = {1, 2}
    BinaryVersion <- MCBinaryVersion
    MaxMigrations = 4
    MaxSequence = 2
    TargetRelays = 1
    MaxInjected = 1
    MaxRecords = 2
    MaxFindings = 1
    MaxMade = 3
    Width = 6
    MaxAttempt = 9
INVARIANTS
    ControlPlaneTypeOK
    OneEpochInFlight
    ListingIsComplete
    HistoryIsPrefix
    NewerSchemaUntouched
    PassIsEarned
    ReportIsHonest
    BackoffExact
PROPERTIES
    DowngradeKeepsState
\* Commands end, events run out, and so does the bounded time.
CHECK_DEADLOCK FALSE
