SPECIFICATION DeliverySpec
CONSTANTS
    r1 = r1
    r2 = r2
    w1 = w1
    w2 = w2
    w3 = w3
    st1 = st1
    p1 = p1
    Relay = {r1}
    NoOwner = NoOwner
    Worker = {w1, w2}
    RelayOf <- MCRelayOf
    Partition = {p1}
    PublishTimeout <- MCPublishTimeout
    SafetyMargin <- MCSafetyMargin
    OrderingLease <- MCOrderingLease
    TxDelay = 0
    SendDelay = 0
    MaxTime = 5
    MaxEpoch = 3
    Stream = {st1}
    PartitionOf <- MCPartitionOf
    Starts = {0}
    MaxSeq = 2
    EventLease <- MCEventLease
    MaxAttempts = 2
    Delays = {1}
    BeginSpan = 3
    HandleSpan = 4
    LateAccept = FALSE
    Pauses = {}
PROPERTIES
    AppendsInOrder
SYMMETRY MCSymmetry
