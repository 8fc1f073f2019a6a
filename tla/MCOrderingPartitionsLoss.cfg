SPECIFICATION Spec
CONSTANTS
    r1 = r1
    r2 = r2
    w1 = w1
    w3 = w3
    Relay = {r1, r2}
    NoOwner = NoOwner
    Worker = {w1, w3}
    RelayOf <- MCRelayOf
    Partition = {p1}
    PublishTimeout <- MCPublishTimeout
    SafetyMargin <- MCSafetyMargin
    OrderingLease <- MCOrderingLease
    TxDelay = 1
    SendDelay = 1
    MaxTime = 11
    MaxEpoch = 3
PROPERTY
    BarrierFromLoss
