\* Three relays, so that two others can disagree about a third. Two slots for
\* two classes. Two requests over an ordered and an unordered event.
SPECIFICATION ProgressSpec
CONSTANTS
    Instance = {1, 2, 3}
    VPartition = {3}
    Score <- MCScore
    MaxDisturbances = 1
    Concurrency = 2
    BatchSize = 2
    MaxReady = 2
    PollInterval = 1
    IdleBackoffMax = 3
    MaxTroubles = 1
    EventId = {1, 2}
    OrderedId = {2}
    ReplayLimit = 2
    MaxRequests = 2
INVARIANTS
    NoLostWakeup
    ProgressTypeOK
    AnswerTellsTruth
PROPERTIES
    ReplayIsWholeAndAudited
    SourceOutlastsReplay
    OwnershipSettles
    NoClassStarves
    RequestsAnswered
\* Relays may stay down and requests run out.
CHECK_DEADLOCK FALSE
