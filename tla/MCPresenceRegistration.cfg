\* Three relays, one partition, one failed statement: the registration of a
\* relay may be the one that fails.
SPECIFICATION FairMembershipSpec
CONSTANTS
    Instance = {1, 2, 3}
    VPartition = {3}
    Score <- MCScore
    MaxDisturbances = 1
PROPERTIES
    PresenceIsNotDeliveryState
\* A cluster that has stopped may stay down.
CHECK_DEADLOCK FALSE
