SPECIFICATION FairSpec
CONSTANTS
    Chains = {c1}
    ExpiringClients = {c1}
    Updates <- MCUpdates
    MaxChannels = 3
    MaxUpdates = 3
    MaxPackets = 2
INVARIANTS
    QueueMatchesStore
    CallbacksFound
    MetricsHaveOracles
PROPERTIES
    QueuedMetricsResolved
