SPECIFICATION Spec
CONSTANTS
    Chains = {c1}
    ExpiringClients = {}
    Updates <- MCUpdates
    MaxChannels = 3
    MaxUpdates = 3
    MaxPackets = 2
INVARIANT
    MetricsResubmitted
