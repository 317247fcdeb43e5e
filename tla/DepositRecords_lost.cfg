SPECIFICATION Spec
CONSTANTS
    Ids <- FourIds
    Precision = 100
    MaxBatches = 2
    MaxTokens = 5
    MaxFaults = 2
    StakeAmounts = {2}
    MinSafetyThreshold = 90
    MaxSafetyThreshold = 150
    RedemptionRateInterval = 1
    DepositInterval = 1
    DelegateInterval = 1
    EpochCycle = 1
    AcksBeforeClose = FALSE
    OldPackets = "dropped"
    ValidatorRemovals = TRUE
INVARIANTS
    DelegationsNeverOverstated
PROPERTY RedemptionRateNeverFalls
