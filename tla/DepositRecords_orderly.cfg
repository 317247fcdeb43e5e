SPECIFICATION FairSpec
CONSTANTS
    Ids <- FourIds
    Precision = 100
    MaxBatches = 2
    MaxTokens = 4
    MaxFaults = 2
    StakeAmounts = {2}
    MinSafetyThreshold = 90
    MaxSafetyThreshold = 200
    RedemptionRateInterval = 1
    DepositInterval = 1
    DelegateInterval = 1
    EpochCycle = 1
    AcksBeforeClose = TRUE
    OldPackets = "cleared"
    ValidatorRemovals = FALSE
PROPERTY DepositsEventuallyStaked
INVARIANTS
    TypeOK
    AccountsBacked
    TxsInProgressExact
