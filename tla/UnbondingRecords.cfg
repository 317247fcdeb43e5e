SPECIFICATION FairSpec
CONSTANTS
    u1 = u1
    u2 = u2
    Users = {u1, u2}
    Precision = 100
    MaxBatches = 2
    MaxDays = 2
    InitialStake = 10
    UserStTokens = 3
    RedeemAmounts = {3}
    Rates = {100, 150}
    UnbondingFrequency = 1
    UnbondingPeriod = 1
    MaxFaults = 2
    AcksBeforeClose = TRUE
    AcksBeforeMaturity = TRUE
    OldPackets = "cleared"
INVARIANTS
    RedemptionsAddUp
    UndelegationTxsExact
    UnbondedTokensTracked
    SweepsCovered
PROPERTIES
    PaidOnce
    NoStatusRegress
    RedemptionsEventuallyClaimable
