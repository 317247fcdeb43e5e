SPECIFICATION FairSpec
CONSTANTS
    Precision = 100
    Users = {u1}
    StakeAmounts = {4}
    RedeemAmounts = {2}
    MinRedemptionRate = 50
    MaxRedemptionRate = 140
    InnerBounds <- MCInnerBounds
    UnbondingFrequency = 2
    UnbondingPeriod = 2
    MaxTokens = 4
    MaxEvents = 1
INVARIANTS
    TransfersMatched
    NothingLost
    HostTracked
    RedemptionBooksAgree
PROPERTIES
    RedemptionRateNeverFalls
    RedemptionsEventuallyPaid
