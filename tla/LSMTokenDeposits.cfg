SPECIFICATION FairSpec
CONSTANTS
    u1 = u1
    v1 = v1
    v2 = v2
    d1 = d1
    d2 = d2
    Precision = 100
    Stakers = {u1}
    Validators = {v1, v2}
    Denoms = {d1, d2}
    ValidatorOf <- MCValidatorOf
    InitialBalance <- MCBalance
    InitialDelegation <- MCDelegation
    StakeAmounts = {2, 4}
    HostRates = {50}
    RedemptionRate = 100
    ValidatorSlashQueryThreshold = 50
    Queries = {1, 2}
    MaxSlashes = 1
    MaxFaults = 1
    MaxManualQueries = 1
INVARIANTS
    PendingMatched
    Custody
    DetokenizedCredited
    SlashesChecked
PROPERTIES
    DepositsEventuallySettle
