SPECIFICATION Spec
CONSTANTS
    Precision = 100
    v1 = v1
    v2 = v2
    Validators = {v1, v2}
    Registered = {v1}
    Weights = {0, 2}
    InitialDelegation = 8
    InitialWeight = 4
    HostRates = {100}
    Messages <- MCMessages
    RateQueries = {1}
    PrecisionThreshold = 4
    CalibrationThreshold = 2
    MaxIcas = 2
    MaxSlashes = 1
    MaxFaults = 1
    MaxCalibrations = 1
INVARIANTS
    LedgerDriftBounded
