SPECIFICATION Spec
CONSTANTS
    Precision = 100
    v1 = v1
    v2 = v2
    Validators = {v1, v2}
    Registered = {v1, v2}
    Weights = {}
    InitialDelegation = 8
    InitialWeight = 4
    HostRates = {100}
    Messages <- MCMessages
    RateQueries = {1}
    PrecisionThreshold = 4
    CalibrationThreshold = 2
    MaxIcas = 3
    MaxSlashes = 2
    MaxFaults = 1
    MaxCalibrations = 0
INVARIANTS
    ChangesExact
    LedgerExact
