SPECIFICATION FairSpec
CONSTANTS
    Precision = 100
    v1 = v1
    v2 = v2
    Validators = {v1}
    Registered = {v1}
    Weights = {}
    InitialDelegation = 8
    InitialWeight = 4
    HostRates = {100}
    Messages <- MCOneValidator
    RateQueries = {1, 2}
    PrecisionThreshold = 1
    CalibrationThreshold = 2
    MaxIcas = 2
    MaxSlashes = 1
    MaxFaults = 2
    MaxCalibrations = 0
PROPERTIES
    SlashesEventuallyRecorded
