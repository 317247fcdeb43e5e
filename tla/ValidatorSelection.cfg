SPECIFICATION Spec
CONSTANTS
    Precision = 100
    Validators = {1, 2, 3}
    Weights = {0, 1, 3}
    Delegations = {0, 1, 5}
    UnbondAmounts = {1, 4, 7}
    Slashed = {FALSE, TRUE}
    SafetyDivisor = 4
INVARIANTS
    TargetsProportional
    UnbondingCovered
    RebalanceReachesTargets
    RebalanceAcceptable
