CONSTANTS
    Keys <- MCKeys
    Validators <- MCValidators
    Callers = {c1, c2}
    Workers = {w1}
    AggregationMayFail = TRUE
    MaxCalls = 5
    None = None
SPECIFICATION Spec
INVARIANTS
    NoAttestationLost
PROPERTY
    PoolSpec
