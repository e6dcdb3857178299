CONSTANTS
    Keys <- MCKeys
    Validators <- MCValidators
    Callers = {c1}
    Workers = {w1}
    AggregationMayFail = TRUE
    MaxCalls = 5
    None = None
SPECIFICATION Spec
INVARIANT
    FailedBucketRetained
