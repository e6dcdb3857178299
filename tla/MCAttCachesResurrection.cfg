CONSTANTS
    Keys <- MCKeys
    Validators <- MCValidators
    Callers = {c1, c2}
    Workers = {}
    AggregationMayFail = FALSE
    MaxCalls = 5
    None = None
SPECIFICATION Spec
INVARIANT
    NoResurrection
