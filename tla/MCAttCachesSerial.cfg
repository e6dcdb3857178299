CONSTANTS
    Keys <- MCTwoKeys
    Validators <- MCValidators
    Callers = {c1}
    Workers = {}
    AggregationMayFail = FALSE
    MaxCalls = 5
    None = None
SPECIFICATION Spec
INVARIANTS
    TypeOK
    NoAttestationLost
    NoResurrection

