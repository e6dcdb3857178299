CONSTANTS
    Keys <- MCKeys
    Amounts <- MCAmounts
    MaxDeposits = 2
    EffectiveBalanceIncrement = 2
    MaxEffectiveBalance = 4
    Versions = {"capella"}
    Nil = Nil
SPECIFICATION Spec
INVARIANT
    CancelledCallAborts
