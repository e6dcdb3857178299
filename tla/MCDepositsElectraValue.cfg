CONSTANTS
    Keys <- MCKeys
    Amounts <- MCAmounts
    MaxDeposits = 2
    EffectiveBalanceIncrement = 2
    MaxEffectiveBalance = 4
    Versions = {"electra"}
    Nil = Nil
SPECIFICATION Spec
INVARIANT
    BalanceAccountsForDeposits
