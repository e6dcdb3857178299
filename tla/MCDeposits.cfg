CONSTANTS
    Keys <- MCKeys
    Amounts <- MCAmounts
    MaxDeposits = 2
    EffectiveBalanceIncrement = 2
    MaxEffectiveBalance = 4
    Versions = {"capella", "electra"}
    Nil = Nil
SPECIFICATION Spec
INVARIANTS
    TypeOK
    RegistryWellFormed
    TrieLeavesConsumedInOrder
    SignatureGate
    BalanceAccountsBeforeElectra
    GenesisActivation
    UpgradeQueuesPreActivation
