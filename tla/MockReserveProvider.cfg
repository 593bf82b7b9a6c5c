CONSTANTS
    t1 = t1
    t2 = t2
    k1 = k1
    k2 = k2
    Transactions = {t1, t2}
    Keys = {k1, k2}
    BlockIds = {1, 2}
    Amounts = {1, 2}
    MaxAmount = 3
    FailureConfigs <- MCFailureConfigs
SPECIFICATION ProviderSpec
SYMMETRY Symmetry
INVARIANTS
    TypeOK
    BlocksAreConsistent
    EveryPaiseIsFiled
PROPERTIES
    AtMostOnce
    ResultsAreKept
    ImplementsLedger
CHECK_DEADLOCK FALSE
