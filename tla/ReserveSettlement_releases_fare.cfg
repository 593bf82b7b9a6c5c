CONSTANTS
    t1 = t1
    k1 = k1
    s1 = s1
    s2 = s2
    c1 = c1
    Transactions = {t1}
    Keys <- MCKeys
    ClientKeys = {k1}
    SettlementKeys = {s1, s2}
    FaresFor <- TwoFares
    BlockIds = {1}
    Amounts = {1, 2, 3}
    MaxAmount = 4
    FailureConfigs <- MCFailureConfigs
    Callers = {c1}
    MaxAttempts = 2
    MaxCalls = 3
    MaxSettlementCalls = 5
SPECIFICATION SettlementSpec
PROPERTIES
    ReleasesOnlyTheRest
CHECK_DEADLOCK FALSE
