CONSTANTS
    t1 = t1
    k1 = k1
    k2 = k2
    c1 = c1
    c2 = c2
    Transactions = {t1}
    Keys = {k1, k2}
    ClientKeys = {k1, k2}
    BlockIds = {1}
    Amounts = {1, 2}
    MaxAmount = 3
    FailureConfigs <- MCFailureConfigs
    Callers = {c1, c2}
    MaxAttempts = 2
    MaxCalls = 3
SPECIFICATION ServiceSpec
INVARIANTS
    EveryOutcomeIsAudited
CHECK_DEADLOCK FALSE
