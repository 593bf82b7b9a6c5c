CONSTANTS
    t1 = t1
    k1 = k1
    s1 = s1
    s2 = s2
    c1 = c1
    Transactions = {t1}
    Keys <- MCKeys
    ClientKeys = {k1}
    SettlementKeys = {s1, s2}
    FaresFor <- OneFareEach
    BlockIds = {1}
    Amounts = {1, 2, 3}
    MaxAmount = 4
    FailureConfigs <- MCFailureConfigs
    Callers = {c1}
    MaxAttempts = 2
    MaxCalls = 4
    MaxSettlementCalls = 5
SPECIFICATION SettlementSpec
INVARIANTS
    SettledMeansPaid
    FiguresAddUp
PROPERTIES
    NeverCollectsBeyondFare
    ReleasesOnlyTheRest
    SettlementEnds
CHECK_DEADLOCK FALSE
