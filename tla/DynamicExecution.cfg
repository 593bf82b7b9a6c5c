CONSTANTS
    r1 = r1
    r2 = r2
    e1 = e1
    e2 = e2
    init = init
    calm = calm
    slow = slow
    jam = jam
    Ride = r1
    Rides = {r1, r2}
    Events = {e1, e2}
    Times = {1, 2}
    Contexts = {calm, slow, jam}
    InitialContext = calm
    Target <- MCTarget
    MaxDecisions = 3
    Transactions = {r1}
    Keys = {e1, e2, init}
    BlockIds = {1}
    Amounts = {1}
    MaxAmount = 4
    FailureConfigs <- MCFailureConfigs
    InitialKey = init
SPECIFICATION ExecutionSpec
INVARIANTS
    ExecutionTypeOK
    SessionNeverAhead
    NoIncreaseIsLost
    DifferenceIsExplained
PROPERTIES
    OnlyLatestIsConfirmed
CHECK_DEADLOCK FALSE
