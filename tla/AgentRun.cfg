SPECIFICATION AgentSpec
CONSTANTS
    free = free
    offline = offline
    balanced = balanced
    conservative = conservative
    low = low
    middle = middle
    high = high
    None = None
    Runs = {free, offline}
    Model <- MCModel
    Profiles = {balanced, conservative}
    Request <- MCRequest
    Outcomes = {low, middle, high}
    Optimum <- MCOptimum
    MinHistory = 1
    MaxSteps = 6
    Faults = {"read", "write"}
    MaxRides = 2
INVARIANTS
    AnswerFollowsFromHistory
    TraceTellsTheRun
    RunsAreCounted
PROPERTY
    EveryRunEnds
CHECK_DEADLOCK FALSE
