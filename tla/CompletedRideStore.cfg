CONSTANTS
    h1 = h1
    h2 = h2
    h3 = h3
    r1 = r1
    r2 = r2
    r3 = r3
    a1 = a1
    c1 = c1
    c2 = c2
    nobody = nobody
    Handlers = {h1, h2}
    RideIds = {r1, r2}
    Data <- MCData
    Faults = {"read", "write", "ack"}
    MaxSubmissions = 3
    Askers = {a1}
    Asks <- MCAsks
    Anonymous = nobody
    WhatIf <- MCWhatIf
    MaxAsks = 1
SPECIFICATION RunsSpec
INVARIANTS
    AnswersAreTrue
    RunsRestOnHistory
PROPERTIES
    HistoryIsStable
CHECK_DEADLOCK FALSE
