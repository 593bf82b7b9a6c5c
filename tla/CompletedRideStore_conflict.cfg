CONSTANTS
    h1 = h1
    h2 = h2
    h3 = h3
    r1 = r1
    r2 = r2
    r3 = r3
    a1 = a1
    c1 = c1
    c2 = c2
    nobody = nobody
    Handlers = {h1, h2}
    RideIds = {r1, r2}
    Data <- MCData
    Faults = {}
    MaxSubmissions = 4
    Askers = {}
    Asks <- MCAsks
    Anonymous = nobody
    WhatIf <- MCWhatIf
    MaxAsks = 0
SPECIFICATION RunsSpec
INVARIANTS
    ChangedDataConflicts
CHECK_DEADLOCK FALSE
