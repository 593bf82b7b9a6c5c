CONSTANTS
    t1 = t1
    t2 = t2
    t3 = t3
    k1 = k1
    k2 = k2
    p1 = p1
    p2 = p2
    Threads = {t1, t2}
    Keys = {k1, k2}
    Payloads = {p1, p2}
    MaxRequests = 3
SPECIFICATION DashboardSpec
INVARIANTS
    OneBlockPerKey
CHECK_DEADLOCK FALSE
