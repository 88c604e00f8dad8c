SPECIFICATION QuotasSpec
CONSTANTS
    t1 = t1
    t2 = t2
    c1 = c1
    c2 = c2
    c3 = c3
    Threads = {}
    Capacity = 6
    Rate = 3
    Scale = 3
    PerSecond = 2
    ClockStepsBack = TRUE
    MaxClock = 0
    Callers = {c1, c2, c3}
    Limit = 2
    Sizes = {1}
    Modulus = 4
    Warm = TRUE
    Clears = FALSE
    MaxObjects = 4
    MaxAdded = 1
CHECK_DEADLOCK FALSE
SYMMETRY Symmetric
INVARIANT
    StorageNeverWraps
