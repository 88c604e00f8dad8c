SPECIFICATION QuotasSpec
CONSTANTS
    t1 = t1
    t2 = t2
    c1 = c1
    c2 = c2
    c3 = c3
    Threads = {t1, t2}
    Capacity = 2
    Rate = 1
    Scale = 2
    PerSecond = 2
    ClockStepsBack = FALSE
    MaxClock = 4
    Callers = {}
    Limit = 2
    Sizes = {1}
    Modulus = 4
    Warm = FALSE
    Clears = TRUE
    MaxObjects = 4
    MaxAdded = 1
CHECK_DEADLOCK FALSE
SYMMETRY Symmetric
INVARIANT
    RetryAfterIsEnough
