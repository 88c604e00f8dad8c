SPECIFICATION QuotasSpec
CONSTANTS
    t1 = t1
    t2 = t2
    c1 = c1
    c2 = c2
    c3 = c3
    Threads = {t1, t2}
    Capacity = 6
    Rate = 3
    Scale = 3
    PerSecond = 2
    ClockStepsBack = TRUE
    MaxClock = 4
    Callers = {c1, c2, c3}
    Limit = 2
    Sizes = {1}
    Modulus = 4
    Warm = FALSE
    Clears = TRUE
    MaxObjects = 4
    MaxAdded = 1
SYMMETRY Symmetric
INVARIANTS
    BucketInv
    RateIsBounded
    RetryAfterUndisturbed
    QuotaInv
    StorageWrapsOnlyByRace
