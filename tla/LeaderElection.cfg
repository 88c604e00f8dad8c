SPECIFICATION LeaderFairSpec
CONSTANTS
    n1 = n1
    n2 = n2
    n3 = n3
    p1 = p1
    p2 = p2
    p3 = p3
    p4 = p4
    NoSession = NoSession
    Instances = {n1, n2, n3}
    Sessions = {p1, p2, p3}
    PoolMax = 2
    MaxDisruptions = 2
INVARIANTS
    LeaderInv
    OneWhileLockKept
PROPERTIES
    StandbyTakesOver
CHECK_DEADLOCK FALSE
