SPECIFICATION FairSpec
CONSTANTS
    i1 = i1
    i2 = i2
    c1 = c1
    c2 = c2
    Items = {i1, i2}
    Queues = {"jobs:a", "jobs:b"}
    Consumers = {c1, c2}
    Counts = {1, 2}
    Delays = {0, 1}
    VisibilityTimeout = 1
    MaxTime = 2
    MaxAttempts = 2
INVARIANTS
    QueueInv
    ExclusiveDelivery
PROPERTIES
    SettledByItsHolder
    ImplementsDeliveryQueue
    WaitingIsClaimed
CHECK_DEADLOCK FALSE
