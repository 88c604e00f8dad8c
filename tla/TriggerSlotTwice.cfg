SPECIFICATION Spec
CONSTANTS
    c1 = c1
    s1 = s1
    s2 = s2
    x1 = x1
    x2 = x2
    CronTriggers = {"hourly"}
    EventTriggers = {x1}
    Events = {"e"}
    Requests = {c1}
    Schedulers = {s1, s2}
    MaxConcurrency = 1
    EventOrg = "org"
    PolledOrg = "org"
    Period = 1
    MaxTime = 1
    MaxFailures = 0
INVARIANTS
    CronSlotOnce
CHECK_DEADLOCK FALSE
