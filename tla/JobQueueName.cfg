SPECIFICATION FairSpec
CONSTANTS
    r1 = r1
    r2 = r2
    r3 = r3
    i1 = i1
    i2 = i2
    i3 = i3
    w1 = w1
    w2 = w2
    s1 = s1
    s2 = s2
    NoRun = NoRun
    NoItem = NoItem
    Runs = {r1}
    Items = {i1, i2}
    Workers = {w1, w2}
    Schedulers = {s1}
    Sleeps = {"nap"}
    DlqIds = {1}
    MaxAttempts = 1
    WorkerQueue = "jobs:default"
    RunQueue = "jobs:org"
    Outcomes = {"success", "error"}
    Faults = {}
PROPERTIES
    EnqueuedIsDequeued
CHECK_DEADLOCK FALSE
