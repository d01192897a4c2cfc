\* Two layers, two requests, only the scheduler recalculates.
CONSTANTS
    r1 = r1
    r2 = r2
    v1 = v1
    v2 = v2
    m1 = m1
    m2 = m2
    a1 = a1
    scheduler = scheduler
    Scheduler = scheduler
    Experiments = {1, 2}
    Metrics = {m1}
    Requests = {r1}
    Plan <- TwoLayers
    Events = {v1, v2}
    RequestOf <- SameRequest
    Analysts = {}
    MaxPosts = 0
    MaxFaults = 1
SPECIFICATION FairSpec
INVARIANTS
    OneResultPerBucket
PROPERTIES
    DirtyIsRecalculated
