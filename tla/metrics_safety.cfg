\* An analyst next to the scheduler.
CONSTANTS
    r1 = r1
    r2 = r2
    v1 = v1
    v2 = v2
    m1 = m1
    m2 = m2
    a1 = a1
    scheduler = scheduler
    Scheduler = scheduler
    Experiments = {1, 2}
    Metrics = {m1}
    Requests = {r1}
    Plan <- TwoLayers
    Events = {v1}
    RequestOf <- SameRequest
    Analysts = {a1}
    MaxPosts = 2
    MaxFaults = 1
SPECIFICATION Spec
INVARIANTS
    TypeOK
    CleanIsFresh
PROPERTIES
    ResultsStay
    ImplementsReports
