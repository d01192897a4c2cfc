\* Two services, each with an experiment; one operator, and only builds put
\* experiments into a config and complete them.
CONSTANTS
    x = x
    y = y
    op1 = op1
    op2 = op2
    admin = admin
    scheduler = scheduler
    Scheduler = scheduler
    Experiments = {x, y}
    Services = {1, 2}
    ServiceOf <- TwoServices
    Operators = {op1}
    Admins = {admin}
    Actions <- WithoutComplete
    Duration = 1
    MaxClock = 1
    MaxPatches = 4
    MaxManualBuilds = 2
    MaxFaults = 1
SPECIFICATION FairSpec
PROPERTIES
    LifecycleOrder
    WithdrawnStaysOut
    QueuedIsPublished
    ExpiredIsWithdrawn
