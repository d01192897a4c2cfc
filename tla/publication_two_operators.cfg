\* Two PATCHes of one experiment in flight.
CONSTANTS
    x = x
    y = y
    op1 = op1
    op2 = op2
    admin = admin
    scheduler = scheduler
    Scheduler = scheduler
    Experiments = {x}
    Services = {1}
    ServiceOf <- OneService
    Operators = {op1, op2}
    Admins = {}
    Actions <- LifecycleAction
    Duration = 1
    MaxClock = 1
    MaxPatches = 4
    MaxManualBuilds = 0
    MaxFaults = 0
SPECIFICATION Spec
PROPERTIES
    LifecycleOrder
