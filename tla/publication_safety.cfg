\* Two operators, the scheduler and an admin on one service.
CONSTANTS
    x = x
    y = y
    op1 = op1
    op2 = op2
    admin = admin
    scheduler = scheduler
    Scheduler = scheduler
    Experiments = {x, y}
    Services = {1}
    ServiceOf <- OneService
    Operators = {op1, op2}
    Admins = {admin}
    Actions <- LifecycleAction
    Duration = 1
    MaxClock = 1
    MaxPatches = 4
    MaxManualBuilds = 1
    MaxFaults = 1
SPECIFICATION Spec
SYMMETRY Symmetric
INVARIANTS
    TypeOK
    RowsHeldStill
    VersionsInOrder
    WindowComplete
PROPERTIES
    HistoryKept
    ImplementsHistory
