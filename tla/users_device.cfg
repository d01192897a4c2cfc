\* Two devices and a user who logs in on them.
CONSTANTS
    d1 = d1
    d2 = d2
    x1 = x1
    absent = absent
    r1 = r1
    r2 = r2
    r3 = r3
    v1 = v1
    Absent = absent
    RequestOf <- FirstRequest
    Devices = {d1, d2}
    Externals = {x1}
    Requests = {r1, r2, r3}
    Events = {v1}
    MaxFaults = 1
SPECIFICATION FairSpec
INVARIANTS
    TypeOK
    DeviceIsOneUser
PROPERTIES
    CallsEnd
    ImplementsRegistry
CHECK_DEADLOCK FALSE
