\* One call after the other: a device takes over the id of a user without devices.
CONSTANTS
    d1 = d1
    d2 = d2
    x1 = x1
    absent = absent
    r1 = r1
    r2 = r2
    r3 = r3
    v1 = v1
    Absent = absent
    RequestOf <- FirstRequest
    Devices = {d1}
    Externals = {x1}
    Requests = {r1, r2, r3}
    Events = {v1}
    MaxFaults = 0
SPECIFICATION SequentialSpec
INVARIANTS
    EventMeetsAssignment
CHECK_DEADLOCK FALSE
