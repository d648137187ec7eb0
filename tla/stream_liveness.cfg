SPECIFICATION LiveSpec
CONSTANTS
    Sessions = {s1}
    Apps = {a1}
    Owners = {o1}
    NoOne = NoOne
    Byte = {0}
    Capacities = {1, 2}
    MaxRequest = 2
    MallocMayFail = FALSE
INVARIANT NothingLeaks
PROPERTY CallReturns
