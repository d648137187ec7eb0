SPECIFICATION Spec
CONSTANTS
    Sessions = {s1}
    Apps = {a1}
    Owners = {o1, o2}
    NoOne = NoOne
    Byte = {b0, b1}
    Capacities = {2, 3}
    MaxRequest = 2
    MallocMayFail = TRUE
SYMMETRY Interchangeable
INVARIANTS RingInStep NoUseAfterFree NoLostWakeup
PROPERTIES CancelSparesApps EndIsFinal ImplementsFifo
