SPECIFICATION Spec
CONSTANTS
    Ids = {1}
    MapSize = 1
    Levels = {32}
    LevelsOf <- MCLevelsOf
    Switchers = {u1}
    Nobody = Nobody
    MaxMessages = 2
    MaxGenerations = 2
INVARIANT OneLoopDelivers
CHECK_DEADLOCK FALSE
