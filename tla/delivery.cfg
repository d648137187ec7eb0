SPECIFICATION LiveSpec
CONSTANTS
    Ids = {1, 2}
    MapSize = 1
    Levels = {32}
    LevelsOf <- MCLevelsOf
    Switchers = {u1}
    Nobody = Nobody
    MaxMessages = 2
    MaxGenerations = 2
INVARIANTS TransitCounted ZeroMeansDelivered ExitStopsLoops
PROPERTIES AllDelivered ShutdownDrains ExitReturns
CHECK_DEADLOCK FALSE
