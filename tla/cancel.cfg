SPECIFICATION LiveSpec
CONSTANTS
    MapSize = 3
    Ids = {2, 3, 4}
    Probes = {2}
INVARIANTS CancelIsHeard OnlyWhenAsked ShutdownReachesAll
PROPERTIES ShutdownStopsFFmpeg
