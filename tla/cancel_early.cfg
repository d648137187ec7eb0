SPECIFICATION Spec
CONSTANTS
    MapSize = 3
    Ids = {1, 2}
    Probes = {}
INVARIANT RunningIsCancelled
