SPECIFICATION Spec
CONSTANTS
    Threads = {t1, t2}
    Staying = {stays}
    Leaving = {leaves}
    Sizes = {0, 1, 3}
    InitialSize = 2
    SESSION_MAP_SIZE = 3
    MaxSessions = 3
INVARIANTS TypeOK MapMatchesList ToldOnce
