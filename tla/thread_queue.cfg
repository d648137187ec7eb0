SPECIFICATION LiveSpec
CONSTANTS
    NbStreams = 2
    Sizes = {1, 2}
    Data = {d1, d2}
    FailingSizes = {1}
INVARIANT NoLostWakeup
PROPERTIES ImplementsChannels EndsArrive
