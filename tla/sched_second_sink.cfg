SPECIFICATION LiveSpec

CONSTANTS
    Nets <- SecondSink
    QueueSize = 1
    PreMuxMax = 3
    Tolerance = 1

PROPERTIES NeverStuck

CHECK_DEADLOCK FALSE
