SPECIFICATION LiveSpec

CONSTANTS
    Nets <- SomeNets
    QueueSize = 1
    PreMuxMax = 3
    Tolerance = 1

INVARIANTS PreMuxDrained InStep StopHolds
PROPERTIES ImplementsTranscode TranscodeEnds

\* A muxer that waits for an end that did not fit in its pre-muxing queue is in
\* tq_receive for ever.
CHECK_DEADLOCK FALSE
