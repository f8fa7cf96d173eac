\* Three events, a channel of one and batches of two: a drop, a full batch, a
\* partial batch and an event that arrives after Stop all occur.
CONSTANTS
    Events = {e1, e2, e3}
    Sinks = {k1}
    BufferSize = 1
    BatchSize = 2
    SinkQueueSize = 1
    MaxFailed = 1
SPECIFICATION Spec
CHECK_DEADLOCK FALSE
INVARIANTS GapsCovered CountersAddUp StoppedMeansDrained
PROPERTY AcceptedIsWritten
