SPECIFICATION Spec
CONSTANTS
    MaxSeq = 3
    BatchSize = 1
    QueueSize = 2
    SegLen = 3
    MaxFaults = 1
    Faults = {"stop"}
    KindChoices <- MCShort
INVARIANT NothingSkipped
CHECK_DEADLOCK FALSE
