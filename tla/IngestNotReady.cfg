SPECIFICATION IngestFairSpec
CONSTANTS
    MaxData = 1
    Socket = 1
    OutboxMax = 1
    Burst = 1
    Admits <- MCOpen
    Stops = FALSE
    MaxIngestFaults = 2
    IngestFaults = {"crash", "boot"}
PROPERTY WorkerComesBack
CHECK_DEADLOCK FALSE
