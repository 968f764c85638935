SPECIFICATION MCSpec
CONSTANTS
    MaxRec = 3
    BatchMax = 2
    Crashers = {2}
    Hangers = {3}
    MaxPolicy = 1
    MaxFaults = 1
    Faults = {"kill", "slow", "cancel", "fork", "late"}
    MaxData = 2
    Socket = 2
    OutboxMax = 1
    Burst = 2
    Admits <- MCAdmits
    Stops = TRUE
    MaxIngestFaults = 2
    IngestFaults = {"crash", "boot", "fork", "disk", "timeout"}
INVARIANTS OwnAnswerSafe LatestApplied OnlyPoisonUnreadable ClosedKnowsAll
PROPERTIES EveryRecordAnswered HeadHeard WorkerComesBackSafe
CHECK_DEADLOCK FALSE
