SPECIFICATION IntakeFairSpec
CONSTANTS
    MaxSeq = 4
    BatchSize = 2
    QueueSize = 2
    SegLen = 2
    MaxFaults = 2
    Faults = {"storage", "kill", "power"}
    KindChoices <- MCAll
INVARIANTS ClassifiedOnce NothingSkipped OnlyUnclassifiableSetAside
PROPERTIES ImplementsTrapLog EveryTrapSettled
CHECK_DEADLOCK FALSE
