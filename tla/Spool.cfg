SPECIFICATION FairSpec
CONSTANTS
    MaxTraps = 4
    GroupMax = 2
    SegLen = 2
    MaxUsed = 2
    MaxSpan = 2
    MaxFaults = 1
    Faults = {"fail", "crash", "power", "restart", "rot", "header"}
INVARIANTS AckedKeptSafe  NothingMissing
PROPERTIES AckedClassified 
CHECK_DEADLOCK FALSE
