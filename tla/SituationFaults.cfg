SPECIFICATION FairSpec
CONSTANTS
    a1 = a1
    a2 = a2
    a3 = a3
    Alarms <- MCTwo
    NoClear = {a1}
    Windowed <- MCTwo
    MaxSit = 2
    HandClears = {"clear_alarm", "clear_alarms"}
    Modes = {"cluster", "components"}
    Mishaps = {"gesture", "surface", "join"}
    MaxMishaps = 1
PROPERTIES NothingBurningIsDropped ResolvedIsFinal ProposalLapses QuietResolves
CHECK_DEADLOCK FALSE
