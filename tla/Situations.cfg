SPECIFICATION Spec
CONSTANTS
    a1 = a1
    a2 = a2
    a3 = a3
    Alarms <- MCThree
    NoClear = {}
    Windowed = {}
    MaxSit = 3
    HandClears = {"clear_alarms"}
    Modes = {"cluster"}
    Mishaps = {}
    MaxMishaps = 0
SYMMETRY MCSym
INVARIANTS MapsMatchRows OneProposal
PROPERTY ConfirmedIsTheOperators
CHECK_DEADLOCK FALSE
