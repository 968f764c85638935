SPECIFICATION FaultlessSpec
CONSTANTS
    Windows = {1}
    Clients = {m}
    Spans <- MCSpans
    RuleSets = {"hide"}
    Patch = 0
    Threshold = 2
    Lookahead = 1
    Lag = 1
    MaxHour = 4
INVARIANT EndNowSurfaces
CHECK_DEADLOCK FALSE
