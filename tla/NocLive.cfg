SPECIFICATION MCLiveSpec
CONSTANTS
    Cases = {c1}
    Alarms = {}
    Critical = {}
    People = {ann}
    Admins = {ann}
    Agents = {a1}
    Entry = {a1}
    Bosses = {}
    Priorities = {"minor"}
    Nobody = nobody
    MaxRaised = 2
    MaxRuns = 1
    MaxCrashes = 1
PROPERTIES NobodyStranded 
CHECK_DEADLOCK FALSE
