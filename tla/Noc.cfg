SPECIFICATION MCSpec
CONSTANTS
    Cases = {c1}
    Alarms = {y}
    Critical = {y}
    People = {ann}
    Admins = {ann}
    Agents = {a1, a2}
    Entry = {a1}
    Bosses = {a2}
    Priorities = {"minor", "critical"}
    Nobody = nobody
    MaxRaised = 2
    MaxRuns = 2
    MaxCrashes = 0
INVARIANTS QueueLedger RunningHasRun 
CHECK_DEADLOCK FALSE
