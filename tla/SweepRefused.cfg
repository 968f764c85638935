SPECIFICATION CorpusSpec
CONSTANTS
    Sits = {1}
    MaxAlarm = 3
    MaxDay = 3
    KeepDays = 1
    Candidates <- MCCandidates
    DefaultPolicy <- MCPolicy
    RowCap = 1
    Grades = {"naming", "grouping", "closing"}
INVARIANT SweepNeverRefused
CHECK_DEADLOCK FALSE
