SPECIFICATION MCSpec
CONSTANTS
    MaxSeq = 4
    BatchSize = 2
    QueueSize = 2
    SegLen = 2
    MaxFaults = 3
    Faults = {"outage", "stop", "ambiguous", "kill", "power"}
    KindChoices <- MCKinds
    Configs = {c, d}
    Fits = {f}
    Shipped = {xgb, gam}
    FirstOf = gam
    Adapted = site
    Rejected = {d}
    Formula = formula
    Nil = nil
    Breaks = {"read", "league", "pass"}
    MaxRun = 3
    Sits = {1, 2}
    MaxAlarm = 3
    MaxDay = 3
    KeepDays = 1
    Candidates <- MCCandidates
    DefaultPolicy <- MCPolicy
    RowCap = 1
    Grades = {"naming"}
    Windows = {1, 2}
    Clients = {m}
    Spans <- MCSpans
    RuleSets = {"hide", "admit", "untargeted"}
    Patch = 1
    Threshold = 1
    Lookahead = 1
    Lag = 1
    MaxHour = 3
    Writers = {req, cli}
    Early = {}
    Pruner = req
    Unlocked = unlocked
    Day = 1
    MaxRow = 4
    MaxTime = 4
    Users = {u, v}
    FirstAdmin = u
    Requests = {1, 2}
    Emails = {e}
    Nothing = nothing
    Deleted = deleted
    MaxPassword = 4
    Subjects = {s}
    Callers = {1, 2}
    Editors = {1, 2}
    MaxChange = 3
    Hosts = {h, k}
    Tokens = {t}
    Leases = {l}
    Askers = {1, 2}
    None = none
    Gone = gone
    MaxLive = 1
    MaxContent = 2
INVARIANTS OutlivesItsWindow LongWindowsAreAgreed  AnAdminRemains CredentialsAreCurrent ChangeLandsNext CredentialIsOfHost PrunedIsDurable EvidenceKept 
PROPERTY LeasesEndForGood
CHECK_DEADLOCK FALSE
