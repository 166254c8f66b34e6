CONSTANTS
    Clients = {c1}
    Readers = {x1}
    Runs = {run1, run2}
    Downstream <- TwoStages
    MaxLogs = 3
    MaxReports = 1
    Restarts = TRUE
    Misconfigured = TRUE
SPECIFICATION FairSpec
INVARIANTS
    CompleteIsLast
    LastWordMatchesStatus
PROPERTIES
    AttachedStreamEnds
CHECK_DEADLOCK FALSE
