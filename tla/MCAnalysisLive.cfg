CONSTANTS
    Clients = {c1}
    Runs = {run1, run2}
    MaxLayers = 1
    MaxRows = 6
    Restarts = TRUE
    Misconfigured = TRUE
    Outages = TRUE
SPECIFICATION FairSpec
PROPERTIES
    RunEnds
    ProcessingEnds
CHECK_DEADLOCK FALSE
