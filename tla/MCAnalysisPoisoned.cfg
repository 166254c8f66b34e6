CONSTANTS
    Clients = {c1}
    Runs = {run1}
    MaxLayers = 1
    MaxRows = 7
    Restarts = FALSE
    Misconfigured = FALSE
    Outages = FALSE
SPECIFICATION FairSpec
PROPERTIES
    FailedIsResumable
CHECK_DEADLOCK FALSE
