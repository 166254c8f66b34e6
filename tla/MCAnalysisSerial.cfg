CONSTANTS
    Clients = {c1, c2}
    Runs = {run1, run2}
    MaxLayers = 2
    MaxRows = 8
    Restarts = TRUE
    Misconfigured = TRUE
    Outages = TRUE
SPECIFICATION Spec
SYMMETRY Symmetry
CONSTRAINT Uncontended
INVARIANTS
    TypeOK
    OneRunAtATime
    CheckpointIsHonest
    EvidenceSavedOnce
    LayersRestOnEvidence
PROPERTIES
    CheckpointNeverRegresses
    ImplementsResumableRun
CHECK_DEADLOCK FALSE
