CONSTANTS
    Connections = {r1, r2}
    Reported = {stage, error}
    Sentinel = None
    MaxEvents = 3
SPECIFICATION LogFairSpec
INVARIANTS
    LogTypeOK
    NoLostWakeup
    DeliveredIsReplay
PROPERTIES
    StreamTerminates
    ImplementsReplay
