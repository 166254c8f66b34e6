CONSTANTS
    None = None
    Sessions = {s1, s2}
    Seed <- LinkedClaims
    Outcomes = {"y1"}
    Overrides = {"weak"}
    Changes <- Reviews
    MaxRows = 5
    MaxRevision = 3
    MaxTheories = 1
    MaxGrown = 1
    MaxLinks = 1
    MaxOverlap = 6
SPECIFICATION Spec
INVARIANTS
    AuditLogIsExact
    RejectedStaysOut
    FreshTheoriesMatchReview
CHECK_DEADLOCK FALSE
SYMMETRY Symmetry
CONSTRAINT Apart
