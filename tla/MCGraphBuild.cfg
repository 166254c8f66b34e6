CONSTANTS
    None = None
    SharedDepth = 2
    MaxPaths = 2
    MaxPathLength = 3
    Claims <- FourClaims
    Outcomes <- TheOutcome
    Similar <- ByNumber
    MaxCandidates = 2
    EdgeBudget = 6
    Materials <- AllMaterials
    Decision <- TwoOptions
    Sigma = 2458
    Simulations <- TwoRuns
    Modifications <- Changes
    ByHand <- HandMade
    Disputed <- Open
    Overrides <- SomeOverrides
    SubDecisions <- Within
    MaxEdits = 1
SPECIFICATION GraphSpec
INVARIANTS
    GraphIsWhole
    
    ForecastsHold
    
    VariationsAgree
