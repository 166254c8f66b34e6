CONSTANTS
    None = None
    Sessions = {s1}
    Answers <- LineAnswers
    Raised <- Attacks
    Directions <- BothWays
    Levels = {"decisive"}
    Priors = {10}
    Given <- OneGivenOrNone
    Events = {None, "e1"}
    Recollections <- OneRateOrNone
    Budgets <- AllBudgets
SPECIFICATION Spec
INVARIANTS
    Lineage
    ConvictionIsEarned
    ShownIsCounted
PROPERTIES
    
    LoadFollowsObjections
CHECK_DEADLOCK FALSE
