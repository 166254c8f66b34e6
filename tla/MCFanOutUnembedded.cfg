CONSTANTS
    None = None
    Callers <- ThreeEdges
    Prompts <- PromptNames
    Topic <- Topics
    Earlier <- StoredEarlier
    MaxEntries = 2
    MaxExpiries = 1
    EmbeddingFails = {"get", "put"}
    Providers <- TwoProviders
    Jobs = {"audit", "rescore", "ground", "discover"}
    Edges <- ThreeEdges
    Limit = 2
    PromptOf <- StagePrompts
    Batches <- Shuffled
    Weak = {2}
    Bare = {1}
    PerBatch = 1
    ClaimsIn <- Contents
    Alike <- Likeness
    Known = {"k"}
SPECIFICATION Spec
INVARIANTS
    AnswersFit
CHECK_DEADLOCK FALSE
