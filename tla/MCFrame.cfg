CONSTANTS
    None = None
    MaxOptions = 1
    MaxOutcomes = 2
    Asks = {a1, a2}
    RawQuestions <- Lists
    MaxQuestions = 1
    Material <- Analysed
    LeadsTo = 4
    RawTheories <- Theories
    MaxClaims = 3
    MaxLinks = 4
    MaxItems = 3
    MaxSaves = 2
SPECIFICATION Spec
ACTION_CONSTRAINT FollowedThusFar
INVARIANTS
    AnswersFitTheirQuestions
    KeysKeepTheirMeaning
    

    
CHECK_DEADLOCK FALSE
