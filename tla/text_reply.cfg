CONSTANTS
    None = None
    Sorry = Sorry
    MaxChunks = 2
    MaxRetries = 2
SPECIFICATION FairSpec
INVARIANTS
    TypeOK
    AnswerComplete
    AoaiErrorIsTold
PROPERTIES
    RefinesAnswer
    Terminates
