CONSTANTS
    Requests = {q1, q2}
    RsTTL = 1
    AsTTL = 1
    SubjectTTL = 2
    FetchTimeout = 1
SYMMETRY Symmetry
SPECIFICATION MCSpec
INVARIANTS
    AnswersExpire
    
    GuessingIsBounded
PROPERTIES
    
    FetchedIsBounded
CHECK_DEADLOCK FALSE
