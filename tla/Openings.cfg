SPECIFICATION FairSpec
CONSTANTS
    Workers = {w1, w2, w3}
    NLines = 3
    Illegal = {1}
    NGames = 4
    Random = TRUE
    Repeat = TRUE
    NoWorker = NoWorker
    NoLine = NoLine
INVARIANTS
    TypeOK
    NoEarlyRepetition
    OwnOpening
PROPERTY LegalGamesStart
