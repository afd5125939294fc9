SPECIFICATION FairSpec
CONSTANTS
    Workers = {w1, w2}
    Engines = {0, 1}
    Pairs = {0}
    Jobs <- MatchJobs
    NGames = 3
    Frequency = 3
    Outcomes = {0, 2}
    Sprt = TRUE
    SprtDone <- LeadOfTwo
    MayHang = TRUE
    NoEngine = NoEngine
INVARIANTS
    TypeOK
    GamesAccounted
    PgnComplete
    ScoresMatchGames
PROPERTIES
    StopIsFinal
    HangEndsOpenQueue
    Terminates
CHECK_DEADLOCK FALSE
