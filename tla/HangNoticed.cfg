SPECIFICATION FairSpec
CONSTANTS
    Workers = {w1, w2}
    Engines = {0, 1}
    Pairs = {0}
    Jobs <- MatchJobs
    NGames = 3
    Frequency = 3
    Outcomes = {1}
    Sprt = FALSE
    SprtDone <- LeadOfTwo
    MayHang = TRUE
    NoEngine = NoEngine
PROPERTY HangNoticed
CHECK_DEADLOCK FALSE
