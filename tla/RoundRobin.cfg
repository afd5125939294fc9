SPECIFICATION Spec
CONSTANTS
    Workers = {w1, w2, w3}
    Engines = {0, 1, 2}
    Pairs = {0, 1, 2}
    Jobs <- RoundRobinJobs
    NGames = 3
    Frequency = 1
    Outcomes = {1}
    Sprt = FALSE
    SprtDone <- LeadOfTwo
    MayHang = FALSE
    NoEngine = NoEngine
INVARIANTS
    RightEnginesPlay
    FinalStandings
PROPERTIES
    WriterContract
    ImplementsLog
SYMMETRY WorkerSymmetry
