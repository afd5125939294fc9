SPECIFICATION Spec
CONSTANTS
    Workers = {w1, w2}
    MaxGames = 2
    MaxArgs = 3
INVARIANTS
    FaultsExplained
    SuccessIsComplete
PROPERTY ProcessEnds
CHECK_DEADLOCK FALSE
