SPECIFICATION Spec
CONSTANT Starts <- AllStarts
INVARIANTS
    MovesAreLegal
    PositionsSound
    PositionsReadBack
    MovesReadBack
    ResolvedSound
    PgnTellsGame
    RepetitionsCounted
    FiftyMovesInTime
    PositionCommandReplays
PROPERTY MovesPlacePieces
CHECK_DEADLOCK FALSE
