SPECIFICATION SchedSpec
CONSTANTS
    MaxEngines = 4
    MaxRounds = 2
    MaxGames = 4
    OpeningFiles <- MCOpeningFiles
INVARIANTS
    EveryPairMeets
    RepeatPairsColours
    ColoursEven
CHECK_DEADLOCK FALSE
