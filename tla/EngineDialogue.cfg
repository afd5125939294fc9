SPECIFICATION Spec
CONSTANTS
    MaxGames = 2
    MaxPly = 2
INVARIANTS AnswersLastGo EveryWaitGuarded
PROPERTY DialogueEnds
