SPECIFICATION Spec
CONSTANTS
    Sectors = 3
    Cards = {genuine, clone, big}
    Clones = {clone}
    Classic1k = {genuine, clone}
    NoCard = NoCard
    Foreign = {0, 1}
    MaxRuns = 1
    MaxMoves = 1
    MaxGlitches = 1
PROPERTIES WriteFailedMeansForeign OtherCardsUntouched
CHECK_DEADLOCK FALSE
