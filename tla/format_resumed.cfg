SPECIFICATION Spec
CONSTANTS
    Sectors = 3
    Cards = {genuine}
    Clones = {}
    Classic1k = {genuine}
    NoCard = NoCard
    Foreign = {}
    MaxRuns = 2
    MaxMoves = 0
    MaxGlitches = 0
PROPERTIES WriteFailedMeansForeign
CHECK_DEADLOCK FALSE
