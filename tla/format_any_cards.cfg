SPECIFICATION Spec
CONSTANTS
    Sectors = 2
    Cards = {genuine, clone}
    Clones = {clone}
    Classic1k = {genuine, clone}
    NoCard = NoCard
    Foreign = {1}
    MaxRuns = 2
    MaxMoves = 1
    MaxGlitches = 1
INVARIANTS TypeOK NeverLocksOut
PROPERTIES Block0Untouched OkMeansFormatted ImplementsRun
CHECK_DEADLOCK FALSE
