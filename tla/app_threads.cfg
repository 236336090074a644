SPECIFICATION Spec
CONSTANTS
    LastBlock = 4
    QueueLen = 2
    MaxRuns = 3
INVARIANTS TypeOK PopupUntilDone JoinsOnlyFinished ResultIsLatest
PROPERTIES ProgressIsCurrent ImplementsRun EveryRunReports
