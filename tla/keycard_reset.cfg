SPECIFICATION Spec
CONSTANTS
    Capacity = 67
    Requests <- Readers
    QueueSize = 2
    EventsPerTick = 1
    MaxIds = 2
    MaxPending = 2
INVARIANTS TypeOK DialogQuiescent NoUseAfterFree ServesOneIdentity CountersOfCurrent StatusHonest ShownIsServed
PROPERTIES DialogStartsClean HolderSpec StopReturns
