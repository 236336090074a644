SPECIFICATION Spec
CONSTANTS
    Ids = {i1, i2, i3, i4, i5}
    None = None
    FaultKinds <- AnyFault
    MaxFaults = 2
    MaxCrashes = 0
    MaxResets = 1
INVARIANTS RetiredStaysRetired
