SPECIFICATION FairSpec
CONSTANTS
    Ids = {i1, i2, i3, i4}
    None = None
    FaultKinds <- AnyFault
    MaxFaults = 2
    MaxCrashes = 1
    MaxResets = 1
PROPERTIES SelfHeals RebootRestores
