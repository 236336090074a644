SPECIFICATION Spec
CONSTANTS
    Ids = {i1, i2, i3, i4, i5, i6, i7}
    None = None
    FaultKinds <- AnyFault
    MaxFaults = 3
    MaxCrashes = 2
    MaxResets = 2
SYMMETRY IdSymmetry
INVARIANTS TypeOK OneIdentityOnDisk
PROPERTIES NewIdentityOnlyOnEmptyDisk
