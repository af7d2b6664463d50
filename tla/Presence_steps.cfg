SPECIFICATION Spec
CONSTANTS
    NearConfirm = 2
    FarTimeout = 3
    ScanInterval = 2
    MaxTicks = 5
INVARIANTS
    NearIsAsDefined

    
