SPECIFICATION Spec
CONSTANTS
    Formats <- AllFormats
    MaxFaults = 2
    MaxCrashes = 2
    MaxForeign = 1
INVARIANTS DataKept MamKept MountedTruly
PROPERTY Converges
CHECK_DEADLOCK FALSE
