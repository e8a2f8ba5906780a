SPECIFICATION FairSpec
CONSTANTS
    Kinds <- AllKinds
    MaxWrites = 2
    MaxDeletes = 1
    MaxRuns = 1
    Faults = {"preRead", "gateRead", "scopeRead", "validateRead", "drift", "otherApply", "cancel"}
PROPERTIES
    SettledEndsWait
    MismatchEndsWait
    DriftEndsWait
