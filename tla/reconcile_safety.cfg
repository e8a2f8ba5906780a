SPECIFICATION Spec
CONSTANTS
    Kinds <- AllKinds
    MaxWrites = 3
    MaxDeletes = 2
    MaxRuns = 2
    Faults = {"preRead", "gateRead", "scopeRead", "validateRead", "apply", "owner", "drift", "metaWrite", "otherApply", "cancel", "kill"}
INVARIANTS
    GateRespected
    FreshVerdict
    TimeoutMeansPersistent
