SPECIFICATION Spec
CONSTANTS
    Kinds <- PolicyOnly
    MaxWrites = 1
    MaxDeletes = 0
    MaxRuns = 2
    Faults = {"kill"}
INVARIANTS
    FreshAfterRerun
