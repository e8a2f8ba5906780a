SPECIFICATION GenerateSpec
CONSTANTS
    AddrBits = 6
    Sanitized <- MCSanitized
    Inputs <- MCInputs
    Nodes <- MCNodes
    ServiceApis <- MCServiceApis
    MaxRuns = 2
INVARIANTS
    FilesOfOneRun
    AppliedInScope
    PoolsDisjoint
    DeployedPoolsClear
CHECK_DEADLOCK FALSE
