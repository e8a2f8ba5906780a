CONSTANTS
    Options <- MCOptions
    Groups <- MCGroups
    DaemonSets <- MCDaemonSets
    SupportObjs <- MCSupport
    Foreign = {{}, {"ds", "scc"}}
    PodsOf <- MCPodsOf
    Networks <- MCNetworks
    MaxFaults = 2
SPECIFICATION Spec
INVARIANTS NothingLeft PassMeansMeasured FailureNotInherited
INVARIANTS WithinBudget ListenersCurrent
PROPERTY RunEnds
CHECK_DEADLOCK FALSE
