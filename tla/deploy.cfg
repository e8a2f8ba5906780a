SPECIFICATION FairSpec
CONSTANTS
    ncp = ncp
    nnp = nnp
    pool = pool
    pod = pod
    Policies <- MCPolicies
    Others <- MCOthers
    HasNcp = TRUE
    IPPools = {pool}
    Pods = {pod}
    Strays = {stray}
    stray = stray
    Faults = {"inspect", "helm", "preflight", "remove", "config", "api", "apply", "reconcile", "cancel"}
INVARIANTS
    DryRunPersistsNothing
    SuccessMeansVerified
PROPERTIES
    PoliciesGateRest
