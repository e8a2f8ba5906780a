SPECIFICATION FairSpec
CONSTANTS
    device = device
    pool = pool
    network = network
    policy = policy
    Namespaced <- MCNamespaced
    ClusterScoped <- MCClusterScoped
    Rank <- MCRank
    Needs <- MCNeeds
    Roots = {policy}
    Spawned = {device}
    Initial = {device, pool, network, policy}
    Faults = {"list", "delete", "get", "helm", "cancel", "kill"}
    MaxSpawns = 2
    MaxRuns = 2
INVARIANTS
    OperatorOutlivesResources
    SuccessMeansEmpty
PROPERTIES
    KeepsPromise
    CleanupEnds
