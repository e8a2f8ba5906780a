CONSTANTS
    Nodes = {"n1", "n2"}
    Hardware <- MCHardware
    EastWest <- MCEastWest
    Product <- MCProduct
    Foreign = {"n2"}
    Static <- MCStatic
    Touched <- MCTouched
    Layouts <- MCLayouts
    Runs <- MCRuns
    MaxRuns = 2
    MaxChurn = 1
SPECIFICATION Spec
INVARIANT InventoryIsCurrent
INVARIANT PlanPredictsOutcome
INVARIANT TornDown
PROPERTIES DiscoveryEnds
CHECK_DEADLOCK FALSE
