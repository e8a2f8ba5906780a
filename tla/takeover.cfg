CONSTANTS
    Charts = {"c1", "c2"}
    Names = {"policy", "old"}
    Policy = "policy"
    Components = {"multus"}
    Runs <- MCRuns
    MaxWrites = 3
SPECIFICATION Spec
INVARIANT BlockedRunTouchesNothing
PROPERTY ReplacedOnRequest
PROPERTY NetworkingKept
PROPERTY OneInstaller
CHECK_DEADLOCK FALSE
