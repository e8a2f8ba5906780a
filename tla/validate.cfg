CONSTANTS
    Inputs <- MCInputs
    Worlds <- MCWorlds
    Expected <- MCExpected
    Outcomes = {"none", "passed", "failed", "skipped", "observed", "unobserved"}
    MaxFaults = 2
SPECIFICATION Spec
INVARIANTS SuccessIsEarned JUnitTellsExit
PROPERTY ValidateEnds
CHECK_DEADLOCK FALSE
