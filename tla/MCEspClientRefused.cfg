CONSTANTS
    N = 2
    Preemption = FALSE
    Refused = {"connect"}
SPECIFICATION Spec
CHECK_DEADLOCK FALSE
PROPERTIES
    ScansAgain
