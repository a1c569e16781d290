CONSTANTS
    N = 2
    Preemption = FALSE
    Refused = {}
SPECIFICATION Spec
INVARIANTS
    TypeOK
    ReportedAway
    FlagsOfThisLink
    NonePassedOver
PROPERTIES
    ScansAgain
    SetupEnds
