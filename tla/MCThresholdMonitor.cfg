CONSTANTS
    Rules <- MCRules
    Hysteresis = 1
    Readings <- NumbersAndNaN
    NaN = NaN
    None = None
SPECIFICATION Spec
INVARIANTS
    TypeOK
    ArmedIsSounded
PROPERTIES
    NoRepeatInSession
    OneAlertPerCrossing
