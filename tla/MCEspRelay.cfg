CONSTANTS
    MaxOutbox = 5
SPECIFICATION Spec
INVARIANTS
    TypeOK
    ReportArrives
    NoOldValue
PROPERTIES
    UnavailableWhenAway
    AvailableWhenThere
