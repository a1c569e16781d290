CONSTANTS
    Kinds <- AllKinds
    MaxReady = 3
SPECIFICATION Spec
INVARIANTS
    TypeOK
    AvailableIsConnected
    PollOfThisLink
    UnloadedHoldsNothing
    EntityFollowsValve
PROPERTIES
    NeverDropsSession
    TriesAgain
    AvailabilityCorrected
