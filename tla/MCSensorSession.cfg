CONSTANTS
    Tasks = {t1, t2}
    Session = Session
    Poll = Poll
    None = None
SPECIFICATION Spec
CHECK_DEADLOCK FALSE
INVARIANTS
    TypeOK
    ValveFollowed
    LeavesNothing
PROPERTIES
    EndsWhenLostOrStopped
    ImplementsOutcome
