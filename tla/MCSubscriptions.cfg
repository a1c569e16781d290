CONSTANTS
    a = a
    b = b
    h1 = h1
    h2 = h2
    alarm = alarm
    Torn = Torn
    Users = {a, b}
    Handlers = {h1, h2}
    Alerts = {alarm}
SPECIFICATION Spec
SYMMETRY Symmetry
INVARIANTS
    TypeOK
    AnswerTrue
    AskedForTheList
PROPERTIES
    EveryoneTried
