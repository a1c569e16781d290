CONSTANTS
    N = 2
    Preemption = TRUE
    Refused = {"scan", "gatt"}
SPECIFICATION Spec
CHECK_DEADLOCK FALSE
PROPERTIES
    ImplementsReport
    ReportCorrected
