SPECIFICATION Spec
CONSTANTS
    StabilizationDays = 2
    ReviewWindow = 2
    LastDay = 2
    CadenceEnabled = TRUE
PROPERTIES
    ClosedDaysNeverBlock
CHECK_DEADLOCK FALSE
