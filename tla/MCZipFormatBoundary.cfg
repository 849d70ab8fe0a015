CONSTANTS
    M16 = 5
    M32 = 14
    Growth = 2
    MaxFields = 4
    Values <- SmallValues
    Scenarios <- AllScenarios
SPECIFICATION Spec
INVARIANT LocalZip64Complete
CHECK_DEADLOCK FALSE
