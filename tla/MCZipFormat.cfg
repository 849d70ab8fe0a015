CONSTANTS
    M16 = 5
    M32 = 14
    Growth = 2
    MaxFields = 4
    Values <- SmallValues
    Scenarios <- AllScenarios
SPECIFICATION Spec
INVARIANTS
    RoundTrip
    NotRefused
    TornRefused
    NoMismatch
    FieldsFit
PROPERTY OtherKindStays
CHECK_DEADLOCK FALSE
