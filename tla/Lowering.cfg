CONSTANTS
    MaxNodes = 4
SPECIFICATION Spec
INVARIANTS
    TypeOK
    WellFormed
    SameRun
    OperandsReady
PROPERTIES
    Meets
