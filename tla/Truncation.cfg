CONSTANTS
    MaxNodes = 4
SPECIFICATION Spec
INVARIANTS
    TruncatesAll
