CONSTANTS
    MaxItems = 5
    W = 4
    Literals = {0, 1, 2, 7, 8, 15}
    MaxRich = 2
SPECIFICATION Spec
INVARIANTS
    SourceOrder
    Exact
    TreeSound
