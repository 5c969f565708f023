CONSTANTS
    T_MAX = 1
    A_MAX = 4
    WRAP = 64
    MaxParams = 1
    MaxLocals = 1
    MaxVals = 6
    MaxArgs = 2
    MaxCallArgs = 2
    MaxIndex = 4
    MaxWaiting = 0
    None = None
    Admit = {"call_past_t"}
SPECIFICATION Spec
INVARIANTS
    RegistersRestored
